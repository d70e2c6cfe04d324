------------------------------ MODULE BaseAdapter ------------------------------
(***************************************************************************)
(* prepare() of BaseAdapter (src/adapters/baseAdapter.ts), the synchronous *)
(* first half of every dispatch: the prompt is encoded, held against the   *)
(* traces recorded before, refined, etched and recorded.  A prompt counts  *)
(* by the subject its tensor encodes.  A human veto throws before anything *)
(* is etched or recorded, so a vetoed call changes nothing.                *)
(***************************************************************************)
EXTENDS Naturals, FiniteSets

CONSTANTS
    Subjects,  \* what prompts are about
    Likeness   \* Likeness[x][y]: how much a prompt about x resonates with a trace of y

Degree == {"none", "some", "high"}

(* A prompt resonates fully with a trace of its own tensor. *)
ASSUME AdapterAssumption ==
    /\ Likeness \in [Subjects -> [Subjects -> Degree]]
    /\ \A x \in Subjects : Likeness[x][x] = "high"

VARIABLES
    memory     \* traces recorded: what about, and by which dispatch

MemoryTypeOK == memory \subseteq [about : Subjects, by : Nat \ {0}]

(* The best match among the traces there are. *)
MatchesOf(x, degree) == {t \in memory : Likeness[x][t.about] = degree}
Resonance(x) ==
    IF MatchesOf(x, "high") # {} THEN "high"
    ELSE IF MatchesOf(x, "some") # {} THEN "some" ELSE "none"

(* Mutant of Felt: the trace is recorded before the query. *)
FeltAfterRecording(x) == "high"

(* "query resonance against PRIOR traces": what a dispatch about x feels.  *)
Felt(x) == Resonance(x)

(* prepare() on behalf of dispatch d. *)
Prepare(x, d) == memory' = memory \cup {[about |-> x, by |-> d]}
=============================================================================
