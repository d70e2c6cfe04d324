-------------------------------- MODULE FilmRun --------------------------------
(***************************************************************************)
(* LongFormVideoOrchestrator.generate()                                    *)
(* (src/core/longFormVideoOrchestrator.ts) with the provenance chain of    *)
(* src/core/provenanceTracer.ts and the sidecar of                         *)
(* src/core/filmProvenance.ts.  One orchestrator renders several films:    *)
(* calls overlap at the await of a clip, and share tracer and memory.      *)
(* A clip is its number among all the clips the adapter delivered; so are  *)
(* its fingerprint and its asset.  Prompt, resonance and etch are data.    *)
(***************************************************************************)
EXTENDS Naturals, Sequences, SequencesExt, FiniteSets

CONSTANTS
    Films,        \* callers of generate(), each one call at a time
    Lengths,      \* totalClips of a call
    MaxClips      \* bound: answers of the adapter

ASSUME FilmAssumption == /\ Lengths \subseteq Nat \ {0}
                         /\ MaxClips \in Nat

VARIABLES
    films,        \* films[f]: the call f has under way, or made last
    tracerEvents,       \* the tracer's chain: the clip every synthesis is of
    filmMemory,       \* traces of the shared StigmergyV5: the synthesis each belongs to
    answers,      \* clips the adapter delivered
    untraced, unetched  \* those whose own trace, or etch, was not to be had (history)

filmVars == <<films, tracerEvents, filmMemory, answers, untraced, unetched>>

(* A call: totalClips, its ClipRecords and ShotProvenanceRecords so far,   *)
(* the finalRoot it returned (0 before).  A root of the tracer is a length *)
(* of its chain.                                                           *)
NoFilm == [phase |-> "idle", total |-> 0, clips |-> <<>>, shots |-> <<>>, finalRoot |-> 0]

FilmInit ==
    /\ films = [f \in Films |-> NoFilm]
    /\ tracerEvents = <<>>
    /\ filmMemory = <<>>
    /\ answers = 0
    /\ untraced = {} /\ unetched = {}

(* Mutant of Opened: the recorder lives as long as the orchestrator. *)
OpenedWithOldShots(f, n) == [NoFilm EXCEPT !.phase = "rendering", !.total = n,
                                           !.shots = films[f].shots]

(* generate() up to its first await, with a recorder of its own. *)
Opened(f, n) == [NoFilm EXCEPT !.phase = "rendering", !.total = n]
Generate(f) ==
    \E n \in Lengths :
        /\ films[f].phase # "rendering"
        /\ films' = [films EXCEPT ![f] = Opened(f, n)]
        /\ UNCHANGED <<tracerEvents, filmMemory, answers, untraced, unetched>>

(* recordShot(): the shot names the fingerprint and the record of the shot *)
(* before (0 and the empty tuple for the first); a digest stands for what  *)
(* it is taken of.                                                         *)
Shot(shots, clip) ==
    [index |-> Len(shots), clip |-> clip,
     priorFingerprint |-> IF shots = <<>> THEN 0 ELSE Last(shots).clip,
     priorLeaf |-> IF shots = <<>> THEN <<>> ELSE <<Last(shots)>>]

(* Mutant of FinalRoot: the root read before the last clip was awaited. *)
FinalRootWhenAsked(chain) == Len(chain) - 1
FinalRoot(chain) == Len(chain)

Over(film) == Len(film.clips) = film.total

(* The clip arrives: from here to the next await nothing else runs.  The   *)
(* tracer seals the synthesis and lays its trace down, the orchestrator    *)
(* lays down the clip's trace, naming that root, and the shot is recorded. *)
ClipArrives(f) ==
    LET clip == answers + 1
        chain == Append(tracerEvents, clip)
        rendered == [films[f] EXCEPT
                        !.clips = Append(@, [clip |-> clip, root |-> Len(chain)]),
                        !.shots = Append(@, Shot(@, clip))]
    IN  /\ films[f].phase = "rendering"
        /\ answers < MaxClips
        /\ tracerEvents' = chain
        /\ filmMemory' = filmMemory \o <<Len(chain), Len(chain)>>
        /\ answers' = clip
        /\ films' = [films EXCEPT ![f] =
               IF Over(rendered)
               THEN [rendered EXCEPT !.phase = "done", !.finalRoot = FinalRoot(chain)]
               ELSE rendered]
        /\ UNCHANGED <<untraced, unetched>>

(* The clip arrives with a fingerprint that is not finite: the tracer has  *)
(* sealed the synthesis and laid its trace down when the digest of the     *)
(* orchestrator's trace throws.  Large numbers overflow, and a recorded    *)
(* seed is digested, after that trace: then the etch or the shot throws.   *)
ClipBreaks(f) ==
    LET clip == answers + 1
        root == Len(tracerEvents) + 1
    IN  /\ films[f].phase = "rendering"
        /\ answers < MaxClips
        /\ tracerEvents' = Append(tracerEvents, clip)
        /\ answers' = clip
        /\ films' = [films EXCEPT ![f].phase = "failed"]
        /\ \/ /\ filmMemory' = filmMemory \o <<root>>
              /\ untraced' = untraced \cup {clip} /\ UNCHANGED unetched
           \/ /\ filmMemory' = filmMemory \o <<root, root>>
              /\ unetched' = unetched \cup {clip} /\ UNCHANGED untraced

(* Mutant of ClipFails: the prompt was sealed before the clip was asked.   *)
ClipFailsSealed(f) ==
    /\ films[f].phase = "rendering"
    /\ films' = [films EXCEPT ![f].phase = "failed"]
    /\ tracerEvents' = Append(tracerEvents, 0)
    /\ UNCHANGED <<filmMemory, answers, untraced, unetched>>

(* The adapter fails: generate() rejects, and what is sealed stays. *)
ClipFails(f) ==
    /\ films[f].phase = "rendering"
    /\ films' = [films EXCEPT ![f].phase = "failed"]
    /\ UNCHANGED <<tracerEvents, filmMemory, answers, untraced, unetched>>

FilmNext == \E f \in Films : Generate(f) \/ ClipArrives(f) \/ ClipBreaks(f) \/ ClipFails(f)
FilmSpec == FilmInit /\ [][FilmNext]_filmVars

-----------------------------------------------------------------------------
(* verifyFilmSidecar() of what a call recorded: each shot names the        *)
(* fingerprint and the record of the one displayed before it.              *)
SidecarVerifies(shots) ==
    \A i \in DOMAIN shots :
        IF i = 1 THEN shots[i].priorFingerprint = 0 /\ shots[i].priorLeaf = <<>>
        ELSE /\ shots[i].priorFingerprint = shots[i - 1].clip
             /\ shots[i].priorLeaf = <<shots[i - 1]>>

FilmTypeOK ==
    /\ answers \in 0..MaxClips
    /\ untraced \subseteq 1..answers /\ unetched \subseteq 1..answers
    /\ \A f \in Films :
        /\ films[f].phase \in {"idle", "rendering", "done", "failed"}
        /\ Len(films[f].clips) <= films[f].total
        /\ films[f].phase = "done" <=> /\ films[f].total > 0
                                       /\ Len(films[f].clips) = films[f].total

(* The sidecar of a call verifies and lists the clips of that call, one    *)
(* shot each, whatever films were rendered before it or beside it.         *)
SidecarsStandAlone ==
    \A f \in Films :
        /\ SidecarVerifies(films[f].shots)
        /\ [i \in DOMAIN films[f].shots |-> films[f].shots[i].clip]
             = [i \in DOMAIN films[f].clips |-> films[f].clips[i].clip]

(* The final root of a film commits to every clip of it, in the order they *)
(* were rendered, although the chain is shared with the films beside it.   *)
FinalRootCoversFilm ==
    \A f \in Films : films[f].phase = "done" =>
        LET clips == films[f].clips
        IN  \A i \in DOMAIN clips :
                /\ clips[i].root <= films[f].finalRoot
                /\ tracerEvents[clips[i].root] = clips[i].clip
                /\ i > 1 => clips[i - 1].root < clips[i].root

(* What the memory holds of a clip: the tracer's trace, and next to it the *)
(* orchestrator's unless its digest threw.                                 *)
HasItsTraces(clip) ==
    \E i \in DOMAIN filmMemory :
        /\ filmMemory[i] = clip
        /\ clip \notin untraced => i + 1 \in DOMAIN filmMemory /\ filmMemory[i + 1] = clip

(* A clip the adapter rejects leaves nothing: the chain has one synthesis  *)
(* for every clip that was answered, in the order of the answers, and the  *)
(* memory their traces in that order and no others.  A clip that cannot be *)
(* digested stays half sealed, its synthesis without its trace or without  *)
(* its etch; its film does not list it.                                    *)
SealedAreTheAnswers ==
    /\ tracerEvents = [c \in 1..answers |-> c]
    /\ \A clip \in 1..answers : HasItsTraces(clip)
    /\ \A i \in 2..Len(filmMemory) : filmMemory[i - 1] <= filmMemory[i]
    /\ Len(filmMemory) = 2 * answers - Cardinality(untraced)

HalfSealedAreNotListed ==
    \A f \in Films : \A i \in DOMAIN films[f].clips :
        films[f].clips[i].clip \notin untraced \cup unetched

(* The provenance of a film is its own, and complete for every clip it     *)
(* lists, whatever films are rendered, fail or break off beside it.        *)
FilmInv ==
    /\ FilmTypeOK /\ SidecarsStandAlone /\ FinalRootCoversFilm
    /\ SealedAreTheAnswers /\ HalfSealedAreNotListed
=============================================================================
