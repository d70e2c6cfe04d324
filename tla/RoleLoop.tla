------------------------------- MODULE RoleLoop -------------------------------
(***************************************************************************)
(* runResearcherCoderReviewer() (src/adapters/devinOrchestratorAdapter.ts):*)
(* a researcher, a coder and a reviewer, one leg after the other.  A leg   *)
(* the operator does not veto probes the memory of the adapter, and a      *)
(* probe that resonates reuses an artefact of the run instead of asking    *)
(* the sub-agent.  Loops over one adapter overlap and share its memory.    *)
(***************************************************************************)
EXTENDS BaseAdapter, Sequences, SequencesExt

CONSTANTS
    LegLoops,   \* loops that may overlap
    PromptOf,   \* PromptOf[i]: what the prompt of leg i is about
    Rewrites,   \* what the operator may rewrite a prompt to
    MaxAsked    \* bound: prompts prepared in a run of the model

ASSUME RoleAssumption ==
    /\ PromptOf \in Seq(Subjects) /\ Rewrites \subseteq Subjects
    /\ MaxAsked \in Nat

VARIABLES
    loops,      \* loops[l]: where a loop is, and its report so far
    prepared    \* prompts prepared so far: the number of the last trace

roleVars == <<memory, loops, prepared>>

NoArtefact == 0
EmptyReport == [legs |-> <<>>, merkleChain |-> <<>>, totalUsage |-> 0]
NoLoop == [at |-> "idle", report |-> EmptyReport]

RoleInit ==
    /\ memory = {} /\ prepared = 0
    /\ loops = [l \in LegLoops |-> NoLoop]

Legs(l) == loops[l].report.legs
AtALeg(l) == loops[l].at = "deciding" /\ Len(Legs(l)) < Len(PromptOf)

(* The prompt of the leg, or what the operator rewrites it to. *)
MayAskAbout(l) == {PromptOf[Len(Legs(l)) + 1]} \cup Rewrites

(* Mutant of ReportAtStart: the chain goes on from the run before. *)
ReportWithChain(l) == [EmptyReport EXCEPT !.merkleChain = loops[l].report.merkleChain]
ReportAtStart(l) == EmptyReport

-----------------------------------------------------------------------------
StartLoop(l) ==
    /\ loops[l].at \in {"idle", "reported"}
    /\ loops' = [loops EXCEPT ![l] = [at |-> "deciding", report |-> ReportAtStart(l)]]
    /\ UNCHANGED <<memory, prepared>>

(* humanReview() vetoes the leg: no probe, no call. *)
VetoLeg(l) ==
    /\ AtALeg(l)
    /\ loops' = [loops EXCEPT ![l].report.legs =
            Append(@, [kind |-> "vetoed", artefact |-> NoArtefact])]
    /\ UNCHANGED <<memory, prepared>>

(* Mutant of CachedFrom: the artefact of the leg before. *)
CachedFromLast(legs) == Last(legs).artefact

(* The artefact of the first leg that has one. *)
CachedFrom(legs) ==
    LET with == {i \in DOMAIN legs : legs[i].artefact # NoArtefact}
    IN  IF with = {} THEN NoArtefact ELSE legs[Min(with)].artefact

(* A leg that reuses an artefact adds to the chain and not to the usage;   *)
(* a mutant of it adds to both.                                            *)
ReuseAndCharge(report, x, probe) ==
    [legs |-> Append(report.legs, [kind |-> "hit", about |-> x, probe |-> probe,
                                   artefact |-> CachedFrom(report.legs)]),
     merkleChain |-> Append(report.merkleChain, x),
     totalUsage |-> report.totalUsage + 1]
Reuse(report, x, probe) ==
    [legs |-> Append(report.legs, [kind |-> "hit", about |-> x, probe |-> probe,
                                   artefact |-> CachedFrom(report.legs)]),
     merkleChain |-> Append(report.merkleChain, x),
     totalUsage |-> report.totalUsage]

IsHit(l, x) == Felt(x) = "high" /\ Legs(l) # <<>>

HitLeg(l, x) ==
    /\ prepared < MaxAsked /\ IsHit(l, x)
    /\ Prepare(x, prepared + 1) /\ prepared' = prepared + 1
    /\ loops' = [loops EXCEPT ![l].report = Reuse(@, x, prepared + 1)]

(* A miss: the dispatch prepares the same prompt again, at once, and asks. *)
AskSubAgent(l, x) ==
    /\ prepared + 1 < MaxAsked /\ ~IsHit(l, x)
    /\ memory' = memory \cup {[about |-> x, by |-> prepared + 1],
                              [about |-> x, by |-> prepared + 2]}
    /\ prepared' = prepared + 2
    /\ loops' = [loops EXCEPT ![l] =
            [at |-> "asked", about |-> x, probe |-> prepared + 1, report |-> @.report]]

(* The artefact of a call is numbered like the trace of its dispatch. *)
SubAgentAnswers(l) ==
    /\ loops[l].at = "asked"
    /\ LET x == loops[l].about
           report == loops[l].report
       IN  loops' = [loops EXCEPT ![l] = [at |-> "deciding", report |->
            [legs |-> Append(report.legs, [kind |-> "cold", about |-> x, probe |-> loops[l].probe,
                                           artefact |-> loops[l].probe + 1]),
             merkleChain |-> Append(report.merkleChain, x),
             totalUsage |-> report.totalUsage + 1]]]
    /\ UNCHANGED <<memory, prepared>>

(* The client rejects: so does the loop, and its report is lost. *)
SubAgentFails(l) ==
    /\ loops[l].at = "asked"
    /\ loops' = [loops EXCEPT ![l] = NoLoop]
    /\ UNCHANGED <<memory, prepared>>

Report(l) ==
    /\ loops[l].at = "deciding" /\ Len(Legs(l)) = Len(PromptOf)
    /\ loops' = [loops EXCEPT ![l].at = "reported"]
    /\ UNCHANGED <<memory, prepared>>

RoleNext ==
    \E l \in LegLoops :
        \/ StartLoop(l) \/ VetoLeg(l)
        \/ AtALeg(l) /\ \E x \in MayAskAbout(l) : HitLeg(l, x) \/ AskSubAgent(l, x)
        \/ SubAgentAnswers(l) \/ SubAgentFails(l) \/ Report(l)

RoleSpec == RoleInit /\ [][RoleNext]_roleVars

-----------------------------------------------------------------------------
(* Properties. *)

LegsOf(l, kind) == {i \in DOMAIN Legs(l) : Legs(l)[i].kind = kind}

RoleTypeOK ==
    /\ MemoryTypeOK
    /\ prepared \in 0..MaxAsked
    /\ \A l \in LegLoops :
        /\ loops[l].at \in {"idle", "deciding", "asked", "reported"}
        /\ Len(Legs(l)) <= Len(PromptOf)
        /\ Len(loops[l].report.merkleChain) <= Len(Legs(l))
        /\ \A i \in DOMAIN Legs(l) : Legs(l)[i].artefact \in 0..MaxAsked

(* The report adds up, however many loops share the adapter: the chain     *)
(* names, in order, every leg that was not vetoed and no other, and the    *)
(* usage counts the calls that were answered, one for each leg with an     *)
(* artefact of its own.                                                    *)
ReportsAddUp ==
    \A l \in LegLoops :
        LET done == DOMAIN Legs(l) \ LegsOf(l, "vetoed")
            place(i) == Cardinality({j \in done : j <= i})
            chain == loops[l].report.merkleChain
        IN  /\ Len(chain) = Cardinality(done)
            /\ \A i \in done : chain[place(i)] = Legs(l)[i].about
            /\ loops[l].report.totalUsage = Cardinality({Legs(l)[i].artefact : i \in LegsOf(l, "cold")})

(* A leg hits because of an earlier trace, never because of its own probe. *)
HitsHavePrecedent ==
    \A l \in LegLoops : \A i \in LegsOf(l, "hit") :
        \E t \in memory : /\ t.by < Legs(l)[i].probe
                          /\ Likeness[Legs(l)[i].about][t.about] = "high"

(* A leg that hits goes without an artefact only if all before it do, and  *)
(* what it reuses was answered earlier in the same run.                    *)
HitsReuseTheRun ==
    \A l \in LegLoops : \A i \in LegsOf(l, "hit") :
        LET reused == Legs(l)[i].artefact
            before == {Legs(l)[j].artefact : j \in 1..(i - 1)}
        IN  reused \in before /\ (reused = NoArtefact => before = {NoArtefact})

(* Reports add up, and a leg that hits has a precedent and reuses its run. *)
RoleInv == RoleTypeOK /\ ReportsAddUp /\ HitsHavePrecedent /\ HitsReuseTheRun
=============================================================================
