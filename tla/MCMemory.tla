------------------------------- MODULE MCMemory -------------------------------
(* Small instances of the components that keep records: the ring buffer,   *)
(* the trace memory, the etch store, the drift sentinel, a reasoning       *)
(* session, the film orchestrator, the ARC agent and its shadow strategy,  *)
(* and the panel of the page's layout shifts.                              *)
(* They share no state, so a behaviour runs the one that `focus` names and *)
(* leaves the others as they start.  Where nothing tells them apart, they  *)
(* are given the same values.                                              *)
EXTENDS RingBuffer, TraceMemory, EtchStore, DriftSentinel, ReasoningSession, FilmRun, ArcAgent,
        ShadowStrategy, StabilityCoach, TLC

CONSTANTS
    a, b, c, m1, m2, good, poor, none,
    MaxSeen     \* bound: items ever pushed to the ring buffer

VARIABLE focus

recordVars == <<ringVars, traceMemoryVars, etchStoreVars, sentinelVars, sessionVars, filmVars>>
agentVars == <<arcVars, shadowVars, coachVars>>
memoryRunVars == <<focus, recordVars, agentVars>>

MemoryRunInit ==
    /\ focus \in {"ring", "traces", "etches", "sentinel", "session", "film", "agent", "shadow",
                  "coach"}
    /\ RingInit /\ TraceMemoryInit /\ EtchStoreInit /\ SentinelInit /\ SessionInit /\ FilmInit
    /\ ArcInit /\ (focus # "agent" => kind = "model")
    /\ ShadowInit /\ (focus # "shadow" => goalColour = Unknown)
    /\ CoachInit /\ (focus # "coach" => ~worker /\ matching[1] = <<>>)

RingRun == focus = "ring" /\ totalSeen < MaxSeen /\ RingNext
TraceRun == focus = "traces" /\ TraceMemoryNext
EtchRun == focus = "etches" /\ EtchStoreNext
SentinelRun == focus = "sentinel" /\ SentinelNext
SessionRun == focus = "session" /\ SessionNext
FilmRunning == focus = "film" /\ FilmNext
ArcRun == focus = "agent" /\ ArcNext
ShadowRun == focus = "shadow" /\ ShadowNext
CoachRun == focus = "coach" /\ CoachNext

RecordsNext ==
    \/ RingRun /\ UNCHANGED <<traceMemoryVars, etchStoreVars, sentinelVars, sessionVars, filmVars>>
    \/ TraceRun /\ UNCHANGED <<ringVars, etchStoreVars, sentinelVars, sessionVars, filmVars>>
    \/ EtchRun /\ UNCHANGED <<ringVars, traceMemoryVars, sentinelVars, sessionVars, filmVars>>
    \/ SentinelRun /\ UNCHANGED <<ringVars, traceMemoryVars, etchStoreVars, sessionVars, filmVars>>
    \/ SessionRun /\ UNCHANGED <<ringVars, traceMemoryVars, etchStoreVars, sentinelVars, filmVars>>
    \/ FilmRunning /\ UNCHANGED <<ringVars, traceMemoryVars, etchStoreVars, sentinelVars,
                                  sessionVars>>

MemoryRunNext ==
    /\ UNCHANGED focus
    /\ \/ RecordsNext /\ UNCHANGED agentVars
       \/ ArcRun /\ UNCHANGED <<recordVars, shadowVars, coachVars>>
       \/ ShadowRun /\ UNCHANGED <<recordVars, arcVars, coachVars>>
       \/ CoachRun /\ UNCHANGED <<recordVars, arcVars, shadowVars>>

MemoryRunSpec == MemoryRunInit /\ [][MemoryRunNext]_memoryRunVars

Most == [k \in Kinds |-> IF k = "model" THEN 7 ELSE 4]
Offered == [k \in Kinds |-> IF k = "model" THEN {{1, 2}} ELSE {{1, 2}, {2, 6}}]
View(x, y) == (1 :> x) @@ (2 :> y)
StartView == {View(1, 5)}
SomeViews == StartView \cup {View(3, 5), View(5, 0)}
LeftRight == <<"ACTION1", "ACTION2">>

(* The agent's result tells what it played, it maps before it exploits and *)
(* reports a loop once; its shadow strategy believes only what it saw with *)
(* the colours it trusts now, and plans shortest ways.                     *)
AgentInv ==
    /\ focus = "agent" => ArcInv
    /\ focus = "shadow" => ShadowInv

(* Shifts all reach the panel, its answers come in order, and it previews  *)
(* only what it shows (StabilityCoach).                                    *)
PanelInv == focus = "coach" => CoachInv

MemorySymmetry == Permutations({a, b, c}) \cup Permutations({m1, m2})
=============================================================================
