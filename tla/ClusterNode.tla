----------------------------- MODULE ClusterNode -----------------------------
(***************************************************************************)
(* A node of the deployment the cluster documentation shows: one           *)
(* ClusterStigmergy and one ClusterOrchestrator bound to it, with the same *)
(* nodeId, on the same transport.  Both number their messages from 1 with  *)
(* a counter of their own, and each sees the messages of both.  A process  *)
(* may also restart: everything it kept is in memory.  The objects may     *)
(* also be deployed apart: stigmergies or orchestrators alone.             *)
(***************************************************************************)
EXTENDS ClusterStigmergy, ClusterOrchestrator, Functions

CONSTANTS
    Deployments,    \* which of "bound", "stigmergies" and "orchestrators" run
    MaxRestarts     \* bound: process restarts in a cluster of stigmergies

ASSUME NodeAssumption ==
    /\ Deployments \subseteq {"bound", "stigmergies", "orchestrators"}
    /\ MaxRestarts \in Nat

VARIABLES
    deployment,         \* what the nodes of this cluster run
    restarts            \* restarts[n]: restarts of n so far

nodeVars == <<vars, orchVars, deployment, restarts>>

NodeInit ==
    /\ Init /\ OrchestratorInit
    /\ deployment \in Deployments
    /\ restarts = [n \in Nodes |-> 0]

(* ClusterOrchestrator.tick() of a bound orchestrator. *)
NodeTick(n) ==
    /\ Tick(n)
    /\ Publish(<<CapabilityMsg(n, orchSeq[n] + 1, table[n][n])>>)
    /\ UNCHANGED <<cursor, stigmergyVars>>

(* ClusterOrchestrator.setCapability() publishes its own announcement and  *)
(* then has the bound stigmergy advertise the same capability.             *)
NodeSetCapability(n, cuda) ==
    /\ Announce(n, cuda)
    /\ caps' = [caps EXCEPT ![n][n] = cuda]
    /\ localSeq' = [localSeq EXCEPT ![n] = @ + 1]
    /\ Publish(<<CapabilityMsg(n, orchSeq[n] + 1, cuda),
                 CapabilityMsg(n, localSeq[n] + 1, cuda)>>)
    /\ UNCHANGED <<cursor, minted, window, verified, active, remoteRoots, seen, vetoed>>

(* Every subscriber of the node is handed the same envelope. *)
NodeDeliver(n) ==
    /\ Consume(n)
    /\ HandleInbound(n, NextMessage(n))
    /\ Observe(n, NextMessage(n))
    /\ Heard(n, NextMessage(n))

(* An envelope is handed over again to every subscriber of the node. *)
NodeRedeliver(n) ==
    /\ \E k \in 1..cursor[n] : HandleInbound(n, log[k]) /\ Observe(n, log[k])
    /\ UNCHANGED <<transportVars, silence>>

(* Mutant of ResumeAt: the stream is read on from where it was left. *)
ResumeWhereLeft(n) == cursor[n]

(* A new RedisStreamsGossipTransport reads the stream from its beginning   *)
(* (lastId = '0-0').                                                       *)
ResumeAt(n) == 0

(* The process of n ends and comes back under the same nodeId: both        *)
(* objects and the transport are constructed anew.                         *)
Restart(n) ==
    /\ FoldFunction(+, 0, restarts) < MaxRestarts
    /\ restarts' = [restarts EXCEPT ![n] = @ + 1]
    /\ localSeq' = [localSeq EXCEPT ![n] = 0]
    /\ window' = [window EXCEPT ![n] = <<>>]
    /\ verified' = [verified EXCEPT ![n] = {}]
    /\ active' = [active EXCEPT ![n] = {}]
    /\ remoteRoots' = [remoteRoots EXCEPT ![n] = [w \in Nodes |-> NoHash]]
    /\ seen' = [seen EXCEPT ![n] = [w \in Nodes |-> 0]]
    /\ vetoed' = [vetoed EXCEPT ![n] = {}]
    /\ caps' = [caps EXCEPT ![n] = [w \in Nodes |-> IF w = n THEN "cpu" ELSE Unknown]]
    /\ orchSeq' = [orchSeq EXCEPT ![n] = 0]
    /\ orchSeen' = [orchSeen EXCEPT ![n] = [m \in Nodes |-> 0]]
    /\ table' = [table EXCEPT ![n] = [m \in Nodes |-> IF m = n THEN "cpu" ELSE Absent]]
    /\ age' = [age EXCEPT ![n] = [m \in Nodes |-> StaleAfter + 1]]
    /\ silence' = [silence EXCEPT ![n] = [m \in Nodes |-> StaleAfter + 1]]
    /\ cursor' = [cursor EXCEPT ![n] = ResumeAt(n)]
    /\ UNCHANGED <<log, minted>>

(* Operations of the stigmergy alone leave the orchestrator as it is. *)
StigmergyStep(n) ==
    /\ \/ \E s \in Scores : RecordTrace(n, s, TRUE)
       \/ \E id \in NamedIds : VetoTrace(n, id)
       \/ \E cuda \in Capability : AdvertiseCapability(n, cuda)
    /\ UNCHANGED orchVars

BoundStep(n) == NodeTick(n) \/ \E cuda \in Capability : NodeSetCapability(n, cuda)

NodeNext ==
    /\ UNCHANGED deployment
    /\ \/ /\ deployment \in {"bound", "stigmergies"}
          /\ \E n \in Nodes : StigmergyStep(n) \/ NodeDeliver(n) \/ NodeRedeliver(n)
          /\ UNCHANGED restarts
       \/ /\ deployment = "bound"
          /\ (\E n \in Nodes : BoundStep(n)) \/ (Elapse /\ UNCHANGED vars)
          /\ UNCHANGED restarts
       \/ /\ deployment = "orchestrators"
          /\ OrchestrationNext
          /\ UNCHANGED <<stigmergyVars, restarts>>
       \/ /\ deployment = "stigmergies"
          /\ \E n \in Nodes : Restart(n)

NodeSpec == NodeInit /\ [][NodeNext]_nodeVars

(* An order of the nodes for TLC to rank the keys by. *)
SomeRank == [key \in Keys |-> CHOOSE r \in [Nodes -> 1..Cardinality(Nodes)] : IsInjective(r)]

-----------------------------------------------------------------------------
(* Properties. *)

(* Restarting a receiver costs nothing: it reads the stream again from the *)
(* beginning and ends up with everything its peers sent, as long as those  *)
(* peers did not restart themselves.  (With an orchestrator bound to them  *)
(* the nodes do lose messages: two senders number theirs alike.)           *)
SteadySendersLoseNothing ==
    deployment = "stigmergies" =>
        \A n \in Nodes : \A msg \in Consumed(n) :
            msg.from # n /\ restarts[msg.from] = 0 =>
                /\ msg.type = "trace" => IsDuplicate(n, msg.body)
                /\ msg.type = "veto" => msg.body \in vetoed[n]

(* Where nothing else numbers messages under their names, orchestrators    *)
(* keep the table they promise: every peer heard of within the window is   *)
(* in it, with the capability it announced last.                           *)
TableIsCurrent ==
    deployment = "orchestrators" => ObservedPeerIsMember /\ MemberCapabilityIsCurrent

(* ... and so a key has two owners (isLeaderFor) only while one of them    *)
(* was handed nothing of the other for longer than the window: heartbeats  *)
(* that are late, repeated or pass one another never split a key between   *)
(* two nodes that hear each other.                                         *)
SplitOwnersAreOutOfTouch ==
    deployment = "orchestrators" =>
        \A key \in Keys : \A n, m \in Nodes :
            n # m /\ IsLeaderFor(n, key) /\ IsLeaderFor(m, key) =>
                silence[n][m] > StaleAfter \/ silence[m][n] > StaleAfter
=============================================================================
