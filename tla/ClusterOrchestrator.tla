-------------------------- MODULE ClusterOrchestrator --------------------------
(***************************************************************************)
(* ClusterOrchestrator (src/cluster/clusterOrchestrator.ts): membership by *)
(* heartbeat, pruning of silent peers on tick(), and rendezvous-hash       *)
(* ownership of keys.  Heartbeats are capability messages, numbered by a   *)
(* counter of the orchestrator's own.  Time is kept as ages: how many      *)
(* clock units ago an entry was refreshed.                                 *)
(***************************************************************************)
EXTENDS GossipTransport

CONSTANTS
    Keys,       \* keys to be owned
    Rank,       \* Rank[key][node]: place of node in the rendezvous order of key
    StaleAfter  \* staleAfterMs, in clock units

(* shardForKey sorts by weight and then by node id: a strict order. *)
ASSUME OrchestratorAssumption ==
    /\ StaleAfter \in Nat \ {0}
    /\ Rank \in [Keys -> [Nodes -> Nat]]
    /\ \A k \in Keys : \A n, m \in Nodes : Rank[k][n] = Rank[k][m] => n = m

VARIABLES
    orchSeq,    \* localSeq of the orchestrator of n
    orchSeen,   \* seenSequences of the orchestrator of n
    table,      \* table[n][m]: capability in m's entry of n's members map
    age,        \* age[n][m]: clock units since lastSeenMs of that entry
    silence     \* silence[n][m]: clock units since n was first handed a
                \* message of m (history: what was observed in the window)

orchVars == <<orchSeq, orchSeen, table, age, silence>>

Absent == "absent"
Ages == 0..(StaleAfter + 1)     \* beyond the window all ages are alike

Members(n) == {m \in Nodes : table[n][m] # Absent}

OrchestratorTypeOK ==
    /\ orchSeq \in [Nodes -> Nat]
    /\ orchSeen \in [Nodes -> [Nodes -> Nat]]
    /\ table \in [Nodes -> [Nodes -> Capability \cup {Absent}]]
    /\ \A n \in Nodes : n \in Members(n)
    /\ age \in [Nodes -> [Nodes -> Ages]]
    /\ silence \in [Nodes -> [Nodes -> Ages]]

OrchestratorInit ==
    /\ orchSeq = [n \in Nodes |-> 0]
    /\ orchSeen = [n \in Nodes |-> [m \in Nodes |-> 0]]
    /\ table = [n \in Nodes |-> [m \in Nodes |-> IF m = n THEN "cpu" ELSE Absent]]
    /\ age = [n \in Nodes |-> [m \in Nodes |-> StaleAfter + 1]]
    /\ silence = [n \in Nodes |-> [m \in Nodes |-> StaleAfter + 1]]

(* The clock advances by one unit on every node. *)
Older(a) == IF a > StaleAfter THEN a ELSE a + 1
Elapse ==
    /\ age' = [n \in Nodes |-> [m \in Nodes |-> Older(age[n][m])]]
    /\ silence' = [n \in Nodes |-> [m \in Nodes |-> Older(silence[n][m])]]
    /\ UNCHANGED <<orchSeq, orchSeen, table>>

(* Mutants of Stale: the node itself is pruned, a peer is pruned early. *)
StaleSelf(n, m) == age[n][m] > StaleAfter
StaleEarly(n, m) == m # n /\ age[n][m] >= StaleAfter

(* tick(): drop the peers not refreshed within the window and number a     *)
(* heartbeat.  The own entry is refreshed too, but nothing reads its age.  *)
Stale(n, m) == m # n /\ age[n][m] > StaleAfter
Tick(n) ==
    /\ table' = [table EXCEPT ![n] =
                    [m \in Nodes |-> IF Stale(n, m) THEN Absent ELSE table[n][m]]]
    /\ orchSeq' = [orchSeq EXCEPT ![n] = @ + 1]
    /\ UNCHANGED <<orchSeen, age, silence>>

(* setCapability(): change the own entry and number an announcement. *)
Announce(n, cuda) ==
    /\ table' = [table EXCEPT ![n][n] = cuda]
    /\ orchSeq' = [orchSeq EXCEPT ![n] = @ + 1]
    /\ UNCHANGED <<orchSeen, age, silence>>

(* Mutant of Taken: no sequence filter. *)
TakenAlways(n, msg) == msg.from # n

(* handleInbound(): a message below the last sequence number taken from    *)
(* its sender is dropped (a repetition of the last one is not); any other  *)
(* refreshes the sender's entry.                                           *)
Taken(n, msg) == msg.from # n /\ msg.seq >= orchSeen[n][msg.from]

(* The capability in the entry of a sender: what the message says, else    *)
(* what the entry said, else none.                                         *)
CapabilityAfter(n, msg) ==
    IF msg.type = "capability" THEN msg.body
    ELSE IF table[n][msg.from] = Absent THEN "cpu" ELSE table[n][msg.from]

Observe(n, msg) ==
    /\ IF Taken(n, msg)
       THEN /\ orchSeen' = [orchSeen EXCEPT ![n][msg.from] = msg.seq]
            /\ table' = [table EXCEPT ![n][msg.from] = CapabilityAfter(n, msg)]
            /\ age' = [age EXCEPT ![n][msg.from] = 0]
       ELSE UNCHANGED <<orchSeen, table, age>>
    /\ UNCHANGED orchSeq

Heard(n, msg) == silence' = [silence EXCEPT ![n][msg.from] = 0]

(* Mutant of LeaderForKey: only recently refreshed peers may own a key. *)
LeaderAmongRecent(n, key) ==
    LET recent == {m \in Members(n) : m = n \/ age[n][m] < StaleAfter}
    IN  CHOOSE m \in recent : \A o \in recent : Rank[key][m] <= Rank[key][o]

(* leaderForKey() and isLeaderFor(), over n's own membership table. *)
LeaderForKey(n, key) ==
    CHOOSE m \in Members(n) : \A o \in Members(n) : Rank[key][m] <= Rank[key][o]
IsLeaderFor(n, key) == LeaderForKey(n, key) = n

-----------------------------------------------------------------------------
(* Orchestrators alone on a transport. *)
orchestrationVars == <<transportVars, orchVars>>

OrchestrationInit == TransportInit /\ OrchestratorInit

Heartbeat(n) ==
    /\ Tick(n)
    /\ Publish(<<CapabilityMsg(n, orchSeq[n] + 1, table[n][n])>>)
    /\ UNCHANGED cursor

SetCapability(n, cuda) ==
    /\ Announce(n, cuda)
    /\ Publish(<<CapabilityMsg(n, orchSeq[n] + 1, cuda)>>)
    /\ UNCHANGED cursor

ReceiveHeartbeat(n) ==
    /\ Consume(n)
    /\ Observe(n, NextMessage(n))
    /\ Heard(n, NextMessage(n))

RereceiveHeartbeat(n) ==
    /\ \E k \in 1..cursor[n] : Observe(n, log[k])
    /\ UNCHANGED <<transportVars, silence>>

OrchestrationNext ==
    \/ \E n \in Nodes : \/ Heartbeat(n)
                        \/ \E cuda \in Capability : SetCapability(n, cuda)
                        \/ ReceiveHeartbeat(n)
                        \/ RereceiveHeartbeat(n)
    \/ Elapse /\ UNCHANGED transportVars

OrchestrationSpec == OrchestrationInit /\ [][OrchestrationNext]_orchestrationVars

-----------------------------------------------------------------------------
(* Properties. *)

(* staleAfterMs: "Peers are considered stale if no message has been        *)
(* observed from them within this window".  So a peer a node was handed a  *)
(* message of within the window is in that node's table.                   *)
ObservedPeerIsMember ==
    \A n, m \in Nodes : m # n /\ silence[n][m] <= StaleAfter => m \in Members(n)

(* The entry of a peer shows the capability it announced last, among the   *)
(* announcements the node was handed, until the peer is pruned.            *)
MemberCapabilityIsCurrent ==
    \A n, m \in Nodes :
        LET heard == {k \in 1..cursor[n] : log[k].from = m /\ log[k].type = "capability"}
        IN  m # n /\ m \in Members(n) /\ heard # {} =>
                \E k \in heard : (\A j \in heard : j <= k) /\ table[n][m] = log[k].body
=============================================================================
