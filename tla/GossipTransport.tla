--------------------------- MODULE GossipTransport ---------------------------
(***************************************************************************)
(* The GossipTransport contract (src/cluster/types.ts) as the cluster code *)
(* sees it: a totally ordered log of envelopes, of which every node has    *)
(* been handed a prefix.  Both shipped transports deliver this way:        *)
(* InMemoryGossipBus queues one microtask per publish and microtasks run   *)
(* first in, first out; RedisStreamsGossipTransport reads one stream from  *)
(* a last-delivered id.  "At-least-once" in the contract allows a message  *)
(* that was handed over before to be handed over again.                    *)
(***************************************************************************)
EXTENDS Naturals, Sequences

CONSTANTS
    Nodes,      \* NodeIds of the cluster
    MaxLog      \* bound: number of envelopes ever published

ASSUME TransportAssumption == MaxLog \in Nat

VARIABLES
    log,        \* every envelope published so far, in delivery order
    cursor      \* cursor[n]: how many envelopes the subscribers of n were handed

transportVars == <<log, cursor>>

TransportInit ==
    /\ log = <<>>
    /\ cursor = [n \in Nodes |-> 0]

(* publish(message): hand the envelopes to the transport, in this order. *)
Publish(messages) ==
    /\ Len(log) + Len(messages) <= MaxLog
    /\ log' = log \o messages

(* The subscribers of n are handed the next envelope. *)
Consume(n) ==
    /\ cursor[n] < Len(log)
    /\ cursor' = [cursor EXCEPT ![n] = @ + 1]
    /\ UNCHANGED log

NextMessage(n) == log[cursor[n] + 1]

(* The capability announcement that both ClusterStigmergy and              *)
(* ClusterOrchestrator send.                                               *)
Capability == {"cpu", "cuda"}
CapabilityMsg(n, seq, cuda) ==
    [type |-> "capability", from |-> n, seq |-> seq, body |-> cuda, intact |-> TRUE]

(* The messages n has been handed at least once. *)
Consumed(n) == {log[k] : k \in 1..cursor[n]}

(* GossipMessage.seq: "Monotonic logical sequence number per source node". *)
SequenceIsMonotonic ==
    \A i, j \in DOMAIN log :
        i < j /\ log[i].from = log[j].from => log[i].seq < log[j].seq
=============================================================================
