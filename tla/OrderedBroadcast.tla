--------------------------- MODULE OrderedBroadcast ---------------------------
(***************************************************************************)
(* The transport contract on its own: what ClusterStigmergy assumes of a   *)
(* GossipTransport, as a specification that a transport implements.  Of an *)
(* envelope only its publisher matters.  The subscribers of a node are     *)
(* handed the envelopes of its peers in log order, none skipped and none   *)
(* twice; one step may hand over several.                                  *)
(***************************************************************************)
EXTENDS GossipTransport, SequencesExt

VARIABLES handed        \* handed[n]: places in the log of what n was handed

broadcastVars == <<transportVars, handed>>

(* The places after `from` and up to `to` that a peer of n published at.   *)
PeersPlaces(n, from, to) ==
    LET places[k \in from..to] ==
            IF k = from THEN <<>>
            ELSE IF log[k] = n THEN places[k - 1] ELSE Append(places[k - 1], k)
    IN  places[to]

HandOver(n, upTo) ==
    /\ cursor' = [cursor EXCEPT ![n] = upTo]
    /\ handed' = [handed EXCEPT ![n] = @ \o PeersPlaces(n, cursor[n], upTo)]
    /\ UNCHANGED log

BroadcastInit == TransportInit /\ handed = [n \in Nodes |-> <<>>]

BroadcastNext ==
    \E n \in Nodes :
        \/ Publish(<<n>>) /\ UNCHANGED <<cursor, handed>>
        \/ \E upTo \in (cursor[n] + 1)..Len(log) : HandOver(n, upTo)

BroadcastSpec == BroadcastInit /\ [][BroadcastNext]_broadcastVars

(* Everything a peer published is handed to every node in the end. *)
EverythingArrives ==
    \A n \in Nodes : \A k \in 1..MaxLog :
        Len(log) >= k ~> (Len(log) >= k /\ (log[k] = n \/ Contains(handed[n], k)))
=============================================================================
