------------------------------- MODULE RingBuffer -------------------------------
(***************************************************************************)
(* CircularBuffer (src/core/circularBuffer.ts), the array of fixed length *)
(* with a head and a count that holds traces, etches and growth events.    *)
(* Indices start at 0, as in the array.                                    *)
(***************************************************************************)
EXTENDS Naturals, Sequences

CONSTANTS Items, Capacity, NoItem

ASSUME RingAssumption == Capacity \in Nat \ {0} /\ NoItem \notin Items

VARIABLES buf, head, count, totalSeen, evicted

ringVars == <<buf, head, count, totalSeen, evicted>>

Slots == 0..(Capacity - 1)

RingTypeOK ==
    /\ buf \in [Slots -> Items \cup {NoItem}]
    /\ head \in Slots
    /\ count \in 0..Capacity
    /\ totalSeen \in Nat
    /\ evicted \in Items \cup {NoItem}

RingInit ==
    /\ buf = [i \in Slots |-> NoItem]
    /\ head = 0
    /\ count = 0
    /\ totalSeen = 0
    /\ evicted = NoItem

(* Mutant of Following: the array is one slot longer than it is. *)
FollowingTooFar(i) == IF i = Capacity - 1 THEN i ELSE i + 1

(* (i + 1) % cap and (i - 1 + cap) % cap, for an index of the array. *)
Following(i) == IF i = Capacity - 1 THEN 0 ELSE i + 1
Preceding(i) == IF i = 0 THEN Capacity - 1 ELSE i - 1

(* (head - count + cap) % cap: where the oldest item lies. *)
Start == IF count <= head THEN head - count ELSE head + Capacity - count

(* (start + i) % cap *)
Slot(i) == IF Start + i < Capacity THEN Start + i ELSE Start + i - Capacity

(* toArray(), values(), forEach(): oldest first. *)
ToArray == [i \in 1..count |-> buf[Slot(i - 1)]]

(* last() *)
LastItem == IF count = 0 THEN NoItem ELSE buf[Preceding(head)]

Push(x) ==
    /\ evicted' = IF count = Capacity THEN buf[head] ELSE NoItem
    /\ buf' = [buf EXCEPT ![head] = x]
    /\ head' = Following(head)
    /\ count' = IF count < Capacity THEN count + 1 ELSE count
    /\ totalSeen' = totalSeen + 1

(* clear() leaves totalSeen alone. *)
Clear ==
    /\ buf' = [i \in Slots |-> NoItem]
    /\ head' = 0
    /\ count' = 0
    /\ UNCHANGED <<totalSeen, evicted>>

RingNext == Clear \/ \E x \in Items : Push(x)

RingSpec == RingInit /\ [][RingNext]_ringVars

-----------------------------------------------------------------------------
(* Properties. *)

(* The array, its wrapping head and its count behave as the bounded log,   *)
(* across wraps and clears, for every observer of push(), toArray(),       *)
(* lifetimePushes and last(), the item that parents of traces and growth   *)
(* events are taken from.                                                  *)
Log == INSTANCE BoundedLog
    WITH log <- ToArray, seen <- totalSeen, newest <- LastItem, given <- evicted
ImplementsLog == Log!LogSpec
=============================================================================
