------------------------------- MODULE TraceMemory -------------------------------
(***************************************************************************)
(* StigmergyV5 (src/core/stigmergyV5.ts) with temporal dynamics on, its    *)
(* pheromones (temporalStigmergy.ts) and its file (FileStigmergyBackend,   *)
(* stigmergyBackend.ts).  Several memories may open one file, one after    *)
(* the other or at the same time; every operation is synchronous, and what *)
(* can go wrong is the disk and the end of the process.  A hash is what it *)
(* digests: the payload and the hash of the parent.  A line of the file is *)
(* a trace, or garbage left by a write that did not finish.                *)
(***************************************************************************)
EXTENDS Naturals, Sequences, FiniteSets, SequencesExt, Functions

CONSTANTS
    Memories,     \* StigmergyV5 instances
    TraceIds,     \* ids given in options.traceId; a caller may repeat one
    RingCapacity, \* maxTraces
    MaxRecorded,  \* bound: traces ever recorded
    MaxMishaps    \* bound: failed or torn writes, closings, restores

ASSUME TraceMemoryAssumption ==
    RingCapacity \in Nat \ {0} /\ MaxRecorded \in Nat /\ MaxMishaps \in Nat

VARIABLES
    up,       \* memories that are open
    ring,     \* ring[m]: its traces, oldest first
    trail,    \* trail[m]: the pheromone of each tracked id, "fresh" or "faded"
    file,     \* the lines of the file
    recorded, \* traces recorded so far
    mishaps,
    calm,     \* nothing failed, nothing was restored, no two memories open (history)
    laid,     \* laid[m]: ids laid down in m, in order (history)
    pruned    \* pruned[m]: ids pruned from m since they were laid (history)

traceMemoryVars == <<up, ring, trail, file, recorded, mishaps, calm, laid, pruned>>

NoParentHash == <<>>
Payload(id, dual) == [id |-> id, dual |-> dual]
Digest(payload, parent) == <<payload, parent>>

(* A line that did not get its newline yet, and one that will never parse. *)
Torn == [garbage |-> "torn"]
Garbage == [garbage |-> "whole"]
Readable(lines) == \A i \in DOMAIN lines : lines[i] \notin {Torn, Garbage}

Ids(traces) == {traces[i].id : i \in DOMAIN traces}
Newest(traces, n) == SubSeq(traces, Len(traces) - (IF n < Len(traces) THEN n ELSE Len(traces)) + 1,
                            Len(traces))
RootOf(traces) == IF traces = <<>> THEN NoParentHash ELSE Last(traces).hash

TraceMemoryTypeOK ==
    /\ up \subseteq Memories
    /\ \A m \in Memories :
        /\ Len(ring[m]) \in 0..RingCapacity
        /\ \A i \in DOMAIN ring[m] :
            ring[m][i].hash = Digest(Payload(ring[m][i].id, ring[m][i].dual), ring[m][i].parent)
        /\ trail[m] \in UNION {[S -> {"fresh", "faded"}] : S \in SUBSET TraceIds}
        /\ laid[m] \in Seq(TraceIds) /\ pruned[m] \subseteq TraceIds
    /\ recorded \in 0..MaxRecorded /\ mishaps \in 0..MaxMishaps /\ calm \in BOOLEAN

TraceMemoryInit ==
    /\ up = {} /\ file = <<>> /\ recorded = 0 /\ mishaps = 0 /\ calm = TRUE
    /\ ring = [m \in Memories |-> <<>>]
    /\ trail = [m \in Memories |-> [id \in {} |-> "fresh"]]
    /\ laid = [m \in Memories |-> <<>>]
    /\ pruned = [m \in Memories |-> {}]

Mishap == mishaps < MaxMishaps /\ mishaps' = mishaps + 1

-----------------------------------------------------------------------------
(* The file. *)

(* Mutant of Loaded: the lines are not turned round again. *)
LoadedNewestFirst == Reverse(Newest(file, RingCapacity))

(* loadRecentTraces, turned round by the constructor. *)
Loaded == Newest(file, RingCapacity)

(* What the lines are when a line is written behind those there are. *)
WriteLine(lines, line) ==
    IF lines # <<>> /\ Last(lines) = Torn
    THEN Append(Front(lines), Garbage)
    ELSE Append(lines, line)

-----------------------------------------------------------------------------
(* The pheromones. *)

Deposit(trails, id) == [i \in DOMAIN trails \cup {id} |-> IF i = id THEN "fresh" ELSE trails[i]]
Forget(trails, id) == Restrict(trails, DOMAIN trails \ {id})

(* Mutant of LayDown: trails of evicted traces stay. *)
LayDownForGood(trails, traces, trace) == Deposit(trails, trace.id)

(* Mutant of LayDown: the wrong trail is forgotten. *)
LayDownForgetLast(trails, traces, trace) ==
    IF Len(traces) = RingCapacity
    THEN Forget(Deposit(trails, trace.id), Last(traces).id)
    ELSE Deposit(trails, trace.id)

(* The new trace's trail is laid, then the evicted trace's is forgotten,   *)
(* by its id.                                                              *)
LayDown(trails, traces, trace) ==
    IF Len(traces) = RingCapacity
    THEN Forget(Deposit(trails, trace.id), Head(traces).id)
    ELSE Deposit(trails, trace.id)

PushTrace(traces, trace) ==
    IF Len(traces) = RingCapacity THEN Append(Tail(traces), trace) ELSE Append(traces, trace)

-----------------------------------------------------------------------------
(* The memory. *)

(* The constructor: a line that does not parse makes it throw. *)
Open(m) ==
    /\ m \notin up
    /\ Readable(file)
    /\ up' = up \cup {m}
    /\ ring' = [ring EXCEPT ![m] = Loaded]
    /\ trail' = [trail EXCEPT ![m] = [id \in Ids(Loaded) |-> "fresh"]]
    /\ laid' = [laid EXCEPT ![m] = [i \in DOMAIN Loaded |-> Loaded[i].id]]
    /\ pruned' = [pruned EXCEPT ![m] = {}]
    /\ calm' = (calm /\ up = {})
    /\ UNCHANGED <<file, recorded, mishaps>>

(* The process ends. *)
Close(m) ==
    /\ m \in up
    /\ Mishap
    /\ up' = up \ {m}
    /\ ring' = [ring EXCEPT ![m] = <<>>]
    /\ trail' = [trail EXCEPT ![m] = [id \in {} |-> "fresh"]]
    /\ laid' = [laid EXCEPT ![m] = <<>>]
    /\ pruned' = [pruned EXCEPT ![m] = {}]
    /\ UNCHANGED <<file, recorded, calm>>

NewTrace(m, id, dual) ==
    LET parent == RootOf(ring[m])
    IN  [id |-> id, dual |-> dual, parent |-> parent, hash |-> Digest(Payload(id, dual), parent)]

(* recordTrace(): a write that fails is only logged. *)
RecordTraceInto(m, id, dual) ==
    /\ m \in up /\ recorded < MaxRecorded
    /\ LET trace == NewTrace(m, id, dual)
       IN  /\ ring' = [ring EXCEPT ![m] = PushTrace(@, trace)]
           /\ trail' = [trail EXCEPT ![m] = LayDown(@, ring[m], trace)]
           /\ \/ file' = WriteLine(file, trace) /\ UNCHANGED <<mishaps, calm>>
              \/ file' \in {file, WriteLine(file, Torn)} /\ Mishap /\ calm' = FALSE
    /\ recorded' = recorded + 1
    /\ laid' = [laid EXCEPT ![m] = Append(@, id)]
    /\ pruned' = [pruned EXCEPT ![m] = @ \ {id}]
    /\ UNCHANGED up

(* A query that resonates with the trace of this id, or reinforceTrace(). *)
ReinforceTrail(m, id) ==
    /\ m \in up /\ id \in DOMAIN trail[m] /\ trail[m][id] = "faded"
    /\ trail' = [trail EXCEPT ![m][id] = "fresh"]
    /\ UNCHANGED <<up, ring, file, recorded, mishaps, calm, laid, pruned>>

Evaporate(m, id) ==
    /\ m \in up /\ id \in DOMAIN trail[m] /\ trail[m][id] = "fresh"
    /\ trail' = [trail EXCEPT ![m][id] = "faded"]
    /\ UNCHANGED <<up, ring, file, recorded, mishaps, calm, laid, pruned>>

(* pruneFadedTraces() *)
PruneFaded(m) ==
    LET faded == {id \in DOMAIN trail[m] : trail[m][id] = "faded"}
    IN  /\ m \in up /\ faded # {}
        /\ trail' = [trail EXCEPT ![m] = Restrict(@, DOMAIN @ \ faded)]
        /\ pruned' = [pruned EXCEPT ![m] = @ \cup faded]
        /\ UNCHANGED <<up, ring, file, recorded, mishaps, calm, laid>>

-----------------------------------------------------------------------------
(* Snapshots. *)

(* createSnapshot(): newest first, the root is the hash of the last. *)
SnapshotOf(lines) ==
    [traces |-> Reverse(lines), merkleRoot |-> RootOf(Reverse(lines))]

(* restoreFromSnapshot(): the hashes are computed again, in the order of   *)
(* the list and without the semantic key.                                  *)
Verifies(snapshot) ==
    /\ \A i \in DOMAIN snapshot.traces :
        snapshot.traces[i].hash =
            Digest(Payload(snapshot.traces[i].id, FALSE),
                   IF i = 1 THEN NoParentHash ELSE snapshot.traces[i - 1].hash)
    /\ RootOf(snapshot.traces) = snapshot.merkleRoot

(* A snapshot taken when the file had k lines is restored; the open        *)
(* memories do not notice, and a write that fails leaves the file cut off. *)
Restore(k) ==
    /\ Readable(file) /\ k \in 0..Len(file)
    /\ Mishap
    /\ LET snapshot == SnapshotOf(SubSeq(file, 1, k))
       IN  /\ Verifies(snapshot)
           /\ \E written \in 0..Len(snapshot.traces) :
                  file' = SubSeq(snapshot.traces, 1, written)
    /\ calm' = FALSE
    /\ UNCHANGED <<up, ring, trail, recorded, laid, pruned>>

TraceMemoryNext ==
    \/ \E m \in Memories :
        \/ Open(m) \/ Close(m) \/ PruneFaded(m)
        \/ \E id \in TraceIds : \/ \E dual \in BOOLEAN : RecordTraceInto(m, id, dual)
                                \/ ReinforceTrail(m, id) \/ Evaporate(m, id)
    \/ \E k \in 0..MaxRecorded : Restore(k)

TraceMemorySpec == TraceMemoryInit /\ [][TraceMemoryNext]_traceMemoryVars

-----------------------------------------------------------------------------
(* Properties. *)

(* While the disk holds and one memory is open at a time, a memory is the  *)
(* newest part of its file, through any number of restarts, and the file   *)
(* is one chain: each trace names the line before it as its parent.        *)
MemoryIsTailOfChain ==
    calm =>
        /\ \A m \in up : ring[m] = Newest(file, RingCapacity)
        /\ \A i \in DOMAIN file :
            file[i].parent = (IF i = 1 THEN NoParentHash ELSE file[i - 1].hash)

(* "forget any evicted trace so the ledger stays bounded to the trace      *)
(* buffer" (stigmergyV5.ts:208): no trail without a trace in the ring,     *)
(* though ids repeat and evictions take trails away by id.                 *)
TrailsWithinRing == \A m \in up : DOMAIN trail[m] \subseteq Ids(ring[m])

Laid(m, id) == Cardinality({i \in DOMAIN laid[m] : laid[m][i] = id})

(* A trace in the ring keeps its trail until it is pruned, when its id was *)
(* laid down once; an id laid down twice loses its trail when the older of *)
(* its traces is evicted.                                                  *)
TracesKeepTheirTrail ==
    \A m \in up : \A id \in Ids(ring[m]) \ pruned[m] :
        Laid(m, id) = 1 => id \in DOMAIN trail[m]

(* Memory follows the file, every trail has a trace, and every trace that  *)
(* was laid once its trail.                                                *)
TraceMemoryInv ==
    TraceMemoryTypeOK /\ MemoryIsTailOfChain /\ TrailsWithinRing /\ TracesKeepTheirTrail
=============================================================================
