------------------------------- MODULE BoundedLog -------------------------------
(***************************************************************************)
(* What a bounded log promises: it keeps the newest Capacity items in the  *)
(* order they came, and hands out the oldest when it takes one too many.   *)
(* CircularBuffer (src/core/circularBuffer.ts) implements it, see         *)
(* RingBuffer; StigmergyV5 and HolographicEtch keep their records in it.   *)
(***************************************************************************)
EXTENDS Naturals, Sequences

CONSTANTS Items, Capacity, NoItem

VARIABLES
    log,     \* the items kept, oldest first
    seen,    \* items pushed over the lifetime of the log
    newest,  \* the item pushed last, until the log is cleared
    given    \* what the last push handed out

logVars == <<log, seen, newest, given>>

LogInit == log = <<>> /\ seen = 0 /\ newest = NoItem /\ given = NoItem

(* Mutant of Kept: one item too many is kept. *)
KeptPlusOne(items, x) ==
    IF Len(items) > Capacity THEN Append(Tail(items), x) ELSE Append(items, x)

Kept(items, x) ==
    IF Len(items) = Capacity THEN Append(Tail(items), x) ELSE Append(items, x)

LogPush(x) ==
    /\ log' = Kept(log, x)
    /\ given' = IF Len(log) = Capacity THEN Head(log) ELSE NoItem
    /\ newest' = x
    /\ seen' = seen + 1

LogClear == log' = <<>> /\ newest' = NoItem /\ UNCHANGED <<seen, given>>

LogNext == LogClear \/ \E x \in Items : LogPush(x)

LogSpec == LogInit /\ [][LogNext]_logVars
=============================================================================
