----------------------------- MODULE RedisForwarder -----------------------------
(***************************************************************************)
(* RedisAsyncLedgerForwarder (src/ledger/redisAsyncLedgerForwarder.ts):    *)
(* several processes share three Redis keys, a list of pending items, a    *)
(* sorted set of items to retry and a list of dead letters.  Each call to  *)
(* Redis and to the ledger is awaited, so that loops of one or of several  *)
(* processes, start(), stop() and an operator's retryDLQ() interleave      *)
(* between them.  An item is the JSON text of a request and its attempts.  *)
(***************************************************************************)
EXTENDS Naturals, Sequences, SequencesExt

CONSTANTS
    Etches,       \* EtchRequests, each forwarded once
    Forwarders,   \* the RedisAsyncLedgerForwarder instances
    Loops,        \* tick loops that may exist at a time, of all forwarders
    RetryOperator,\* the retryDLQ() under way
    RedisMaxRetries,
    BatchSize,
    MaxEvents     \* bound: starts, sweeps of the dead letters, and faults

None == "none"

ASSUME RedisForwarderAssumption ==
    /\ RedisMaxRetries \in Nat \ {0}
    /\ BatchSize \in Nat \ {0}
    /\ MaxEvents \in Nat
    /\ RetryOperator \notin Loops /\ None \notin Forwarders \cup Loops \cup {RetryOperator}

VARIABLES
    pending,    \* the list queueKey, next rpop first
    retrySet,   \* the sorted set retryKey
    ripe,       \* the items of retrySet whose score has passed
    letters,    \* the list dlqKey, newest first
    etched,     \* requests the ledger holds a leaf of
    running,    \* isRunning of each forwarder
    timer,      \* the loop whose timer workerTimer holds, or None
    loop,       \* loop[l]: what the tick loop l, or retryDLQ, is doing
    forwarded,  \* requests given to forward() (history)
    dropped,    \* requests in hand when a process or a tick died (history)
    used        \* faults, starts and sweeps so far

redisForwarderVars == <<pending, retrySet, ripe, letters, etched, running, timer,
                        loop, forwarded, dropped, used>>

Item == [request : Etches, attempts : Nat]
Hands == Loops \cup {RetryOperator}
Gone == [at |-> "none", owner |-> None, todo |-> <<>>, hand |-> <<>>, taken |-> 0]
Phases == {"none", "asleep", "due", "moving", "batch", "etch", "failed"}
Doing == [at : Phases, owner : Forwarders \cup {None}, todo : Seq(Item), hand : Seq(Item),
          taken : 0..BatchSize]

RedisForwarderTypeOK ==
    /\ pending \in Seq(Item) /\ letters \in Seq(Item)
    /\ retrySet \subseteq Item /\ ripe \subseteq retrySet
    /\ etched \subseteq Etches
    /\ running \in [Forwarders -> BOOLEAN]
    /\ timer \in [Forwarders -> Loops \cup {None}]
    /\ forwarded \subseteq Etches /\ dropped \subseteq Etches
    /\ used \in [faults : Nat, starts : Nat, sweeps : Nat]
    /\ loop \in [Hands -> Doing]
    /\ \A l \in Hands :
        Len(loop[l].hand) = (IF loop[l].at \in {"moving", "etch", "failed"} THEN 1 ELSE 0)

RedisForwarderInit ==
    /\ pending = <<>> /\ retrySet = {} /\ ripe = {} /\ letters = <<>>
    /\ etched = {}
    /\ running = [f \in Forwarders |-> FALSE]
    /\ timer = [f \in Forwarders |-> None]
    /\ loop = [l \in Hands |-> Gone]
    /\ forwarded = {} /\ dropped = {}
    /\ used = [faults |-> 0, starts |-> 0, sweeps |-> 0]

(* What loop l, or retryDLQ, does next, what it has yet to move or etch,   *)
(* and what it has in hand.                                                *)
Turns(l, at, todo, hand) ==
    loop' = [loop EXCEPT ![l] = [@ EXCEPT !.at = at, !.todo = todo, !.hand = hand]]

MayHappen == used.faults + used.starts + used.sweeps < MaxEvents
Fault == MayHappen /\ used' = [used EXCEPT !.faults = @ + 1]

-----------------------------------------------------------------------------
(* forward(request) *)
ForwardToRedis(r) ==
    /\ r \notin forwarded
    /\ forwarded' = forwarded \cup {r}
    /\ pending' = Append(pending, [request |-> r, attempts |-> 0])
    /\ UNCHANGED <<retrySet, ripe, letters, etched, running, timer, loop, dropped, used>>

(* start(): a new loop, even when one left over from before a stop() is    *)
(* still in the middle of its tick.                                        *)
StartLoop(f, l) ==
    /\ ~running[f] /\ loop[l].at = "none"
    /\ running' = [running EXCEPT ![f] = TRUE]
    /\ loop' = [loop EXCEPT ![l] = [Gone EXCEPT !.at = "asleep", !.owner = f]]
    /\ timer' = [timer EXCEPT ![f] = l]
    /\ MayHappen /\ used' = [used EXCEPT !.starts = @ + 1]
    /\ UNCHANGED <<pending, retrySet, ripe, letters, etched, forwarded, dropped>>

(* stop(): only the timer set last is cancelled. *)
StopLoop(f) ==
    /\ running[f]
    /\ running' = [running EXCEPT ![f] = FALSE]
    /\ timer' = [timer EXCEPT ![f] = None]
    /\ loop' = [l \in Hands |->
                   IF l = timer[f] /\ loop[l].at = "asleep" THEN Gone ELSE loop[l]]
    /\ UNCHANGED <<pending, retrySet, ripe, letters, etched, forwarded, dropped, used>>

Ripen(i) ==
    /\ i \in retrySet \ ripe
    /\ ripe' = ripe \cup {i}
    /\ UNCHANGED <<pending, retrySet, letters, etched, running, timer, loop,
                   forwarded, dropped, used>>

-----------------------------------------------------------------------------
(* A tick: processQueues(), then the timer of the next tick. *)

(* The loop goes on when its forwarder runs, again or still. *)
EndTick(l) ==
    LET f == loop[l].owner
    IN  IF running[f]
        THEN /\ loop' = [loop EXCEPT ![l] = [Gone EXCEPT !.at = "asleep", !.owner = f]]
             /\ timer' = [timer EXCEPT ![f] = l]
        ELSE /\ loop' = [loop EXCEPT ![l] = Gone]
             /\ UNCHANGED timer

Wake(l) ==
    /\ loop[l].at = "asleep"
    /\ IF running[loop[l].owner]
       THEN \E ready \in SetToSeqs(ripe) : Turns(l, "due", ready, <<>>)
       ELSE loop' = [loop EXCEPT ![l] = Gone]
    /\ UNCHANGED <<pending, retrySet, ripe, letters, etched, running, timer,
                   forwarded, dropped, used>>

(* zrem, whose answer is not looked at ... *)
TakeDue(l) ==
    /\ loop[l].at = "due" /\ loop[l].todo # <<>>
    /\ LET i == Head(loop[l].todo)
       IN  /\ retrySet' = retrySet \ {i} /\ ripe' = ripe \ {i}
           /\ Turns(l, "moving", Tail(loop[l].todo), <<i>>)
    /\ UNCHANGED <<pending, letters, etched, running, timer, forwarded, dropped, used>>

(* ... then lpush. *)
PushDue(l) ==
    /\ loop[l].at = "moving"
    /\ pending' = pending \o loop[l].hand
    /\ Turns(l, "due", loop[l].todo, <<>>)
    /\ UNCHANGED <<retrySet, ripe, letters, etched, running, timer, forwarded, dropped, used>>

BatchOver(l) == pending = <<>> \/ loop[l].taken = BatchSize
InBatch(l) == loop[l].at = "batch" \/ (loop[l].at = "due" /\ loop[l].todo = <<>>)

Pop(l) ==
    /\ l \in Loops /\ InBatch(l) /\ ~BatchOver(l)
    /\ pending' = Tail(pending)
    /\ loop' = [loop EXCEPT ![l] = [@ EXCEPT !.at = "etch", !.hand = <<Head(pending)>>,
                                            !.taken = loop[l].taken + 1]]
    /\ UNCHANGED <<retrySet, ripe, letters, etched, running, timer, forwarded, dropped, used>>

TickOver(l) ==
    /\ l \in Loops /\ InBatch(l) /\ BatchOver(l)
    /\ EndTick(l)
    /\ UNCHANGED <<pending, retrySet, ripe, letters, etched, running,
                   forwarded, dropped, used>>

(* The ledger answers, or throws: before it stored the leaf or after.      *)
EtchOne(l) == etched' = etched \cup {loop[l].hand[1].request}

EtchAnswered(l) ==
    /\ l \in Loops /\ loop[l].at = "etch"
    /\ EtchOne(l)
    /\ Turns(l, "batch", loop[l].todo, <<>>)
    /\ UNCHANGED <<pending, retrySet, ripe, letters, running, timer, forwarded, dropped, used>>

EtchThrows(l) ==
    /\ loop[l].at = "etch"
    /\ EtchOne(l) \/ UNCHANGED etched
    /\ Turns(l, "failed", loop[l].todo, <<[loop[l].hand[1] EXCEPT !.attempts = @ + 1]>>)
    /\ UNCHANGED <<pending, retrySet, ripe, letters, running, timer, forwarded, dropped, used>>

(* Mutant of PutBack: the limit is passed by one, so that a letter is      *)
(* retried once more than allowed.                                         *)
PutBackLate(i) ==
    IF i.attempts > RedisMaxRetries
    THEN letters' = <<i>> \o letters /\ UNCHANGED <<retrySet, ripe>>
    ELSE retrySet' = retrySet \cup {i} /\ ripe' = ripe \ {i} /\ UNCHANGED letters

(* Mutant of PutBack: no dead letters are kept. *)
PutBackOrForget(i) ==
    /\ IF i.attempts >= RedisMaxRetries
       THEN UNCHANGED <<retrySet, ripe>>
       ELSE retrySet' = retrySet \cup {i} /\ ripe' = ripe \ {i}
    /\ UNCHANGED letters

(* zadd, which takes the new score for a text it holds already, or lpush.  *)
PutBack(i) ==
    IF i.attempts >= RedisMaxRetries
    THEN letters' = <<i>> \o letters /\ UNCHANGED <<retrySet, ripe>>
    ELSE retrySet' = retrySet \cup {i} /\ ripe' = ripe \ {i} /\ UNCHANGED letters

Return(l) ==
    /\ l \in Loops /\ loop[l].at = "failed"
    /\ PutBack(loop[l].hand[1])
    /\ Turns(l, "batch", loop[l].todo, <<>>)
    /\ UNCHANGED <<pending, etched, running, timer, forwarded, dropped, used>>

-----------------------------------------------------------------------------
(* retryDLQ(): the letters are read and stay in the list. *)
Sweep ==
    /\ loop[RetryOperator] = Gone /\ letters # <<>>
    /\ MayHappen /\ used' = [used EXCEPT !.sweeps = @ + 1]
    /\ Turns(RetryOperator, "etch", Tail(letters), <<Head(letters)>>)
    /\ UNCHANGED <<pending, retrySet, ripe, letters, etched, running, timer,
                   forwarded, dropped>>

NextLetter ==
    LET rest == loop[RetryOperator].todo
    IN  IF rest = <<>>
        THEN loop' = [loop EXCEPT ![RetryOperator] = Gone]
        ELSE Turns(RetryOperator, "etch", Tail(rest), <<Head(rest)>>)

SweepEtched ==
    /\ loop[RetryOperator].at = "etch"
    /\ EtchOne(RetryOperator)
    /\ NextLetter
    /\ UNCHANGED <<pending, retrySet, ripe, letters, running, timer, forwarded, dropped, used>>

SweepReturns ==
    /\ loop[RetryOperator].at = "failed"
    /\ PutBack(loop[RetryOperator].hand[1])
    /\ NextLetter
    /\ UNCHANGED <<pending, etched, running, timer, forwarded, dropped, used>>

-----------------------------------------------------------------------------
(* Faults. *)
InHandOf(ls) == {loop[l].hand[1].request : l \in {k \in ls : loop[k].hand # <<>>}}

(* A call to Redis throws: the tick is over, the loop goes on. *)
TickFails(l) ==
    /\ loop[l].at \in {"due", "moving", "batch", "failed"} /\ l \in Loops
    /\ Fault
    /\ dropped' = dropped \cup InHandOf({l})
    /\ EndTick(l)
    /\ UNCHANGED <<pending, retrySet, ripe, letters, etched, running, forwarded>>

(* The process of a forwarder ends; it may be started again. *)
CrashForwarder(f) ==
    LET mine == {l \in Loops : loop[l].owner = f}
    IN  /\ running[f]
        /\ Fault
        /\ dropped' = dropped \cup InHandOf(mine)
        /\ loop' = [l \in Hands |-> IF l \in mine THEN Gone ELSE loop[l]]
        /\ running' = [running EXCEPT ![f] = FALSE]
        /\ timer' = [timer EXCEPT ![f] = None]
        /\ UNCHANGED <<pending, retrySet, ripe, letters, etched, forwarded>>

RedisForwarderNext ==
    \/ \E r \in Etches : ForwardToRedis(r)
    \/ \E f \in Forwarders : StopLoop(f) \/ CrashForwarder(f)
                              \/ \E l \in Loops : StartLoop(f, l)
    \/ \E i \in retrySet : Ripen(i)
    \/ \E l \in Hands : Wake(l) \/ TakeDue(l) \/ PushDue(l) \/ Pop(l) \/ TickOver(l)
                         \/ EtchAnswered(l) \/ EtchThrows(l) \/ Return(l) \/ TickFails(l)
    \/ Sweep \/ SweepEtched \/ SweepReturns

RedisForwarderSpec == RedisForwarderInit /\ [][RedisForwarderNext]_redisForwarderVars

-----------------------------------------------------------------------------
(* Properties. *)

Held(r) ==
    \/ \E i \in retrySet : i.request = r
    \/ \E k \in DOMAIN pending : pending[k].request = r
    \/ \E k \in DOMAIN letters : letters[k].request = r
    \/ r \in InHandOf(Hands)
    \/ r \in etched

(* However the loops of several processes, retries, stop() and start() and *)
(* the operator interleave, a forwarded request is in Redis, in somebody's *)
(* hand or in the ledger - unless a crash, or a Redis call that threw,     *)
(* caught it between two awaits of a tick.                                 *)
OnlyFaultsLose == \A r \in forwarded : Held(r) \/ r \in dropped

(* "Safe for multiple workers (basic at-least-once semantics)" and         *)
(* "Resilient across restarts": a request is never lost.                   *)
AtLeastOnce == \A r \in forwarded : Held(r)

(* The retry budget holds across processes and sweeps: what waits to be    *)
(* tried again has attempts left, what is a dead letter has none, so that  *)
(* no letter that fails again in retryDLQ() ever goes back to the retries. *)
RetryBudget ==
    /\ \A i \in retrySet : i.attempts \in 1..(RedisMaxRetries - 1)
    /\ \A k \in DOMAIN pending : pending[k].attempts < RedisMaxRetries
    /\ \A k \in DOMAIN letters : letters[k].attempts >= RedisMaxRetries

(* While at most one loop exists, no fault happens and no letter is swept  *)
(* up, a request is never in two places: duplicates come from two loops    *)
(* that move the same due item, or from retryDLQ().                        *)
Once(items) == \A j, k \in DOMAIN items : items[j].request = items[k].request => j = k
Requested(items) == {items[k].request : k \in DOMAIN items}
Awaiting == {i.request : i \in retrySet}
OneLoopOnePlace ==
    used.starts <= 1 /\ used.faults = 0 /\ used.sweeps = 0 =>
        /\ Once(pending) /\ Once(letters)
        /\ \A i, j \in retrySet : i.request = j.request => i = j
        /\ Requested(pending) \cap Requested(letters) = {}
        /\ (Requested(pending) \cup Requested(letters)) \cap (InHandOf(Loops) \cup Awaiting) = {}
        /\ InHandOf(Loops) \cap Awaiting = {}

(* A forwarded request stays in one place until it is in the ledger, and   *)
(* its retries within their budget, as far as faults allow.                *)
RedisForwarderInv ==
    RedisForwarderTypeOK /\ OnlyFaultsLose /\ RetryBudget /\ OneLoopOnePlace
=============================================================================
