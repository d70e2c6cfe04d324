-------------------------- MODULE BackgroundForwarder --------------------------
(***************************************************************************)
(* BackgroundLedgerForwarder (src/ledger/asyncLedgerForwarder.ts) in front *)
(* of a LedgerService: a queue of requests in memory, a timer that starts  *)
(* processQueue() whether or not an earlier run of it still awaits an      *)
(* etch(), retries with a delay, a dead letter queue an operator may send  *)
(* again, and stop().  An item is one object in every list that holds it,  *)
(* so its request stands for it.                                           *)
(***************************************************************************)
EXTENDS LedgerService

CONSTANTS
    Runs,           \* processQueue() invocations of the timer that may overlap
    Stopper,        \* the invocation of stop(), a caller of its own
    Operator,       \* the invocation of retryDLQ()
    Direct,         \* forward() after stop(), which calls etch() itself
    MaxRetries,
    MaxManual       \* bound: calls of retryDLQ()

ASSUME ForwarderAssumption ==
    /\ Callers = Runs \cup {Stopper, Operator, Direct}
    /\ Stopper # Operator /\ Stopper # Direct /\ Operator # Direct
    /\ Runs \cap {Stopper, Operator, Direct} = {}
    /\ MaxRetries \in Nat \ {0}
    /\ MaxManual \in Nat

VARIABLES
    queue,      \* pending items
    dlq,        \* dead letter queue
    attempts,   \* attempts[r]
    due,        \* due[r]: has nextAttempt passed?
    work,       \* work[c]: the items c has yet to etch, the one in hand first
    asked,      \* asked[r]: has forward(r) queued it, or called etch() directly? (history)
    phase,      \* of the forwarder: "open", "draining", "final", "stopped"
    place,      \* place in the queue of stop()'s final loop
    manual      \* calls of retryDLQ() so far

forwarderVars == <<queue, dlq, attempts, due, work, asked, phase, place, manual>>
allVars == <<ledgerVars, forwarderVars>>

ForwarderTypeOK ==
    /\ queue \in Seq(Requests)
    /\ dlq \in Seq(Requests)
    /\ attempts \in [Requests -> Nat]
    /\ due \in [Requests -> BOOLEAN]
    /\ work \in [Callers -> Seq(Requests)]
    /\ asked \in [Requests -> {"no", "queued", "direct"}]
    /\ phase \in {"open", "draining", "final", "stopped"}
    /\ place \in Nat
    /\ manual \in 0..MaxManual
    /\ \A c \in Callers : call[c] # Idle => work[c] # <<>>

ForwarderInit ==
    /\ LedgerInit
    /\ queue = <<>>
    /\ dlq = <<>>
    /\ attempts = [r \in Requests |-> 0]
    /\ due = [r \in Requests |-> FALSE]
    /\ work = [c \in Callers |-> <<>>]
    /\ asked = [r \in Requests |-> "no"]
    /\ phase = "open"
    /\ place = 1
    /\ manual = 0

Without(items, r) == IF Contains(items, r) THEN RemoveFirst(items, r) ELSE items

-----------------------------------------------------------------------------
(* forward(request): each request is forwarded once. *)
Forward(r) ==
    /\ asked[r] = "no"
    /\ phase = "open"
    /\ asked' = [asked EXCEPT ![r] = "queued"]
    /\ queue' = Append(queue, r)
    /\ due' = [due EXCEPT ![r] = TRUE]
    /\ UNCHANGED <<ledgerVars, dlq, attempts, work, phase, place, manual>>

ForwardLate(r) ==
    /\ asked[r] = "no"
    /\ phase # "open"
    /\ work[Direct] = <<>>
    /\ work' = [work EXCEPT ![Direct] = <<r>>]
    /\ asked' = [asked EXCEPT ![r] = "direct"]
    /\ UNCHANGED <<ledgerVars, queue, dlq, attempts, due, phase, place, manual>>

(* Time passes: the nextAttempt of r is reached. *)
BecomeDue(r) ==
    /\ ~due[r]
    /\ Contains(queue, r)
    /\ due' = [due EXCEPT ![r] = TRUE]
    /\ UNCHANGED <<ledgerVars, queue, dlq, attempts, work, asked, phase, place, manual>>

-----------------------------------------------------------------------------
(* processQueue(), by a run of the timer or by stop(). *)

(* Take the next item of items in hand, out of the queue q if it is there. *)
TakeNext(c, q, items) ==
    /\ work' = [work EXCEPT ![c] = items]
    /\ queue' = IF items = <<>> THEN q ELSE Without(q, Head(items))

(* The items whose time has come, in the order of the queue. *)
Ready ==
    LET upTo[k \in 0..Len(queue)] ==
            IF k = 0 THEN <<>>
            ELSE IF due[queue[k]] THEN Append(upTo[k - 1], queue[k]) ELSE upTo[k - 1]
    IN  upTo[Len(queue)]

StartRun(c) ==
    /\ \/ phase = "open" /\ c \in Runs
       \/ phase = "draining" /\ c = Stopper
    /\ work[c] = <<>>
    /\ Ready # <<>>
    /\ TakeNext(c, queue, Ready)
    /\ UNCHANGED <<ledgerVars, dlq, attempts, due, asked, phase, place, manual>>

Processing(c) == work[c] # <<>> /\ (c \in Runs \/ (c = Stopper /\ phase = "draining"))

(* The awaited etch() of the item in hand resolves ... *)
ItemDone(c) ==
    /\ Processing(c)
    /\ Reply(c)
    /\ TakeNext(c, queue, Tail(work[c]))
    /\ UNCHANGED <<dlq, attempts, due, asked, phase, place, manual>>

(* Mutant of EtchFails: the item is given up while its etch() still runs. *)
EtchAbandoned(c) == Lossy /\ UNCHANGED ledgerVars

(* ... or rejects: the leaf was stored all the same, or never. *)
EtchFails(c) == LoseReply(c) \/ (Lossy /\ call[c] = Idle /\ UNCHANGED ledgerVars)

(* Mutant of Requeue: an item without retries left is dropped. *)
RequeueOrDrop(c, r) ==
    /\ attempts' = [attempts EXCEPT ![r] = @ + 1]
    /\ IF attempts[r] + 1 >= MaxRetries
       THEN /\ TakeNext(c, queue, Tail(work[c]))
            /\ UNCHANGED <<dlq, due>>
       ELSE /\ due' = [due EXCEPT ![r] = FALSE]
            /\ TakeNext(c, Append(queue, r), Tail(work[c]))
            /\ UNCHANGED dlq

Requeue(c, r) ==
    /\ attempts' = [attempts EXCEPT ![r] = @ + 1]
    /\ IF attempts[r] + 1 >= MaxRetries
       THEN /\ dlq' = Append(dlq, r)
            /\ TakeNext(c, queue, Tail(work[c]))
            /\ UNCHANGED due
       ELSE /\ due' = [due EXCEPT ![r] = FALSE]
            /\ TakeNext(c, Append(queue, r), Tail(work[c]))
            /\ UNCHANGED dlq

ItemFailed(c) ==
    /\ Processing(c)
    /\ EtchFails(c)
    /\ Requeue(c, Head(work[c]))
    /\ UNCHANGED <<asked, phase, place, manual>>

-----------------------------------------------------------------------------
(* retryDLQ(): the dead letter queue is emptied first, what fails again is *)
(* put back.                                                               *)
RetryDLQ ==
    /\ work[Operator] = <<>>
    /\ dlq # <<>>
    /\ manual < MaxManual
    /\ manual' = manual + 1
    /\ work' = [work EXCEPT ![Operator] = dlq]
    /\ dlq' = <<>>
    /\ attempts' = [attempts EXCEPT ![Head(dlq)] = 0]
    /\ due' = [due EXCEPT ![Head(dlq)] = TRUE]
    /\ UNCHANGED <<ledgerVars, queue, asked, phase, place>>

NextRetry ==
    LET rest == Tail(work[Operator])
    IN  /\ work' = [work EXCEPT ![Operator] = rest]
        /\ IF rest = <<>>
           THEN UNCHANGED <<attempts, due>>
           ELSE /\ attempts' = [attempts EXCEPT ![Head(rest)] = 0]
                /\ due' = [due EXCEPT ![Head(rest)] = TRUE]

RetryDone ==
    /\ work[Operator] # <<>>
    /\ Reply(Operator)
    /\ NextRetry
    /\ UNCHANGED <<queue, dlq, asked, phase, place, manual>>

RetryFailed ==
    /\ work[Operator] # <<>>
    /\ EtchFails(Operator)
    /\ dlq' = Append(dlq, Head(work[Operator]))
    /\ NextRetry
    /\ UNCHANGED <<queue, asked, phase, place, manual>>

-----------------------------------------------------------------------------
(* stop() *)

(* The loop over the queue reads the array as it is when it moves on, and  *)
(* the queue is emptied when the loop has come to its end.                 *)
FinalLoopAt(k) ==
    /\ place' = k
    /\ IF k <= Len(queue)
       THEN /\ work' = [work EXCEPT ![Stopper] = <<queue[k]>>]
            /\ phase' = "final"
            /\ UNCHANGED queue
       ELSE /\ work' = [work EXCEPT ![Stopper] = <<>>]
            /\ phase' = "stopped"
            /\ queue' = <<>>

Stop ==
    /\ phase = "open"
    /\ phase' = "draining"
    /\ UNCHANGED <<ledgerVars, queue, dlq, attempts, due, work, asked, place, manual>>

(* The queue is empty or the flush timeout has passed. *)
EndDrain ==
    /\ phase = "draining"
    /\ work[Stopper] = <<>>
    /\ FinalLoopAt(1)
    /\ UNCHANGED <<ledgerVars, dlq, attempts, due, asked, manual>>

FinalDone ==
    /\ phase = "final"
    /\ Reply(Stopper)
    /\ FinalLoopAt(place + 1)
    /\ UNCHANGED <<dlq, attempts, due, asked, manual>>

FinalFailed ==
    /\ phase = "final"
    /\ EtchFails(Stopper)
    /\ dlq' = Append(dlq, Head(work[Stopper]))
    /\ FinalLoopAt(place + 1)
    /\ UNCHANGED <<attempts, due, asked, manual>>

(* forward() after stop() swallows the error of its only attempt. *)
DirectDone ==
    /\ work[Direct] # <<>>
    /\ Reply(Direct) \/ EtchFails(Direct)
    /\ work' = [work EXCEPT ![Direct] = <<>>]
    /\ UNCHANGED <<queue, dlq, attempts, due, asked, phase, place, manual>>

-----------------------------------------------------------------------------
(* Inside the ledger, on behalf of the item in hand. *)
LedgerStep(c) ==
    /\ \/ work[c] # <<>> /\ ReadParent(c, Head(work[c]))
       \/ StoreLeaf(c)
    /\ UNCHANGED forwarderVars

ForwarderNext ==
    \/ \E r \in Requests : Forward(r) \/ ForwardLate(r) \/ BecomeDue(r)
    \/ \E c \in Callers : StartRun(c) \/ ItemDone(c) \/ ItemFailed(c) \/ LedgerStep(c)
    \/ RetryDLQ \/ RetryDone \/ RetryFailed
    \/ Stop \/ EndDrain \/ FinalDone \/ FinalFailed
    \/ DirectDone

ForwarderSpec == ForwarderInit /\ [][ForwarderNext]_allVars

-----------------------------------------------------------------------------
(* Properties. *)

Stored(r) == \E t \in Tenants : \E i \in DOMAIN forest[t] : forest[t][i].request = r
InHand(r) == \E c \in Callers : Contains(work[c], r)

(* Until stop() has ended no queued request is forgotten, however runs,    *)
(* retries, failures and the loops of stop() overlap: it is pending, in    *)
(* hand, a dead letter, or in the ledger.                                  *)
NothingForgotten ==
    phase # "stopped" => \A r \in Requests : asked[r] = "queued" =>
        Contains(queue, r) \/ InHand(r) \/ Contains(dlq, r) \/ Stored(r)

(* No request is forgotten, and everything in hand is what it should be.   *)
ForwarderInv == LedgerTypeOK /\ ForwarderTypeOK /\ NothingForgotten
=============================================================================
