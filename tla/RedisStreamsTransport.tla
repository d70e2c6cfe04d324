------------------------- MODULE RedisStreamsTransport -------------------------
(***************************************************************************)
(* RedisStreamsGossipTransport (src/cluster/redisStreamsGossipTransport.ts)*)
(* on one Redis stream.  Nothing keeps a caller from starting a poll while *)
(* another is in flight: each reads from the lastId of the moment it was   *)
(* called, the server answers at some later moment, and the answers may be *)
(* taken in any order.                                                     *)
(***************************************************************************)
EXTENDS Naturals, Sequences, SequencesExt, FiniteSetsExt

CONSTANTS
    Readers,    \* the nodes on the stream
    MaxEntries, \* bound: entries ever added to the stream
    BatchSize,  \* readBatchSize
    MaxPolls    \* bound: polls of a node in flight at once

ASSUME RedisAssumption ==
    /\ MaxEntries \in Nat
    /\ BatchSize \in Nat \ {0}
    /\ MaxPolls \in Nat

VARIABLES
    stream,     \* publisher of each entry; entry ids are positions from 1 on
    lastId,     \* lastId[n]; '0-0' is 0
    seenIds,    \* seenStreamIds[n]
    asked,      \* asked[n][i]: lastId of n's polls that the server has yet to answer
    answers,    \* answers[n][i]: entry ids n's polls were answered with, to be taken
    inbox       \* inbox[n]: ids handed to the subscribers of n, in order (history)

redisVars == <<stream, lastId, seenIds, asked, answers, inbox>>

RedisTypeOK ==
    /\ stream \in Seq(Readers) /\ Len(stream) <= MaxEntries
    /\ \A n \in Readers :
        /\ lastId[n] \in 0..Len(stream)
        /\ seenIds[n] \subseteq 1..Len(stream)
        /\ asked[n] \in Seq(0..Len(stream))
        /\ answers[n] \in Seq(Seq(1..Len(stream)))
        /\ Len(asked[n]) + Len(answers[n]) <= MaxPolls
        /\ inbox[n] \in Seq(1..Len(stream))

RedisInit ==
    /\ stream = <<>>
    /\ lastId = [n \in Readers |-> 0]
    /\ seenIds = [n \in Readers |-> {}]
    /\ asked = [n \in Readers |-> <<>>]
    /\ answers = [n \in Readers |-> <<>>]
    /\ inbox = [n \in Readers |-> <<>>]

(* publish(): XADD gives the entry the next id. *)
AddEntry(n) ==
    /\ Len(stream) < MaxEntries
    /\ stream' = Append(stream, n)
    /\ UNCHANGED <<lastId, seenIds, asked, answers, inbox>>

(* pollOnce() up to its await. *)
StartPoll(n) ==
    /\ Len(asked[n]) + Len(answers[n]) < MaxPolls
    /\ asked' = [asked EXCEPT ![n] = Append(@, lastId[n])]
    /\ UNCHANGED <<stream, lastId, seenIds, answers, inbox>>

(* XREAD: up to BatchSize entries after the given id. *)
EntriesAfter(id) == [i \in 1..Min({BatchSize, Len(stream) - id}) |-> id + i]
ServeRead(n) ==
    \E i \in DOMAIN asked[n] :
        /\ answers' = [answers EXCEPT ![n] = Append(@, EntriesAfter(asked[n][i]))]
        /\ asked' = [asked EXCEPT ![n] = RemoveAt(@, i)]
        /\ UNCHANGED <<stream, lastId, seenIds, inbox>>

(* Mutants of FreshEntries: no memory of ids; of LastIdAfter: the last id  *)
(* is taken for the next one, or lastId jumps to the end of the stream.    *)
FreshEntriesAll(n, batch) == SelectSeq(batch, LAMBDA id : stream[id] # n)
LastIdNext(n, batch) == IF batch = <<>> THEN lastId[n] ELSE Last(batch) + 1
LastIdAtEnd(n, batch) == Len(stream)

(* The loop over a batch runs to its end without yielding: lastId follows  *)
(* every entry, even one seen before; entries that are new and of another  *)
(* node go to the subscribers.                                             *)
FreshEntries(n, batch) ==
    LET fresh[i \in 0..Len(batch)] ==
            IF i = 0 THEN <<>>
            ELSE IF batch[i] \in seenIds[n] \/ stream[batch[i]] = n THEN fresh[i - 1]
            ELSE Append(fresh[i - 1], batch[i])
    IN  fresh[Len(batch)]
LastIdAfter(n, batch) == IF batch = <<>> THEN lastId[n] ELSE Last(batch)
TakeAnswer(n) ==
    \E i \in DOMAIN answers[n] :
        LET batch == answers[n][i]
        IN  /\ lastId' = [lastId EXCEPT ![n] = LastIdAfter(n, batch)]
            /\ seenIds' = [seenIds EXCEPT ![n] = @ \cup Range(batch)]
            /\ inbox' = [inbox EXCEPT ![n] = @ \o FreshEntries(n, batch)]
            /\ answers' = [answers EXCEPT ![n] = RemoveAt(@, i)]
            /\ UNCHANGED <<stream, asked>>

RedisNext == \E n \in Readers : AddEntry(n) \/ StartPoll(n) \/ ServeRead(n) \/ TakeAnswer(n)

RedisSpec == RedisInit /\ [][RedisNext]_redisVars

(* The application polls forever, and the server answers. *)
RedisFairSpec ==
    RedisSpec /\ \A n \in Readers : /\ WF_redisVars(StartPoll(n))
                                    /\ WF_redisVars(ServeRead(n))
                                    /\ WF_redisVars(TakeAnswer(n))

-----------------------------------------------------------------------------
(* Properties. *)

(* However polls overlap and lastId moves back and forth, the ids a node   *)
(* has seen are a prefix of the stream, and its cursor stays in it.        *)
SeenIsPrefix ==
    \A n \in Readers : /\ seenIds[n] = 1..Cardinality(seenIds[n])
                       /\ lastId[n] \in seenIds[n] \cup {0}

(* The transport implements the contract the cluster relies on: the log is *)
(* the stream, and the cursor of a node the number of ids it has seen.     *)
Contract == INSTANCE OrderedBroadcast
    WITH Nodes <- Readers, MaxLog <- MaxEntries, log <- stream, handed <- inbox,
         cursor <- [n \in Readers |-> Cardinality(seenIds[n])]
ImplementsContract == Contract!BroadcastSpec

(* Every entry reaches every node, although lastId may move backwards. *)
EveryEntryArrives == Contract!EverythingArrives
=============================================================================
