------------------------------ MODULE LedgerClient ------------------------------
(***************************************************************************)
(* LedgerClient (src/ledger/ledgerClient.ts) of type hosted, and the       *)
(* recovery tooling built on it (src/utils/ledgerReconciliation.ts).  A    *)
(* request is posted to the endpoint, which may carry it out before or     *)
(* after others, and whose answer may be lost; any error makes the client  *)
(* serve the request from a ledger of its own, in memory.  Only the        *)
(* tenant's list of leaves is kept of either ledger: a leaf is its place   *)
(* in it, for leaves are never changed and every leaf has a hash of its    *)
(* own, of a payload with a fresh uuid.                                    *)
(***************************************************************************)
EXTENDS Naturals, Sequences, FiniteSets, SequencesExt

CONSTANTS
    Payloads,      \* what is etched: the local etches a snapshot holds
    Posts,         \* requests that may be in flight at a time
    Replayer,      \* the request of replayMissingEtchesToLedger
    MaxPosted,     \* bound: etches and verifications asked for
    MaxReplays     \* bound: replays

ASSUME LedgerClientAssumption ==
    /\ MaxPosted \in Nat /\ MaxReplays \in Nat
    /\ IsFiniteSet(Payloads) /\ IsFiniteSet(Posts)
    /\ Replayer \notin Posts

VARIABLES
    withFallback,  \* config.fallback !== false
    stored,      \* stored["hosted"], stored["local-fallback"]: leaves in order
    post,        \* post[c]: the request in flight
    lastSource,  \* the source the most recent answer came from
    given,       \* receipts handed to callers
    verdicts,    \* answers of verifyReceipt: what was said, and was it true? (history)
    lost,        \* lost[p]: answers to an etch of p lost after it was stored (history)
    asks,        \* asks[p]: etches of p (history)
    resent,      \* resent[p]: those of them that replays asked for (history)
    verifies,    \* verifications asked for so far
    replay       \* the replay under way: what it has yet to etch, and how it goes

ledgerClientVars == <<withFallback, stored, post, lastSource, given, verdicts, lost, asks,
                      resent, verifies, replay>>

Where == {"hosted", "local-fallback"}
Resting == [at |-> "idle"]
LeafRecord == [of : Payloads, source : {"caller", "local-fallback"}, again : BOOLEAN]
(* A leaf's hash is of its place in its ledger, the root of a forest is of *)
(* the leaves there are.                                                   *)
LeafHash(w, k) == <<"leaf", w, k>>
Root(w, n) == <<"root", w, n>>
HandedOut == [leafHash : {"leaf"} \X Where \X (Nat \ {0}),
              forestRoot : {"root"} \X Where \X Nat]
LedgerOf(r) == r.leafHash[2]
PlaceOf(r) == r.leafHash[3]
VerdictOn(receipts) == [by : Where, valid : BOOLEAN, receipt : receipts, current : BOOLEAN]
EtchAsk == [op : {"etch"}, of : Payloads, again : BOOLEAN]
VerifyAsk(receipts) == [op : {"verify"}, receipt : receipts]
Posting(receipts) ==
    {Resting} \cup [at : {"posted"}, ask : EtchAsk \cup VerifyAsk(receipts)]
              \cup [at : {"carried out"}, ask : EtchAsk, answer : HandedOut]
              \cup [at : {"carried out"}, ask : VerifyAsk(receipts), answer : VerdictOn(receipts)]
Replaying == [state : {"none", "running", "ended"}, todo : Seq(Payloads), replayed : Nat,
              errors : Nat, rounds : 0..MaxReplays]

LedgerClientTypeOK ==
    /\ withFallback \in BOOLEAN
    /\ stored \in [Where -> Seq(LeafRecord)]
    /\ post \in [Posts \cup {Replayer} -> Posting(given)]
    /\ lastSource \in Where
    /\ given \subseteq HandedOut
    /\ verdicts \subseteq VerdictOn(given)
    /\ lost \in [Payloads -> Nat] /\ asks \in [Payloads -> Nat] /\ verifies \in Nat
    /\ resent \in [Payloads -> Nat]
    /\ replay \in Replaying

LedgerClientInit ==
    /\ withFallback \in BOOLEAN
    /\ stored = [w \in Where |-> <<>>]
    /\ post = [c \in Posts \cup {Replayer} |-> Resting]
    /\ lastSource = "hosted"
    /\ given = {} /\ verdicts = {} /\ verifies = 0
    /\ lost = [p \in Payloads |-> 0] /\ asks = [p \in Payloads |-> 0]
    /\ resent = [p \in Payloads |-> 0]
    /\ replay = [state |-> "none", todo |-> <<>>, replayed |-> 0, errors |-> 0, rounds |-> 0]

-----------------------------------------------------------------------------
(* What a LedgerService does with a request. *)

Etched(w, ask, source) ==
    [stored EXCEPT ![w] = Append(@, [of |-> ask.of, source |-> source, again |-> ask.again])]
ReceiptOf(w, leaves) ==
    [leafHash |-> LeafHash(w, Len(leaves)), forestRoot |-> Root(w, Len(leaves))]
LeafHashes(w) == {LeafHash(w, k) : k \in DOMAIN stored[w]}

(* Mutant of Accepts: the leaves are counted. *)
AcceptsByLength(w, r) == Len(stored[w]) = r.forestRoot[3]

(* verifyReceipt: the leaf is there and the root is the receipt's. *)
Accepts(w, r) == r.leafHash \in LeafHashes(w) /\ r.forestRoot = Root(w, Len(stored[w]))

Verdict(w, r) ==
    [by |-> w, valid |-> Accepts(w, r), receipt |-> r,
     current |-> Len(stored[LedgerOf(r)]) = r.forestRoot[3]]

-----------------------------------------------------------------------------
(* The client. *)

Asked == verifies + FoldSet(LAMBDA p, sum : sum + asks[p], 0, Payloads)

Ask(c, ask) ==
    /\ post[c] = Resting
    /\ post' = [post EXCEPT ![c] = [at |-> "posted", ask |-> ask]]
    /\ IF ask.op = "etch"
       THEN asks' = [asks EXCEPT ![ask.of] = @ + 1] /\ UNCHANGED verifies
       ELSE verifies' = verifies + 1 /\ UNCHANGED asks

AskEtch(c, p) ==
    /\ Asked < MaxPosted
    /\ Ask(c, [op |-> "etch", of |-> p, again |-> FALSE])
    /\ UNCHANGED <<stored, lastSource, given, verdicts, lost, resent, replay>>

AskVerify(c, r) ==
    /\ Asked < MaxPosted
    /\ Ask(c, [op |-> "verify", receipt |-> r])
    /\ UNCHANGED <<stored, lastSource, given, verdicts, lost, resent, replay>>

(* The endpoint carries the request out. *)
CarryOut(c) ==
    /\ post[c] # Resting /\ post[c].at = "posted"
    /\ IF post[c].ask.op = "etch"
       THEN /\ stored' = Etched("hosted", post[c].ask, "caller")
            /\ post' = [post EXCEPT ![c] = [at |-> "carried out", ask |-> post[c].ask,
                                           answer |-> ReceiptOf("hosted", stored'["hosted"])]]
       ELSE /\ post' = [post EXCEPT ![c] = [at |-> "carried out", ask |-> post[c].ask,
                                           answer |-> Verdict("hosted", post[c].ask.receipt)]]
            /\ UNCHANGED stored
    /\ UNCHANGED <<lastSource, given, verdicts, lost, asks, resent, verifies, replay>>

Deliver(c, answer) ==
    IF post[c].ask.op = "etch"
    THEN given' = given \cup {answer} /\ UNCHANGED verdicts
    ELSE verdicts' = verdicts \cup {answer} /\ UNCHANGED given

(* callOr: the answer arrives. *)
Answer(c) ==
    /\ post[c] # Resting /\ post[c].at = "carried out"
    /\ lastSource' = "hosted"
    /\ Deliver(c, post[c].answer)
    /\ post' = [post EXCEPT ![c] = Resting]
    /\ UNCHANGED <<stored, lost, asks, resent, verifies>>

(* The endpoint was not reached, or its answer was not. *)
NoteLoss(c) ==
    lost' = IF post[c].ask.op = "etch" /\ post[c].at = "carried out"
            THEN [lost EXCEPT ![post[c].ask.of] = @ + 1] ELSE lost

(* Mutant of FallBack: the etch is not marked. *)
FallBackUnmarked(c) ==
    /\ withFallback
    /\ lastSource' = "local-fallback"
    /\ stored' = IF post[c].ask.op = "etch"
                 THEN Etched("local-fallback", post[c].ask, "caller") ELSE stored
    /\ Deliver(c, IF post[c].ask.op = "etch"
                  THEN ReceiptOf("local-fallback", stored'["local-fallback"])
                  ELSE Verdict("local-fallback", post[c].ask.receipt))

(* callOr: the request is served by the client's own ledger. *)
FallBack(c) ==
    /\ withFallback
    /\ lastSource' = "local-fallback"
    /\ stored' = IF post[c].ask.op = "etch"
                 THEN Etched("local-fallback", post[c].ask, "local-fallback") ELSE stored
    /\ Deliver(c, IF post[c].ask.op = "etch"
                  THEN ReceiptOf("local-fallback", stored'["local-fallback"])
                  ELSE Verdict("local-fallback", post[c].ask.receipt))

Fail(c) ==
    /\ post[c] # Resting
    /\ NoteLoss(c)
    /\ \/ FallBack(c)
       \/ ~withFallback /\ UNCHANGED <<stored, lastSource, given, verdicts>>
    /\ post' = [post EXCEPT ![c] = Resting]
    /\ UNCHANGED <<asks, resent, verifies>>

PostNext(c) ==
    \/ \E p \in Payloads : AskEtch(c, p)
    \/ \E r \in given : AskVerify(c, r)
    \/ (Answer(c) \/ Fail(c)) /\ UNCHANGED replay

-----------------------------------------------------------------------------
(* replayMissingEtchesToLedger(snapshot): a local etch is missing when no  *)
(* leaf has its hash, the hash HolographicEtch made of the etch itself.    *)
EtchHash(p) == <<"etch", p>>
MissingInLedger(w) == {p \in Payloads : EtchHash(p) \notin LeafHashes(w)}

(* The report is made of the answer of either ledger. *)
Reconcile ==
    /\ replay.state # "running" /\ replay.rounds < MaxReplays
    /\ \E w \in (IF withFallback THEN Where ELSE {"hosted"}) :
        /\ \E todo \in SetToSeqs(MissingInLedger(w)) :
               replay' = [state |-> "running", todo |-> todo, replayed |-> 0, errors |-> 0,
                          rounds |-> replay.rounds + 1]
        /\ lastSource' = w
    /\ UNCHANGED <<stored, post, given, verdicts, lost, asks, resent, verifies>>

ReplayNext ==
    /\ replay.state = "running" /\ replay.todo # <<>>
    /\ Ask(Replayer, [op |-> "etch", of |-> Head(replay.todo), again |-> TRUE])
    /\ resent' = [resent EXCEPT ![Head(replay.todo)] = @ + 1]
    /\ UNCHANGED <<stored, lastSource, given, verdicts, lost, replay>>

ReplayAnswered ==
    /\ \/ Answer(Replayer) /\ replay' = [replay EXCEPT !.todo = Tail(@), !.replayed = @ + 1]
       \/ /\ Fail(Replayer)
          /\ replay' = IF withFallback
                       THEN [replay EXCEPT !.todo = Tail(@), !.replayed = @ + 1]
                       ELSE [replay EXCEPT !.todo = Tail(@), !.errors = @ + 1]

ReplayEnds ==
    /\ replay.state = "running" /\ replay.todo = <<>>
    /\ replay' = [replay EXCEPT !.state = "ended"]
    /\ UNCHANGED <<stored, post, lastSource, given, verdicts, lost, asks, resent, verifies>>

LedgerClientNext ==
    /\ UNCHANGED withFallback
    /\ \/ \E c \in Posts : PostNext(c)
       \/ \E c \in Posts \cup {Replayer} : CarryOut(c)
       \/ Reconcile \/ ReplayNext \/ ReplayAnswered \/ ReplayEnds

LedgerClientSpec == LedgerClientInit /\ [][LedgerClientNext]_ledgerClientVars

-----------------------------------------------------------------------------
(* Properties. *)

(* The audit log tells the answers apart that the client served itself     *)
(* (ledgerClient.ts:20-25): the leaf a receipt is of is still there, and   *)
(* it is marked "local-fallback" exactly when it is in the client's own    *)
(* ledger, however many answers were lost.  It is the leaf that tells, for *)
(* the receipt has no metadata: the comment, and                           *)
(* docs/HOSTED_PROVENANCE_LEDGER.md:50-54, say that of each receipt.       *)
LeavesTellWhere ==
    \A r \in given :
        /\ PlaceOf(r) \in DOMAIN stored[LedgerOf(r)]
        /\ LET leaf == stored[LedgerOf(r)][PlaceOf(r)]
           IN leaf.source = "local-fallback" <=> LedgerOf(r) = "local-fallback"

(* verifyReceipt calls a receipt valid exactly when the ledger that was    *)
(* asked is the one that issued it and has not grown since: a receipt of   *)
(* one ledger shown to the other is refused though both have as many       *)
(* leaves, and one shown to its own again is not, whichever ledger served  *)
(* the requests between (ledgerService.ts:155-171).                        *)
VerdictsAreTheIssuers ==
    \A v \in verdicts : v.valid <=> v.by = LedgerOf(v.receipt) /\ v.current

CopiesOf(p, w) == Cardinality({k \in DOMAIN stored[w] : stored[w][k].of = p})
LeavesOf(p) == CopiesOf(p, "hosted") + CopiesOf(p, "local-fallback")
OnItsWay(p) ==
    {c \in Posts \cup {Replayer} : post[c] # Resting /\ post[c].at = "posted"
                                    /\ post[c].ask.op = "etch" /\ post[c].ask.of = p}
InFlight(p) == Cardinality(OnItsWay(p))

(* With a fallback every etch leaves exactly one leaf in the two ledgers,  *)
(* and one more for each answer that was lost after it had been stored.    *)
OneLeafPerEtch ==
    withFallback => \A p \in Payloads : LeavesOf(p) + InFlight(p) = asks[p] + lost[p]

(* A replay asks once for every local etch, those the ledger has included, *)
(* for it compares the hash of an etch with those of leaves: each replay   *)
(* adds one leaf per etch to those OneLeafPerEtch counts, and "recovering  *)
(* from transient ledger outages" (ledgerReconciliation.ts:208-211) is not *)
(* idempotent.                                                             *)
Unasked == ToSet(IF post[Replayer] = Resting THEN replay.todo ELSE Tail(replay.todo))
ReplaysAskForAll ==
    \A p \in Payloads : resent[p] + (IF p \in Unasked THEN 1 ELSE 0) = replay.rounds

(* Leaves tell where they are, verdicts are true, no etch leaves more      *)
(* leaves than its lost answers explain, and replays leave out nothing.    *)
LedgerClientInv ==
    LedgerClientTypeOK /\ LeavesTellWhere /\ VerdictsAreTheIssuers /\ OneLeafPerEtch
        /\ ReplaysAskForAll
=============================================================================
