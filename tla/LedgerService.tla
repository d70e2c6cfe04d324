----------------------------- MODULE LedgerService -----------------------------
(***************************************************************************)
(* LedgerService (src/ledger/ledgerService.ts): one append-only list of    *)
(* leaves per tenant, each leaf naming the hash of the one before it.      *)
(* etch() awaits its storage three times - to read the last leaf, to       *)
(* append, and to list the forest for the receipt - and other calls run in *)
(* between.  A leaf is [hash, parent, request]; hashes are numbers handed  *)
(* out in sealing order, for every leaf has a fresh uuid.  The root of a   *)
(* forest is the digest of its list of hashes: that list stands for it.    *)
(***************************************************************************)
EXTENDS Naturals, Sequences, SequencesExt

CONSTANTS
    Tenants,
    Callers,    \* each has at most one etch() in flight
    Requests,   \* EtchRequests
    TenantOf,   \* TenantOf[r]: request.tenantId
    Lossy,      \* may an etch() fail, its leaf stored or not?
    MaxLeaves   \* bound: leaves ever sealed

ASSUME LedgerAssumption ==
    /\ TenantOf \in [Requests -> Tenants]
    /\ Lossy \in BOOLEAN
    /\ MaxLeaves \in Nat

VARIABLES
    sealed,     \* leaves sealed so far: the source of fresh hashes
    forest,     \* forest[t]: the stored leaves of tenant t
    call,       \* call[c]: the etch() of caller c
    receipts    \* receipts handed out (history)

ledgerVars == <<sealed, forest, call, receipts>>

NoParent == 0
Idle == [phase |-> "idle"]
Leaf == [hash : Nat \ {NoParent}, parent : Nat, request : Requests]
Receipt == [tenant : Tenants, leaf : Leaf, root : Seq(Nat), inclusionProof : Seq(Nat)]

Call == {Idle}
   \cup [phase : {"read"}, request : Requests, parent : Nat]
   \cup [phase : {"stored"}, leaf : Leaf]

LedgerTypeOK ==
    /\ sealed \in Nat
    /\ forest \in [Tenants -> Seq(Leaf)]
    /\ call \in [Callers -> Call]
    /\ receipts \subseteq Receipt
    /\ \A t \in Tenants : \A i \in DOMAIN forest[t] : TenantOf[forest[t][i].request] = t

LedgerInit ==
    /\ sealed = 0
    /\ forest = [t \in Tenants |-> <<>>]
    /\ call = [c \in Callers |-> Idle]
    /\ receipts = {}

HashesOf(leaves) == [i \in DOMAIN leaves |-> leaves[i].hash]

(* Mutant of LastHash: the newest leaf of any tenant is the parent. *)
LastHashOfAll(t) == sealed

(* getLastLeaf(tenantId)?.leafHash *)
LastHash(t) == IF forest[t] = <<>> THEN NoParent ELSE Last(forest[t]).hash

(* Mutant of InclusionProof: the leaf itself is part of its proof. *)
InclusionProofTo(t, leaf) == SelectSeq(HashesOf(forest[t]), LAMBDA h : h <= leaf.hash)

(* buildInclusionProof: the hashes stored before the leaf. *)
InclusionProof(t, leaf) ==
    LET at == CHOOSE i \in DOMAIN forest[t] : forest[t][i] = leaf
    IN  SubSeq(HashesOf(forest[t]), 1, at - 1)

-----------------------------------------------------------------------------
(* etch(request), from await to await. *)

(* The request has arrived and the last leaf is read. *)
ReadParent(c, r) ==
    /\ call[c] = Idle
    /\ call' = [call EXCEPT ![c] = [phase |-> "read", request |-> r,
                                   parent |-> LastHash(TenantOf[r])]]
    /\ UNCHANGED <<sealed, forest, receipts>>

(* Mutant of AppendLeaf: all tenants share a list. *)
AppendLeafToAll(leaf) == [t \in Tenants |-> Append(forest[t], leaf)]

(* appendLeaf(leaf) *)
AppendLeaf(leaf) == [forest EXCEPT ![TenantOf[leaf.request]] = Append(@, leaf)]

StoreLeaf(c) ==
    /\ call[c].phase = "read"
    /\ sealed < MaxLeaves
    /\ sealed' = sealed + 1
    /\ LET leaf == [hash |-> sealed + 1, parent |-> call[c].parent,
                    request |-> call[c].request]
       IN  /\ forest' = AppendLeaf(leaf)
           /\ call' = [call EXCEPT ![c] = [phase |-> "stored", leaf |-> leaf]]
    /\ UNCHANGED receipts

(* The forest is listed, the receipt made and handed to the caller. *)
ReceiptFor(leaf) ==
    LET t == TenantOf[leaf.request]
    IN  [tenant |-> t, leaf |-> leaf, root |-> HashesOf(forest[t]),
         inclusionProof |-> InclusionProof(t, leaf)]
Reply(c) ==
    /\ call[c].phase = "stored"
    /\ receipts' = receipts \cup {ReceiptFor(call[c].leaf)}
    /\ call' = [call EXCEPT ![c] = Idle]
    /\ UNCHANGED <<sealed, forest>>

(* The caller of a remote ledger gets an error instead, although its leaf  *)
(* is stored.                                                              *)
LoseReply(c) ==
    /\ Lossy
    /\ call[c].phase = "stored"
    /\ call' = [call EXCEPT ![c] = Idle]
    /\ UNCHANGED <<sealed, forest, receipts>>

LedgerNext ==
    \E c \in Callers : \/ \E r \in Requests : ReadParent(c, r)
                       \/ StoreLeaf(c)
                       \/ Reply(c)
                       \/ LoseReply(c)

LedgerSpec == LedgerInit /\ [][LedgerNext]_ledgerVars

-----------------------------------------------------------------------------
(* Verification. *)

(* verifyBundle(exportFullLedger(t)): each leaf points at the one before.  *)
ChainIntact(leaves) ==
    \A i \in DOMAIN leaves :
        leaves[i].parent = (IF i = 1 THEN NoParent ELSE leaves[i - 1].hash)

(* Mutant of VerifyReceipt: the root is not compared. *)
VerifyReceiptAnyRoot(receipt) ==
    /\ \E i \in DOMAIN forest[receipt.tenant] : forest[receipt.tenant][i] = receipt.leaf
    /\ receipt.inclusionProof = InclusionProof(receipt.tenant, receipt.leaf)

(* verifyReceipt(receipt) *)
VerifyReceipt(receipt) ==
    /\ \E i \in DOMAIN forest[receipt.tenant] : forest[receipt.tenant][i] = receipt.leaf
    /\ receipt.root = HashesOf(forest[receipt.tenant])
    /\ receipt.inclusionProof = InclusionProof(receipt.tenant, receipt.leaf)

-----------------------------------------------------------------------------
(* Properties. *)

(* A receipt is a proof for ever, although etches of others were stored    *)
(* between its own leaf and its sealing, and since: the root it carries is *)
(* a root the forest really had, and proof and leaf lie at its beginning.  *)
ReceiptsStayProofs ==
    \A receipt \in receipts :
        /\ IsPrefix(receipt.root, HashesOf(forest[receipt.tenant]))
        /\ IsPrefix(Append(receipt.inclusionProof, receipt.leaf.hash), receipt.root)

(* verifyReceipt accepts a receipt exactly until the next etch of its      *)
(* tenant is stored.                                                       *)
ReceiptValidUntilNextEtch ==
    \A receipt \in receipts :
        VerifyReceipt(receipt) <=> Len(receipt.root) = Len(forest[receipt.tenant])

(* Whatever runs concurrently, a leaf points at an earlier leaf of its own *)
(* tenant, and only the first leaves of a tenant point at none.            *)
ParentIsEarlier ==
    \A t \in Tenants : \A i \in DOMAIN forest[t] :
        \/ forest[t][i].parent = NoParent
        \/ \E j \in 1..(i - 1) : forest[t][j].hash = forest[t][i].parent

(* "Stateless export verification": an export of the ledger verifies.      *)
ExportVerifies == \A t \in Tenants : ChainIntact(forest[t])
=============================================================================
