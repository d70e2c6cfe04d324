------------------------- MODULE LedgerService_proofs -------------------------
(***************************************************************************)
(* Whatever etches overlap, and for any tenants, callers and requests: the *)
(* leaves of a tenant are its own, point backwards, and a receipt stays a  *)
(* proof that verifies until the next etch of its tenant.  The forwarder   *)
(* in memory only takes steps of the ledger and forgets no request; of the *)
(* forwarders over Redis only faults lose one; and the client says where   *)
(* its leaves lie, whichever answers are lost.                             *)
(***************************************************************************)
EXTENDS MCLedger, SequenceTheorems, FiniteSetTheorems,
        NaturalsInduction, TLAPS

(* Hashes are handed out in sealing order, so they increase in a forest. *)
HashesIncrease ==
    \A t \in Tenants :
        /\ \A i \in 1..Len(forest[t]) : forest[t][i].hash <= sealed
        /\ \A i, j \in 1..Len(forest[t]) : i < j => forest[t][i].hash < forest[t][j].hash

(* The parent an etch has read is stored, and so is the leaf it appended. *)
CallsSound ==
    \A c \in Callers :
        /\ call[c].phase = "read" =>
               \/ call[c].parent = NoParent
               \/ \E j \in 1..Len(forest[TenantOf[call[c].request]]) :
                      forest[TenantOf[call[c].request]][j].hash = call[c].parent
        /\ call[c].phase = "stored" =>
               \E j \in 1..Len(forest[TenantOf[call[c].leaf.request]]) :
                   forest[TenantOf[call[c].leaf.request]][j] = call[c].leaf

(* A receipt, place by place: its root lists the first leaves of the       *)
(* forest, its proof those before its leaf.                                *)
Proves(receipt, leaves) ==
    /\ Len(receipt.root) <= Len(leaves)
    /\ \A i \in 1..Len(receipt.root) : receipt.root[i] = leaves[i].hash
    /\ Len(receipt.inclusionProof) < Len(receipt.root)
    /\ \A i \in 1..Len(receipt.inclusionProof) : receipt.inclusionProof[i] = leaves[i].hash
    /\ leaves[Len(receipt.inclusionProof) + 1] = receipt.leaf

ReceiptsProve == \A receipt \in receipts : Proves(receipt, forest[receipt.tenant])

LedgerInv ==
    /\ LedgerTypeOK
    /\ HashesIncrease
    /\ CallsSound
    /\ ParentIsEarlier
    /\ ReceiptsProve

-----------------------------------------------------------------------------
(* What the records of a call hold. *)
LEMMA CallFields ==
    ASSUME LedgerTypeOK, NEW c \in Callers
    PROVE  /\ call[c].phase \in {"idle", "read", "stored"}
           /\ call[c].phase = "read" => call[c].request \in Requests /\ call[c].parent \in Nat
           /\ call[c].phase = "stored" => call[c].leaf \in Leaf
<1>1. call[c] \in Call
  BY DEF LedgerTypeOK
<1>2. QED
  BY <1>1 DEF Call, Idle

(* A forest is a sequence of leaves, its hashes a sequence of numbers. *)
LEMMA ForestTyped ==
    ASSUME LedgerTypeOK, NEW t \in Tenants
    PROVE  /\ forest[t] \in Seq(Leaf)
           /\ Len(forest[t]) \in Nat
           /\ DOMAIN forest[t] = 1..Len(forest[t])
           /\ \A i \in 1..Len(forest[t]) : forest[t][i] \in Leaf
           /\ HashesOf(forest[t]) \in Seq(Nat)
           /\ Len(HashesOf(forest[t])) = Len(forest[t])
           /\ \A i \in 1..Len(forest[t]) : HashesOf(forest[t])[i] = forest[t][i].hash
<1>1. /\ forest[t] \in Seq(Leaf)
      /\ Len(forest[t]) \in Nat
      /\ DOMAIN forest[t] = 1..Len(forest[t])
      /\ \A i \in 1..Len(forest[t]) : forest[t][i] \in Leaf
  BY DEF LedgerTypeOK
<1>2. \A i \in 1..Len(forest[t]) : forest[t][i].hash \in Nat
  BY <1>1 DEF Leaf
<1>3. HashesOf(forest[t]) = [i \in 1..Len(forest[t]) |-> forest[t][i].hash]
  BY <1>1 DEF HashesOf
<1>4. QED
  BY <1>1, <1>2, <1>3

(* The proof built for a stored leaf names the leaves before it. *)
LEMMA InclusionProofOfStored ==
    ASSUME LedgerTypeOK, NEW t \in Tenants, NEW leaf,
           \E j \in 1..Len(forest[t]) : forest[t][j] = leaf
    PROVE  LET proof == InclusionProof(t, leaf)
           IN  /\ proof \in Seq(Nat)
               /\ Len(proof) < Len(forest[t])
               /\ \A i \in 1..Len(proof) : proof[i] = forest[t][i].hash
               /\ forest[t][Len(proof) + 1] = leaf
<1> DEFINE at == CHOOSE i \in DOMAIN forest[t] : forest[t][i] = leaf
           hashes == HashesOf(forest[t])
<1>1. at \in 1..Len(forest[t]) /\ forest[t][at] = leaf /\ Len(forest[t]) \in Nat
  BY ForestTyped
<1>2. /\ hashes \in Seq(Nat) /\ Len(hashes) = Len(forest[t])
      /\ \A i \in 1..Len(forest[t]) : hashes[i] = forest[t][i].hash
      /\ \A i \in 1..Len(forest[t]) : hashes[i] \in Nat
  BY ForestTyped
<1>3. InclusionProof(t, leaf) = SubSeq(hashes, 1, at - 1)
  BY DEF InclusionProof
<1> HIDE DEF at, hashes
<1>4. \A i \in 1..(at - 1) : hashes[i] \in Nat
  BY <1>1, <1>2
<1>5. /\ SubSeq(hashes, 1, at - 1) \in Seq(Nat)
      /\ Len(SubSeq(hashes, 1, at - 1)) = at - 1
      /\ \A i \in 1..(at - 1) : SubSeq(hashes, 1, at - 1)[i] = hashes[i]
  <2>1. 1 \in Int /\ at - 1 \in Int /\ at - 1 >= 0
    BY <1>1
  <2>2. /\ SubSeq(hashes, 1, at - 1) \in Seq(Nat)
        /\ Len(SubSeq(hashes, 1, at - 1)) = IF 1 <= at - 1 THEN (at - 1) - 1 + 1 ELSE 0
        /\ \A i \in 1..((at - 1) - 1 + 1) : SubSeq(hashes, 1, at - 1)[i] = hashes[1 + i - 1]
    BY <2>1, <1>4, SubSeqProperties
  <2>3. QED
    BY <2>1, <2>2
<1>6. QED
  BY SMTT(30), <1>1, <1>2, <1>3, <1>5

-----------------------------------------------------------------------------
LEMMA LedgerInvInit == LedgerInit => LedgerInv
<1> SUFFICES ASSUME LedgerInit PROVE LedgerInv
  OBVIOUS
<1> USE DEF LedgerInit
<1>1. LedgerTypeOK
  BY DEF LedgerTypeOK, Call, Idle
<1>2. HashesIncrease /\ ParentIsEarlier /\ ReceiptsProve
  BY DEF HashesIncrease, ParentIsEarlier, ReceiptsProve
<1>3. CallsSound
  BY DEF CallsSound, Idle
<1>4. QED
  BY <1>1, <1>2, <1>3 DEF LedgerInv

(* Reading the parent. *)
LEMMA ReadParentKeeps ==
    ASSUME LedgerInv, NEW c \in Callers, NEW r \in Requests, ReadParent(c, r)
    PROVE  LedgerInv'
<1> DEFINE t == TenantOf[r]
<1>t. LedgerTypeOK /\ t \in Tenants
  BY LedgerAssumption DEF LedgerInv, LedgerAssumption
<1>1. /\ LastHash(t) \in Nat
      /\ \/ LastHash(t) = NoParent
         \/ \E j \in 1..Len(forest[t]) : forest[t][j].hash = LastHash(t)
  <2>1. CASE forest[t] = <<>>
    BY <2>1 DEF LastHash, NoParent
  <2>2. CASE forest[t] # <<>>
    <3>1. Len(forest[t]) \in 1..Len(forest[t]) /\ forest[t][Len(forest[t])] \in Leaf
      BY <1>t, <2>2, ForestTyped, EmptySeq
    <3>2. LastHash(t) = forest[t][Len(forest[t])].hash
      BY <2>2 DEF LastHash, Last
    <3>3. QED
      BY <3>1, <3>2 DEF Leaf
  <2>3. QED
    BY <2>1, <2>2
<1>2. /\ call' = [call EXCEPT ![c] = [phase |-> "read", request |-> r, parent |-> LastHash(t)]]
      /\ UNCHANGED <<sealed, forest, receipts>>
  BY DEF ReadParent
<1> HIDE DEF t
<1>3. [phase |-> "read", request |-> r, parent |-> LastHash(t)] \in Call
  BY <1>1 DEF Call
<1>4. LedgerTypeOK'
  BY <1>t, <1>2, <1>3 DEF LedgerTypeOK
<1>5. CallsSound'
  <2> SUFFICES ASSUME NEW d \in Callers
               PROVE  /\ call'[d].phase = "read" =>
                            \/ call'[d].parent = NoParent
                            \/ \E j \in 1..Len(forest[TenantOf[call'[d].request]]) :
                                   forest[TenantOf[call'[d].request]][j].hash = call'[d].parent
                      /\ call'[d].phase = "stored" =>
                            \E j \in 1..Len(forest[TenantOf[call'[d].leaf.request]]) :
                                forest[TenantOf[call'[d].leaf.request]][j] = call'[d].leaf
    BY <1>2 DEF CallsSound
  <2>1. CASE d = c
    <3>1. call'[d] = [phase |-> "read", request |-> r, parent |-> LastHash(t)]
      BY <1>t, <1>2, <2>1 DEF LedgerTypeOK
    <3>2. QED
      BY <3>1, <1>1 DEF t
  <2>2. CASE d # c
    <3>1. call'[d] = call[d]
      BY <1>t, <1>2, <2>2 DEF LedgerTypeOK
    <3>2. QED
      BY <3>1 DEF LedgerInv, CallsSound
  <2>3. QED
    BY <2>1, <2>2
<1>6. QED
  BY <1>2, <1>4, <1>5 DEF LedgerInv, HashesIncrease, ParentIsEarlier, ReceiptsProve

(* Storing a leaf: it is the last of its tenant, with the largest hash,    *)
(* and what it points at was stored before it.                             *)
LEMMA StoreLeafKeeps ==
    ASSUME LedgerInv, NEW c \in Callers, StoreLeaf(c)
    PROVE  LedgerInv'
<1> DEFINE r == call[c].request
           p == call[c].parent
           leaf == [hash |-> sealed + 1, parent |-> p, request |-> r]
           T == TenantOf[r]
<1>1. LedgerTypeOK /\ call[c].phase = "read" /\ sealed \in Nat
  BY DEF LedgerInv, StoreLeaf, LedgerTypeOK
<1>2. r \in Requests /\ p \in Nat /\ T \in Tenants /\ leaf \in Leaf
  <2>1. r \in Requests /\ p \in Nat
    BY <1>1, CallFields
  <2>2. QED
    BY <1>1, <2>1, LedgerAssumption DEF Leaf, NoParent, LedgerAssumption
<1>3. /\ sealed' = sealed + 1
      /\ forest' = [forest EXCEPT ![T] = Append(@, leaf)]
      /\ call' = [call EXCEPT ![c] = [phase |-> "stored", leaf |-> leaf]]
      /\ receipts' = receipts
  BY DEF StoreLeaf, AppendLeaf
<1>4. /\ forest[T] \in Seq(Leaf) /\ Len(forest[T]) \in Nat
      /\ \/ p = NoParent
         \/ \E j \in 1..Len(forest[T]) : forest[T][j].hash = p
  <2>1. forest[T] \in Seq(Leaf) /\ Len(forest[T]) \in Nat
    BY <1>1, <1>2, ForestTyped
  <2>2. QED
    BY <1>1, <2>1 DEF LedgerInv, CallsSound
<1>5. leaf.hash = sealed + 1 /\ leaf.parent = p /\ leaf.request = r
  OBVIOUS
<1> HIDE DEF r, p, leaf, T
<1>6. /\ forest'[T] \in Seq(Leaf)
      /\ Len(forest'[T]) = Len(forest[T]) + 1
      /\ \A i \in 1..Len(forest[T]) : forest'[T][i] = forest[T][i]
      /\ forest'[T][Len(forest[T]) + 1] = leaf
      /\ \A t \in Tenants \ {T} : forest'[t] = forest[t]
  <2>1. forest'[T] = Append(forest[T], leaf) /\ \A t \in Tenants \ {T} : forest'[t] = forest[t]
    BY <1>1, <1>2, <1>3 DEF LedgerTypeOK
  <2>2. QED
    BY <2>1, <1>2, <1>4, AppendProperties
<1>7. \A t \in Tenants :
         /\ Len(forest[t]) \in Nat /\ Len(forest'[t]) \in Nat
         /\ Len(forest[t]) <= Len(forest'[t])
         /\ \A i \in 1..Len(forest[t]) : forest'[t][i] = forest[t][i]
  <2>1. \A t \in Tenants : Len(forest[t]) \in Nat
    BY <1>1, ForestTyped
  <2>2. QED
    BY <2>1, <1>2, <1>6
<1>8. LedgerTypeOK'
  <2>1. forest' \in [Tenants -> Seq(Leaf)]
    BY <1>1, <1>2, <1>3, <1>6 DEF LedgerTypeOK
  <2>2. [phase |-> "stored", leaf |-> leaf] \in Call
    BY <1>2 DEF Call
  <2>3. call' \in [Callers -> Call]
    BY <1>1, <1>3, <2>2 DEF LedgerTypeOK
  <2>4. ASSUME NEW t \in Tenants, NEW i \in DOMAIN forest'[t]
        PROVE  TenantOf[forest'[t][i].request] = t
    <3>1. DOMAIN forest'[t] = 1..Len(forest'[t]) /\ DOMAIN forest[t] = 1..Len(forest[t])
      BY <2>1, <1>1, ForestTyped
    <3>2. CASE i \in 1..Len(forest[t])
      <4>1. forest'[t][i] = forest[t][i]
        BY <1>7, <3>2
      <4>2. QED
        BY <4>1, <3>1, <3>2, <1>1 DEF LedgerTypeOK
    <3>3. CASE i \notin 1..Len(forest[t])
      <4>1. t = T /\ i = Len(forest[T]) + 1
        BY <3>1, <3>3, <1>2, <1>4, <1>6
      <4>2. QED
        BY <4>1, <1>5, <1>6 DEF T
    <3>4. QED
      BY <3>2, <3>3
  <2>5. QED
    BY <1>1, <1>3, <2>1, <2>3, <2>4 DEF LedgerTypeOK
<1>9. HashesIncrease'
  <2> SUFFICES ASSUME NEW t \in Tenants
               PROVE  /\ \A i \in 1..Len(forest'[t]) : forest'[t][i].hash <= sealed'
                      /\ \A i, j \in 1..Len(forest'[t]) :
                             i < j => forest'[t][i].hash < forest'[t][j].hash
    BY DEF HashesIncrease
  <2>1. /\ \A i \in 1..Len(forest[t]) : forest[t][i].hash \in Nat /\ forest[t][i].hash <= sealed
        /\ \A i, j \in 1..Len(forest[t]) : i < j => forest[t][i].hash < forest[t][j].hash
    BY <1>1, ForestTyped DEF LedgerInv, HashesIncrease, Leaf
  <2>2. CASE t # T
    <3>1. forest'[t] = forest[t]
      BY <1>6, <2>2
    <3>2. \A i \in 1..Len(forest[t]) : forest[t][i].hash <= sealed + 1
      BY <1>1, <2>1
    <3>3. QED
      BY <1>3, <2>1, <3>1, <3>2
  <2>3. CASE t = T
    <3> DEFINE n == Len(forest[T])
    <3>1. /\ n \in Nat /\ Len(forest'[T]) = n + 1
          /\ \A i \in 1..n : /\ forest'[T][i].hash = forest[T][i].hash
                             /\ forest[T][i].hash \in Nat
                             /\ forest[T][i].hash <= sealed
          /\ forest'[T][n + 1].hash = sealed + 1
      BY <1>4, <1>5, <1>6, <2>1, <2>3
    <3>2. \A i, j \in 1..n : i < j => forest'[T][i].hash < forest'[T][j].hash
      BY <2>1, <2>3, <3>1
    <3> HIDE DEF n
    <3>3. \A i \in 1..(n + 1) : forest'[T][i].hash <= sealed + 1
      BY <1>1, <3>1
    <3>4. \A i, j \in 1..(n + 1) : i < j => forest'[T][i].hash < forest'[T][j].hash
      <4> SUFFICES ASSUME NEW i \in 1..(n + 1), NEW j \in 1..(n + 1), i < j
                   PROVE  forest'[T][i].hash < forest'[T][j].hash
        OBVIOUS
      <4>1. CASE j \in 1..n
        <5>1. i \in 1..n
          BY <3>1, <4>1
        <5>2. QED
          BY <3>2, <4>1, <5>1
      <4>2. CASE j = n + 1
        <5>1. i \in 1..n
          BY <3>1, <4>2
        <5>2. forest'[T][i].hash <= sealed /\ forest'[T][i].hash \in Nat
          BY <3>1, <5>1
        <5>3. forest'[T][j].hash = sealed + 1
          BY <3>1, <4>2
        <5>4. QED
          BY <1>1, <5>2, <5>3
      <4>3. QED
        BY <3>1, <4>1, <4>2
    <3>5. QED
      BY <1>3, <2>3, <3>1, <3>3, <3>4
  <2>4. QED
    BY <2>2, <2>3
<1>10. CallsSound'
  <2> SUFFICES ASSUME NEW d \in Callers
               PROVE  /\ call'[d].phase = "read" =>
                            \/ call'[d].parent = NoParent
                            \/ \E j \in 1..Len(forest'[TenantOf[call'[d].request]]) :
                                   forest'[TenantOf[call'[d].request]][j].hash = call'[d].parent
                      /\ call'[d].phase = "stored" =>
                            \E j \in 1..Len(forest'[TenantOf[call'[d].leaf.request]]) :
                                forest'[TenantOf[call'[d].leaf.request]][j] = call'[d].leaf
    BY DEF CallsSound
  <2>1. CASE d = c
    <3>1. call'[d] = [phase |-> "stored", leaf |-> leaf]
      BY <1>1, <1>3, <2>1 DEF LedgerTypeOK
    <3>2. Len(forest[T]) + 1 \in 1..Len(forest'[T])
      BY <1>4, <1>6
    <3>3. TenantOf[leaf.request] = T
      BY <1>5 DEF T
    <3>4. QED
      BY <3>1, <3>2, <3>3, <1>6
  <2>2. CASE d # c
    <3>1. call'[d] = call[d]
      BY <1>1, <1>3, <2>2 DEF LedgerTypeOK
    <3>2. ASSUME call[d].phase = "read", call[d].parent # NoParent
          PROVE  \E j \in 1..Len(forest'[TenantOf[call[d].request]]) :
                     forest'[TenantOf[call[d].request]][j].hash = call[d].parent
      <4>1. TenantOf[call[d].request] \in Tenants
        BY <1>1, <3>2, CallFields, LedgerAssumption DEF LedgerAssumption
      <4>2. PICK j \in 1..Len(forest[TenantOf[call[d].request]]) :
                     forest[TenantOf[call[d].request]][j].hash = call[d].parent
        BY <3>2 DEF LedgerInv, CallsSound
      <4>3. QED
        BY <4>1, <4>2, <1>7
    <3>3. ASSUME call[d].phase = "stored"
          PROVE  \E j \in 1..Len(forest'[TenantOf[call[d].leaf.request]]) :
                     forest'[TenantOf[call[d].leaf.request]][j] = call[d].leaf
      <4>1. TenantOf[call[d].leaf.request] \in Tenants
        BY <1>1, <3>3, CallFields, LedgerAssumption DEF LedgerAssumption, Leaf
      <4>2. PICK j \in 1..Len(forest[TenantOf[call[d].leaf.request]]) :
                     forest[TenantOf[call[d].leaf.request]][j] = call[d].leaf
        BY <3>3 DEF LedgerInv, CallsSound
      <4>3. QED
        BY <4>1, <4>2, <1>7
    <3>4. QED
      BY <3>1, <3>2, <3>3
  <2>3. QED
    BY <2>1, <2>2
<1>11. ParentIsEarlier'
  <2> SUFFICES ASSUME NEW t \in Tenants, NEW i \in DOMAIN forest'[t]
               PROVE  \/ forest'[t][i].parent = NoParent
                      \/ \E j \in 1..(i - 1) : forest'[t][j].hash = forest'[t][i].parent
    BY DEF ParentIsEarlier
  <2>1. DOMAIN forest'[t] = 1..Len(forest'[t]) /\ DOMAIN forest[t] = 1..Len(forest[t])
    BY <1>1, <1>8, ForestTyped DEF LedgerTypeOK
  <2>2. CASE i \in 1..Len(forest[t])
    <3>1. \A j \in 1..i : forest'[t][j] = forest[t][j]
      BY <1>7, <2>2
    <3>2. \/ forest[t][i].parent = NoParent
          \/ \E j \in 1..(i - 1) : forest[t][j].hash = forest[t][i].parent
      BY <2>1, <2>2 DEF LedgerInv, ParentIsEarlier
    <3>3. \A j \in 1..(i - 1) : j \in 1..i
      BY <2>2
    <3>4. i \in 1..i
      BY <2>2
    <3>5. QED
      BY <3>1, <3>2, <3>3, <3>4
  <2>3. CASE i \notin 1..Len(forest[t])
    <3>1. t = T /\ i = Len(forest[T]) + 1
      BY <2>1, <2>3, <1>2, <1>4, <1>6
    <3>2. (i - 1) = Len(forest[T]) /\ forest'[t][i].parent = p
      BY <3>1, <1>4, <1>5, <1>6
    <3>3. QED
      BY <3>1, <3>2, <1>4, <1>6
  <2>4. QED
    BY <2>2, <2>3
<1>12. ReceiptsProve'
  <2> SUFFICES ASSUME NEW receipt \in receipts
               PROVE  Proves(receipt, forest'[receipt.tenant])
    BY <1>3 DEF ReceiptsProve, Proves
  <2>1. /\ receipt.tenant \in Tenants
        /\ Len(receipt.root) \in Nat /\ Len(receipt.inclusionProof) \in Nat
    BY <1>1 DEF LedgerTypeOK, Receipt
  <2>2. Proves(receipt, forest[receipt.tenant])
    BY DEF LedgerInv, ReceiptsProve
  <2>3. Len(receipt.inclusionProof) + 1 \in 1..Len(forest[receipt.tenant])
    BY <2>1, <2>2, <1>7 DEF Proves
  <2> DEFINE old == forest[receipt.tenant]
             new == forest'[receipt.tenant]
  <2>4. /\ Len(old) \in Nat /\ Len(new) \in Nat /\ Len(old) <= Len(new)
        /\ \A i \in 1..Len(old) : new[i] = old[i]
    BY <2>1, <1>7
  <2> HIDE DEF old, new
  <2>5. Proves(receipt, old)
    BY <2>2 DEF old
  <2>6. Len(receipt.inclusionProof) + 1 \in 1..Len(old)
    BY <2>3 DEF old
  <2>7. new[Len(receipt.inclusionProof) + 1] = receipt.leaf
    BY <2>4, <2>5, <2>6 DEF Proves
  <2>8. Len(receipt.root) <= Len(new)
    BY <2>1, <2>4, <2>5 DEF Proves
  <2>9. \A i \in 1..Len(receipt.root) : receipt.root[i] = new[i].hash
    BY <2>1, <2>4, <2>5 DEF Proves
  <2>10. \A i \in 1..Len(receipt.inclusionProof) : receipt.inclusionProof[i] = new[i].hash
    BY <2>1, <2>4, <2>5 DEF Proves
  <2>11. Proves(receipt, new)
    BY <2>5, <2>7, <2>8, <2>9, <2>10 DEF Proves
  <2>12. QED
    BY <2>11 DEF new
<1>13. QED
  BY <1>8, <1>9, <1>10, <1>11, <1>12 DEF LedgerInv

(* A call that ends leaves the others as they are. *)
LEMMA EndingACall ==
    ASSUME LedgerInv, NEW c \in Callers, UNCHANGED forest, call' = [call EXCEPT ![c] = Idle]
    PROVE  call' \in [Callers -> Call] /\ CallsSound'
<1>1. call \in [Callers -> Call]
  BY DEF LedgerInv, LedgerTypeOK
<1>2. call' \in [Callers -> Call]
  BY <1>1 DEF Call
<1>3. ASSUME NEW d \in Callers
      PROVE  call'[d] = call[d] \/ call'[d].phase = "idle"
  BY <1>1 DEF Idle
<1>4. CallsSound
  BY DEF LedgerInv
<1>5. QED
  BY <1>2, <1>3, <1>4 DEF CallsSound

(* Replying: the root lists the whole forest of this moment, and the leaf  *)
(* is in it, wherever the etches that ran meanwhile have put theirs.       *)
LEMMA ReplyKeeps ==
    ASSUME LedgerInv, NEW c \in Callers, Reply(c)
    PROVE  LedgerInv'
<1> DEFINE leaf == call[c].leaf
           t == TenantOf[leaf.request]
<1>1. LedgerTypeOK /\ call[c].phase = "stored"
  BY DEF LedgerInv, Reply
<1>2. leaf \in Leaf /\ t \in Tenants
  BY <1>1, CallFields, LedgerAssumption DEF Leaf, LedgerAssumption
<1>3. \E j \in 1..Len(forest[t]) : forest[t][j] = leaf
  BY <1>1 DEF LedgerInv, CallsSound
<1>4. /\ receipts' = receipts \cup {ReceiptFor(leaf)}
      /\ call' = [call EXCEPT ![c] = Idle]
      /\ sealed' = sealed /\ forest' = forest
  BY DEF Reply
<1>5. ReceiptFor(leaf) = [tenant |-> t, leaf |-> leaf, root |-> HashesOf(forest[t]),
                          inclusionProof |-> InclusionProof(t, leaf)]
  BY DEF ReceiptFor
<1> HIDE DEF leaf, t
<1>6. /\ HashesOf(forest[t]) \in Seq(Nat)
      /\ Len(HashesOf(forest[t])) = Len(forest[t])
      /\ Len(forest[t]) \in Nat
      /\ \A i \in 1..Len(forest[t]) : HashesOf(forest[t])[i] = forest[t][i].hash
  BY <1>1, <1>2, ForestTyped
<1>7. /\ InclusionProof(t, leaf) \in Seq(Nat)
      /\ Len(InclusionProof(t, leaf)) < Len(forest[t])
      /\ \A i \in 1..Len(InclusionProof(t, leaf)) : InclusionProof(t, leaf)[i] = forest[t][i].hash
      /\ forest[t][Len(InclusionProof(t, leaf)) + 1] = leaf
  BY <1>1, <1>2, <1>3, InclusionProofOfStored
<1>8. ReceiptFor(leaf) \in Receipt
  BY <1>2, <1>5, <1>6, <1>7 DEF Receipt
<1>9. Proves(ReceiptFor(leaf), forest[t]) /\ ReceiptFor(leaf).tenant = t
  BY <1>5, <1>6, <1>7 DEF Proves
<1>10. call' \in [Callers -> Call] /\ CallsSound'
  BY <1>4, EndingACall
<1>11. LedgerTypeOK'
  BY <1>1, <1>4, <1>8, <1>10 DEF LedgerTypeOK
<1>12. ReceiptsProve'
  BY <1>4, <1>9 DEF LedgerInv, ReceiptsProve, Proves
<1>13. QED
  BY <1>4, <1>10, <1>11, <1>12 DEF LedgerInv, HashesIncrease, ParentIsEarlier

(* A lost reply leaves the leaf and gives no receipt. *)
LEMMA LoseReplyKeeps ==
    ASSUME LedgerInv, NEW c \in Callers, LoseReply(c)
    PROVE  LedgerInv'
<1>1. /\ call' = [call EXCEPT ![c] = Idle]
      /\ UNCHANGED <<sealed, forest, receipts>>
  BY DEF LoseReply
<1>2. call' \in [Callers -> Call] /\ CallsSound'
  BY <1>1, EndingACall
<1>3. LedgerTypeOK'
  BY <1>1, <1>2 DEF LedgerInv, LedgerTypeOK
<1>4. QED
  BY <1>1, <1>2, <1>3 DEF LedgerInv, HashesIncrease, ParentIsEarlier, ReceiptsProve, Proves

(* Every step keeps the invariant. *)
LEMMA LedgerInvStep == LedgerInv /\ [LedgerNext]_ledgerVars => LedgerInv'
<1> SUFFICES ASSUME LedgerInv, [LedgerNext]_ledgerVars PROVE LedgerInv'
  OBVIOUS
<1>1. ASSUME NEW c \in Callers, NEW r \in Requests, ReadParent(c, r) PROVE LedgerInv'
  BY <1>1, ReadParentKeeps
<1>2. ASSUME NEW c \in Callers, StoreLeaf(c) PROVE LedgerInv'
  BY <1>2, StoreLeafKeeps
<1>3. ASSUME NEW c \in Callers, Reply(c) PROVE LedgerInv'
  BY <1>3, ReplyKeeps
<1>4. ASSUME NEW c \in Callers, LoseReply(c) PROVE LedgerInv'
  BY <1>4, LoseReplyKeeps
<1>5. CASE UNCHANGED ledgerVars
  BY <1>5 DEF ledgerVars, LedgerInv, LedgerTypeOK, HashesIncrease, CallsSound,
              ParentIsEarlier, ReceiptsProve, Proves
<1>6. QED
  BY <1>1, <1>2, <1>3, <1>4, <1>5 DEF LedgerNext

(* The invariant holds for ever. *)
LEMMA LedgerInvHolds == LedgerSpec => []LedgerInv
<1>1. QED
  BY LedgerInvInit, LedgerInvStep, PTL DEF LedgerSpec

-----------------------------------------------------------------------------
(* Every leaf lies in the list of its own tenant, and the rest has its type. *)
THEOREM LedgerTyped == LedgerSpec => []LedgerTypeOK
<1>1. LedgerInv => LedgerTypeOK
  BY DEF LedgerInv
<1>2. QED
  BY <1>1, LedgerInvHolds, PTL

(* Overlapping etches may give two leaves one parent, but never a parent   *)
(* of another tenant, one that is not stored, or a later one: exports can  *)
(* always be checked backwards.                                            *)
THEOREM ParentsAreEarlier == LedgerSpec => []ParentIsEarlier
<1>1. LedgerInv => ParentIsEarlier
  BY DEF LedgerInv
<1>2. QED
  BY <1>1, LedgerInvHolds, PTL

(* A sequence whose places another repeats is its beginning. *)
LEMMA SamePlacesArePrefix ==
    ASSUME NEW s \in Seq(Nat), NEW u \in Seq(Nat), Len(s) <= Len(u),
           \A i \in 1..Len(s) : s[i] = u[i]
    PROVE  IsPrefix(s, u)
<1>1. Len(s) \in Nat /\ Len(u) \in Nat /\ SubSeq(s, 1, Len(s)) = s
  BY LenProperties, SubSeqFull
<1>2. \A i \in 1..Len(s) : u[i] \in Nat
  BY <1>1
<1>3. /\ SubSeq(u, 1, Len(s)) \in Seq(Nat)
      /\ Len(SubSeq(u, 1, Len(s))) = Len(s)
      /\ \A i \in 1..Len(s) : SubSeq(u, 1, Len(s))[i] = u[i]
  <2>1. 1 \in Int /\ Len(s) \in Int
    BY <1>1
  <2>2. /\ SubSeq(u, 1, Len(s)) \in Seq(Nat)
        /\ Len(SubSeq(u, 1, Len(s))) = IF 1 <= Len(s) THEN Len(s) - 1 + 1 ELSE 0
        /\ \A i \in 1..(Len(s) - 1 + 1) : SubSeq(u, 1, Len(s))[i] = u[1 + i - 1]
    BY SMTT(30), <1>2, <2>1, SubSeqProperties
  <2>3. QED
    BY <1>1, <2>2
<1>4. SubSeq(u, 1, Len(s)) = s
  BY <1>1, <1>3, SeqEqual
<1>5. QED
  BY <1>1, <1>4 DEF IsPrefix

(* A receipt that proves its leaf is one in the sense of the property. *)
LEMMA ProvingReceipts ==
    ASSUME LedgerInv, NEW receipt \in receipts
    PROVE  LET leaves == forest[receipt.tenant]
           IN  /\ IsPrefix(receipt.root, HashesOf(leaves))
               /\ IsPrefix(Append(receipt.inclusionProof, receipt.leaf.hash), receipt.root)
<1> DEFINE leaves == forest[receipt.tenant]
           root == receipt.root
           proof == receipt.inclusionProof
<1>1. /\ receipt.tenant \in Tenants /\ root \in Seq(Nat) /\ proof \in Seq(Nat)
      /\ receipt.leaf.hash \in Nat
  BY DEF LedgerInv, LedgerTypeOK, Receipt, Leaf
<1>2. /\ HashesOf(leaves) \in Seq(Nat) /\ Len(HashesOf(leaves)) = Len(leaves)
      /\ \A i \in 1..Len(leaves) : HashesOf(leaves)[i] = leaves[i].hash
      /\ Len(leaves) \in Nat
  BY <1>1, ForestTyped DEF LedgerInv
<1>3. /\ Len(root) <= Len(leaves)
      /\ \A i \in 1..Len(root) : root[i] = leaves[i].hash
      /\ Len(proof) < Len(root)
      /\ \A i \in 1..Len(proof) : proof[i] = leaves[i].hash
      /\ leaves[Len(proof) + 1] = receipt.leaf
  BY DEF LedgerInv, ReceiptsProve, Proves
<1> HIDE DEF leaves, root, proof
<1>4. Len(root) \in Nat /\ Len(proof) \in Nat
  BY <1>1
<1>5. IsPrefix(root, HashesOf(leaves))
  <2>1. \A i \in 1..Len(root) : root[i] = HashesOf(leaves)[i]
    BY <1>2, <1>3, <1>4
  <2>2. QED
    BY <1>1, <1>2, <1>3, <2>1, SamePlacesArePrefix
<1>6. IsPrefix(Append(proof, receipt.leaf.hash), root)
  <2> DEFINE path == Append(proof, receipt.leaf.hash)
  <2>1. /\ path \in Seq(Nat) /\ Len(path) = Len(proof) + 1
        /\ \A i \in 1..Len(proof) : path[i] = proof[i]
        /\ path[Len(proof) + 1] = receipt.leaf.hash
    BY <1>1, AppendProperties
  <2> HIDE DEF path
  <2>2. Len(path) <= Len(root)
    BY <1>3, <1>4, <2>1
  <2>3. \A i \in 1..Len(path) : path[i] = root[i]
    BY SMTT(30), <1>3, <1>4, <2>1
  <2>4. IsPrefix(path, root)
    BY <1>1, <2>1, <2>2, <2>3, SamePlacesArePrefix
  <2>5. QED
    BY <2>4 DEF path
<1>7. QED
  BY <1>5, <1>6 DEF leaves, root, proof

(* However many etches of other callers are stored between an etch's leaf  *)
(* and its receipt, and after it: the root a receipt carries is the        *)
(* beginning of the forest, and its proof with its leaf that of the root.  *)
THEOREM ReceiptsAreProofs == LedgerSpec => []ReceiptsStayProofs
<1>1. LedgerInv => ReceiptsStayProofs
  BY ProvingReceipts DEF ReceiptsStayProofs
<1>2. QED
  BY <1>1, LedgerInvHolds, PTL

(* A stored leaf lies in one place, so there is one proof of it. *)
LEMMA OneProof ==
    ASSUME LedgerInv, NEW t \in Tenants, NEW proof \in Seq(Nat),
           Len(proof) < Len(forest[t]),
           \A i \in 1..Len(proof) : proof[i] = forest[t][i].hash
    PROVE  proof = InclusionProof(t, forest[t][Len(proof) + 1])
<1> DEFINE n == Len(proof)
           leaf == forest[t][n + 1]
           other == InclusionProof(t, leaf)
           m == Len(other)
<1>1. LedgerTypeOK /\ n \in Nat /\ Len(forest[t]) \in Nat /\ n + 1 \in 1..Len(forest[t])
  <2>1. LedgerTypeOK /\ Len(forest[t]) \in Nat
    BY ForestTyped DEF LedgerInv
  <2>2. n \in Nat
    OBVIOUS
  <2>3. QED
    BY <2>1, <2>2
<1>2. \E j \in 1..Len(forest[t]) : forest[t][j] = leaf
  BY <1>1
<1> HIDE DEF n, leaf
<1>3. /\ other \in Seq(Nat) /\ m < Len(forest[t])
      /\ \A i \in 1..m : other[i] = forest[t][i].hash
      /\ forest[t][m + 1] = leaf
  BY <1>1, <1>2, InclusionProofOfStored
<1> HIDE DEF other
<1>4. m \in Nat /\ m + 1 \in 1..Len(forest[t])
  BY <1>1, <1>3
<1> HIDE DEF m
<1>5. forest[t][n + 1].hash = forest[t][m + 1].hash /\ forest[t][n + 1].hash \in Nat
  BY <1>1, <1>3, ForestTyped DEF leaf, Leaf
<1>6. \A i, j \in 1..Len(forest[t]) : i < j => forest[t][i].hash < forest[t][j].hash
  BY DEF LedgerInv, HashesIncrease
<1>7. \A i \in 1..Len(forest[t]) : forest[t][i].hash \in Nat
  BY <1>1, ForestTyped DEF Leaf
<1>8. ~(n + 1 < m + 1) /\ ~(m + 1 < n + 1)
  BY <1>1, <1>4, <1>5, <1>6, <1>7
<1>9. n = m
  BY <1>1, <1>4, <1>8
<1>10. proof = other
  <2>1. Len(proof) = Len(other) /\ \A i \in 1..Len(proof) : proof[i] = other[i]
    BY <1>3, <1>9 DEF n, m
  <2>2. QED
    BY <2>1, <1>3, SeqEqual
<1>11. QED
  BY <1>10 DEF other, leaf, n

(* A receipt that proves its leaf verifies while its root lists the whole  *)
(* forest, and only then.                                                  *)
LEMMA VerifiesAtItsRoot ==
    ASSUME LedgerInv, NEW receipt \in receipts
    PROVE  VerifyReceipt(receipt) <=> Len(receipt.root) = Len(forest[receipt.tenant])
<1> DEFINE t == receipt.tenant
           n == Len(receipt.inclusionProof)
<1>1. /\ t \in Tenants /\ receipt.root \in Seq(Nat) /\ receipt.inclusionProof \in Seq(Nat)
      /\ Len(receipt.root) \in Nat /\ n \in Nat
  BY DEF LedgerInv, LedgerTypeOK, Receipt
<1>2. /\ HashesOf(forest[t]) \in Seq(Nat) /\ Len(HashesOf(forest[t])) = Len(forest[t])
      /\ \A i \in 1..Len(forest[t]) : HashesOf(forest[t])[i] = forest[t][i].hash
      /\ Len(forest[t]) \in Nat /\ DOMAIN forest[t] = 1..Len(forest[t])
  BY <1>1, ForestTyped DEF LedgerInv
<1>3. Proves(receipt, forest[t])
  BY DEF LedgerInv, ReceiptsProve
<1>4. /\ Len(receipt.root) <= Len(forest[t])
      /\ \A i \in 1..Len(receipt.root) : receipt.root[i] = forest[t][i].hash
      /\ n < Len(receipt.root)
      /\ \A i \in 1..n : receipt.inclusionProof[i] = forest[t][i].hash
      /\ forest[t][n + 1] = receipt.leaf
  BY <1>3 DEF Proves
<1>5. n < Len(forest[t]) /\ n + 1 \in DOMAIN forest[t]
  <2> HIDE DEF n, t
  <2>1. n < Len(forest[t]) /\ n + 1 \in 1..Len(forest[t])
    BY SMTT(30), <1>1, <1>2, <1>4
  <2>2. QED
    BY <2>1, <1>2
<1>6. receipt.inclusionProof = InclusionProof(t, receipt.leaf)
  BY <1>1, <1>4, <1>5, OneProof
<1>7. \E i \in DOMAIN forest[t] : forest[t][i] = receipt.leaf
  BY <1>4, <1>5
<1>8. Len(receipt.root) = Len(forest[t]) => receipt.root = HashesOf(forest[t])
  <2> SUFFICES ASSUME Len(receipt.root) = Len(forest[t])
               PROVE  receipt.root = HashesOf(forest[t])
    OBVIOUS
  <2>1. /\ Len(receipt.root) = Len(HashesOf(forest[t]))
        /\ \A i \in 1..Len(receipt.root) : receipt.root[i] = HashesOf(forest[t])[i]
    BY <1>2, <1>4
  <2>2. QED
    BY <1>1, <1>2, <2>1, SeqEqual
<1>9. receipt.root = HashesOf(forest[t]) => Len(receipt.root) = Len(forest[t])
  BY <1>2
<1>10. QED
  BY <1>6, <1>7, <1>8, <1>9 DEF VerifyReceipt

(* verifyReceipt accepts a receipt exactly until the next etch of its      *)
(* tenant is stored, whichever etches overlapped its making.               *)
THEOREM ReceiptsExpireWithTheNextEtch == LedgerSpec => []ReceiptValidUntilNextEtch
<1>1. LedgerInv => ReceiptValidUntilNextEtch
  BY VerifiesAtItsRoot DEF ReceiptValidUntilNextEtch
<1>2. QED
  BY <1>1, LedgerInvHolds, PTL

-----------------------------------------------------------------------------
(* Sequences: the operators of the forwarder's queues. *)

(* Every set of numbers that is not empty has a smallest.                  *)
LEMMA LeastNumber ==
    ASSUME NEW S \in SUBSET Nat, S # {}
    PROVE  \E x \in S : \A y \in S : x <= y
<1> DEFINE R == {p \in Nat \X Nat : p[1] < p[2]}
<1>1. IsWellFoundedOn(R, Nat)
  BY NatLessThanWellFounded DEF OpToRel
<1>2. \A p : p \in R <=> p \in Nat \X Nat /\ p[1] < p[2]
  OBVIOUS
<1> HIDE DEF R
<1>3. PICK x \in S : \A y \in S : ~ (<<y, x>> \in R)
  BY <1>1, WFMin
<1>4. \A y \in S : ~ (y < x)
  BY <1>2, <1>3
<1> QED BY <1>4

(* What is appended to a queue is in it, with all that was.                *)
LEMMA ContainsAppended ==
    ASSUME NEW S, NEW s \in Seq(S), NEW e \in S, NEW x
    PROVE  Contains(Append(s, e), x) <=> Contains(s, x) \/ x = e
BY DEF Contains

(* A queue is its first item and the others.                               *)
LEMMA ContainsTail ==
    ASSUME NEW S, NEW s \in Seq(S), s # <<>>, NEW x
    PROVE  /\ Head(s) \in S /\ Tail(s) \in Seq(S)
           /\ Contains(s, x) <=> x = Head(s) \/ Contains(Tail(s), x)
<1>1. /\ Len(s) \in Nat \ {0} /\ Head(s) = s[1] /\ Len(Tail(s)) = Len(s) - 1
      /\ \A i \in 1..(Len(s) - 1) : Tail(s)[i] = s[i + 1]
  OBVIOUS
<1> DEFINE u == Tail(s)
           n == Len(s)
<1>2. u \in Seq(S) /\ s[1] \in S
  OBVIOUS
<1>3. n \in Nat \ {0} /\ Len(u) = n - 1 /\ \A i \in 1..(n - 1) : u[i] = s[i + 1]
  BY <1>1
<1> HIDE DEF u, n
<1>4. ASSUME NEW i \in 1..n PROVE i = 1 \/ (i - 1 \in 1..(n - 1) /\ u[i - 1] = s[i])
  <2>1. i # 1 => i - 1 \in 1..(n - 1) /\ (i - 1) + 1 = i
    BY <1>3
  <2> QED BY <1>3, <2>1
<1>5. \A i \in 1..(n - 1) : i + 1 \in 1..n
  BY <1>3
<1>6. (\E i \in 1..n : s[i] = x) <=> (x = s[1] \/ \E i \in 1..(n - 1) : u[i] = x)
  <2>1. ASSUME NEW i \in 1..n, s[i] = x PROVE x = s[1] \/ \E j \in 1..(n - 1) : u[j] = x
    BY <1>4, <2>1
  <2>2. ASSUME NEW i \in 1..(n - 1), u[i] = x PROVE \E j \in 1..n : s[j] = x
    BY <1>3, <1>5, <2>2
  <2>3. x = s[1] => \E j \in 1..n : s[j] = x
    BY <1>3
  <2> QED BY <2>1, <2>2, <2>3
<1>7. Contains(s, x) <=> \E i \in 1..n : s[i] = x
  BY DEF Contains, n
<1>8. Contains(u, x) <=> \E i \in 1..(n - 1) : u[i] = x
  BY <1>3 DEF Contains
<1> QED BY <1>1, <1>2, <1>6, <1>7, <1>8 DEF u

(* Taking an item out of the queue leaves all others in it.                *)
LEMMA WithoutKeeps ==
    ASSUME NEW S, NEW s \in Seq(S), NEW e
    PROVE  /\ Without(s, e) \in Seq(S)
           /\ \A x : Contains(s, x) => x = e \/ Contains(Without(s, e), x)
<1>1. CASE ~Contains(s, e)
  BY <1>1 DEF Without
<1>2. CASE Contains(s, e)
  <2> DEFINE I == {i \in 1..Len(s) : s[i] = e}
             k == SelectInSeq(s, LAMBDA v : v = e)
  <2>1. I # {} /\ I \in SUBSET Nat
    BY <1>2 DEF Contains
  <2>2. PICK m \in I : \A j \in I : m <= j
    BY <2>1, LeastNumber
  <2>3. k = Min(I)
    BY <2>1 DEF SelectInSeq
  <2>4. k \in I
    BY <2>2, <2>3 DEF Min
  <2>5. Without(s, e) = SubSeq(s, 1, k - 1) \o SubSeq(s, k + 1, Len(s))
    BY <1>2 DEF Without, RemoveFirst, RemoveAt, Contains
  <2> HIDE DEF k
  <2>6. k \in 1..Len(s) /\ s[k] = e /\ Len(s) \in Nat
    BY <2>4
  <2> DEFINE a == SubSeq(s, 1, k - 1)
             b == SubSeq(s, k + 1, Len(s))
  <2>7. /\ a \in Seq(S) /\ Len(a) = k - 1 /\ \A i \in 1..(k - 1) : a[i] = s[i]
        /\ b \in Seq(S) /\ Len(b) = Len(s) - k /\ \A i \in 1..(Len(s) - k) : b[i] = s[k + i]
    BY <2>6
  <2> HIDE DEF a, b
  <2>8. /\ a \o b \in Seq(S) /\ Len(a \o b) = Len(s) - 1
        /\ \A i \in 1..(Len(s) - 1) : (a \o b)[i] = IF i <= k - 1 THEN a[i] ELSE b[i - (k - 1)]
    <3>1. PICK p \in Seq(S), q \in Seq(S) : p = a /\ q = b
      BY <2>7
    <3>2. Len(p) = k - 1 /\ Len(q) = Len(s) - k /\ k \in Nat /\ Len(s) \in Nat
      BY <2>6, <2>7, <3>1
    <3>3. p \o q \in Seq(S) /\ Len(p \o q) = Len(p) + Len(q)
      OBVIOUS
    <3>4. \A i \in 1..(Len(p) + Len(q)) :
              (p \o q)[i] = IF i <= Len(p) THEN p[i] ELSE q[i - Len(p)]
      OBVIOUS
    <3>5. Len(p) + Len(q) = Len(s) - 1
      BY <3>2
    <3> QED BY <3>1, <3>2, <3>3, <3>4, <3>5
  <2>9. ASSUME NEW x, NEW i \in 1..Len(s), s[i] = x, x # e PROVE Contains(a \o b, x)
    <3>1. CASE i <= k - 1
      <4>1. i \in 1..(k - 1) /\ i \in 1..(Len(s) - 1)
        BY <2>6, <3>1
      <4>2. (a \o b)[i] = x
        BY <2>7, <2>8, <2>9, <3>1, <4>1
      <4> QED BY <2>8, <4>1, <4>2 DEF Contains
    <3>2. CASE i >= k + 1
      <4>1. i - 1 \in 1..(Len(s) - 1) /\ i - k \in 1..(Len(s) - k) /\ ~(i - 1 <= k - 1)
            /\ (i - 1) - (k - 1) = i - k /\ k + (i - k) = i
        BY <2>6, <3>2
      <4>2. (a \o b)[i - 1] = b[i - k] /\ b[i - k] = x
        BY <2>7, <2>8, <2>9, <4>1
      <4> QED BY <2>8, <4>1, <4>2 DEF Contains
    <3>3. i # k
      BY <2>6, <2>9
    <3> QED BY <2>6, <3>1, <3>2, <3>3
  <2>10. Without(s, e) = a \o b
    BY <2>5 DEF a, b
  <2> QED BY <2>8, <2>9, <2>10 DEF Contains
<1> QED BY <1>1, <1>2

(* A sequence of values, each made of the one before it, exists.           *)
StepsExist(n, S, start, step) ==
    \E f \in [0..n -> S] : f[0] = start /\ \A i \in 1..n : f[i] = step[<<i, f[i - 1]>>]

LEMMA StepByStep ==
    ASSUME NEW n \in Nat, NEW S, NEW start \in S, NEW step \in [(1..n) \X S -> S]
    PROVE  StepsExist(n, S, start, step)
<1> DEFINE Upto(m, f) == f[0] = start /\ \A i \in 1..m : f[i] = step[<<i, f[i - 1]>>]
           T == {m \in 0..n : ~\E f \in [0..m -> S] : Upto(m, f)}
<1>1. ASSUME T # {} PROVE FALSE
  <2>1. T \in SUBSET Nat
    OBVIOUS
  <2>2. PICK m \in T : \A k \in T : m <= k
    BY <1>1, <2>1, LeastNumber
  <2>3. m \in 0..n /\ ~\E f \in [0..m -> S] : Upto(m, f)
    BY <2>2
  <2>4. CASE m = 0
    <3>1. [i \in 0..0 |-> start] \in [0..0 -> S] /\ Upto(0, [i \in 0..0 |-> start])
      OBVIOUS
    <3> QED BY <2>3, <2>4, <3>1
  <2>5. CASE m # 0
    <3>1. m - 1 \in 0..n /\ ~(m <= m - 1) /\ m \in 1..n
      BY <2>3, <2>5
    <3>2. PICK f \in [0..(m - 1) -> S] : Upto(m - 1, f)
      BY <2>2, <3>1
    <3> DEFINE v == step[<<m, f[m - 1]>>]
               g == [i \in 0..m |-> IF i = m THEN v ELSE f[i]]
    <3>3. f[m - 1] \in S /\ v \in S
      BY <3>1
    <3>4. g \in [0..m -> S]
      BY <2>3, <3>1, <3>3
    <3>5. \A i \in 1..m : i - 1 \in 0..(m - 1) /\ (i = m \/ i \in 1..(m - 1))
      BY <2>3
    <3>6. \A i \in 0..(m - 1) : g[i] = f[i]
      BY <2>3, <3>1
    <3>7. g[0] = start /\ g[m] = v
      BY <2>3, <3>1, <3>2, <3>6
    <3> HIDE DEF g, v
    <3>8. \A i \in 1..(m - 1) : g[i] = f[i] /\ g[i - 1] = f[i - 1]
      BY <2>3, <3>5, <3>6
    <3>9. ASSUME NEW i \in 1..m PROVE g[i] = step[<<i, g[i - 1]>>]
      <4>1. CASE i = m
        BY <3>1, <3>5, <3>6, <3>7, <4>1 DEF v
      <4>2. CASE i \in 1..(m - 1)
        BY <3>2, <3>8, <4>2
      <4> QED BY <3>5, <4>1, <4>2
    <3> QED BY <2>3, <3>4, <3>7, <3>9
  <2> QED BY <2>4, <2>5
<1>2. \A m : m \in T <=> m \in 0..n /\ ~\E f \in [0..m -> S] : Upto(m, f)
  OBVIOUS
<1>3. n \in 0..n
  OBVIOUS
<1> HIDE DEF T
<1>4. n \notin T
  BY <1>1
<1> QED BY <1>2, <1>3, <1>4 DEF StepsExist

(* The items that are due are items of the queue.                          *)
LEMMA ReadyTyped ==
    ASSUME queue \in Seq(Requests)
    PROVE  Ready \in Seq(Requests)
<1> DEFINE n == Len(queue)
           S == Seq(Requests)
           Def(f) == [k \in 0..n |-> IF k = 0 THEN <<>>
                                     ELSE IF due[queue[k]] THEN Append(f[k - 1], queue[k])
                                                           ELSE f[k - 1]]
           step == [p \in (1..n) \X S |->
                       IF due[queue[p[1]]] THEN Append(p[2], queue[p[1]]) ELSE p[2]]
           upTo == CHOOSE f : f = Def(f)
<1>1. n \in Nat /\ <<>> \in S /\ \A k \in 1..n : queue[k] \in Requests
  OBVIOUS
<1>2. step \in [(1..n) \X S -> S]
  BY <1>1
<1>3. \A k \in 1..n : \A s \in S :
          step[<<k, s>>] = IF due[queue[k]] THEN Append(s, queue[k]) ELSE s
  <2>1. ASSUME NEW k \in 1..n, NEW s \in S
        PROVE  step[<<k, s>>] = IF due[queue[k]] THEN Append(s, queue[k]) ELSE s
    <3>1. <<k, s>> \in (1..n) \X S /\ <<k, s>>[1] = k /\ <<k, s>>[2] = s
      OBVIOUS
    <3> HIDE DEF n, S
    <3> QED BY <3>1
  <2> QED BY <2>1
<1> HIDE DEF step
<1>4. PICK f \in [0..n -> S] : f[0] = <<>> /\ \A i \in 1..n : f[i] = step[<<i, f[i - 1]>>]
  <2> HIDE DEF n, S
  <2>1. StepsExist(n, S, <<>>, step)
    BY <1>1, <1>2, StepByStep
  <2> QED BY <2>1 DEF StepsExist
<1>5. ASSUME NEW k \in 0..n PROVE f[k] = Def(f)[k]
  <2>1. CASE k = 0
    <3>1. Def(f)[k] = <<>>
      BY <1>1, <2>1
    <3> QED BY <1>4, <2>1, <3>1
  <2>2. CASE k \in 1..n
    <3>1. k - 1 \in 0..n /\ f[k - 1] \in S /\ k # 0
      <4> HIDE DEF n, S
      <4>1. k - 1 \in 0..n /\ k # 0
        BY <1>1, <2>2
      <4> QED BY <4>1
    <3>2. f[k] = step[<<k, f[k - 1]>>]
      BY <1>4, <2>2
    <3>3. Def(f)[k] = IF due[queue[k]] THEN Append(f[k - 1], queue[k]) ELSE f[k - 1]
      BY <3>1
    <3>4. step[<<k, f[k - 1]>>] = IF due[queue[k]] THEN Append(f[k - 1], queue[k]) ELSE f[k - 1]
      BY <1>3, <2>2, <3>1
    <3> QED BY <3>2, <3>3, <3>4
  <2> QED BY <1>1, <2>1, <2>2
<1>6. f = Def(f)
  <2>1. f = [k \in 0..n |-> f[k]]
    OBVIOUS
  <2> QED BY <1>5, <2>1
<1>7. upTo = Def(upTo)
  BY <1>6
<1>8. Ready = upTo[n]
  BY DEF Ready
<1> HIDE DEF upTo
<1> DEFINE T == {k \in 0..n : upTo[k] \notin S}
<1>9. ASSUME T # {} PROVE FALSE
  <2>1. T \in SUBSET Nat
    BY <1>1
  <2>2. PICK m \in T : \A k \in T : m <= k
    BY <1>9, <2>1, LeastNumber
  <2>3. m \in 0..n /\ upTo[m] \notin S
    BY <2>2
  <2>4. m # 0
    BY <1>1, <1>7, <2>3
  <2>5. m \in 1..n /\ m - 1 \in 0..n /\ ~(m <= m - 1)
    BY <1>1, <2>3, <2>4
  <2>6. upTo[m - 1] \in S
    BY <2>2, <2>5
  <2>7. upTo[m] = IF due[queue[m]] THEN Append(upTo[m - 1], queue[m]) ELSE upTo[m - 1]
    BY <1>7, <2>3, <2>4
  <2> QED BY <1>1, <2>3, <2>5, <2>6, <2>7
<1> QED BY <1>1, <1>8, <1>9

-----------------------------------------------------------------------------
(* The forwarder. *)

(* An etch() under way is that of the item in hand; stop()'s final loop    *)
(* holds one item at a time; what forward() etches directly was never      *)
(* queued.                                                                 *)
EtchesTheItemInHand ==
    \A c \in Callers :
        /\ call[c].phase = "read" => work[c] # <<>> /\ call[c].request = Head(work[c])
        /\ call[c].phase = "stored" => work[c] # <<>> /\ call[c].leaf.request = Head(work[c])
FinalTakesOne == phase = "final" => Len(work[Stopper]) = 1
DirectIsNotQueued == \A r \in Requests : Contains(work[Direct], r) => asked[r] = "direct"

HandsInv == EtchesTheItemInHand /\ FinalTakesOne /\ DirectIsNotQueued

(* Nothing of request r is missing.                                        *)
Kept(r) == Contains(queue, r) \/ InHand(r) \/ Contains(dlq, r) \/ Stored(r)

ForwarderIndInv == LedgerInv /\ ForwarderTypeOK /\ HandsInv /\ NothingForgotten

(* The forwarder touches the ledger through etch() only.                   *)
LEMMA ForwarderStepsLedger ==
    ASSUME ForwarderTypeOK, [ForwarderNext]_allVars
    PROVE  [LedgerNext]_ledgerVars
<1>1. Stopper \in Callers /\ Operator \in Callers /\ Direct \in Callers
  BY ForwarderAssumption
<1>2. \A c \in Callers : work[c] # <<>> => Head(work[c]) \in Requests
  <2>1. ASSUME NEW c \in Callers, work[c] # <<>> PROVE Head(work[c]) \in Requests
    <3>1. work[c] \in Seq(Requests)
      BY DEF ForwarderTypeOK
    <3> QED BY <2>1, <3>1
  <2> QED BY <2>1
<1>3. ASSUME NEW c \in Callers, EtchFails(c) PROVE [LedgerNext]_ledgerVars
  BY <1>3 DEF EtchFails, LedgerNext
<1>4. ASSUME NEW c \in Callers, Reply(c) PROVE [LedgerNext]_ledgerVars
  BY <1>4 DEF LedgerNext
<1>5. ASSUME NEW c \in Callers, LedgerStep(c) PROVE [LedgerNext]_ledgerVars
  BY <1>2, <1>5 DEF LedgerStep, LedgerNext
<1>6. ASSUME NEW r \in Requests, Forward(r) \/ ForwardLate(r) \/ BecomeDue(r)
      PROVE  UNCHANGED ledgerVars
  BY <1>6 DEF Forward, ForwardLate, BecomeDue
<1>7. ASSUME NEW c \in Callers, StartRun(c) PROVE UNCHANGED ledgerVars
  BY <1>7 DEF StartRun
<1>8. RetryDLQ \/ Stop \/ EndDrain => UNCHANGED ledgerVars
  BY DEF RetryDLQ, Stop, EndDrain
<1>9. ASSUME NEW c \in Callers, ItemDone(c) \/ ItemFailed(c) PROVE [LedgerNext]_ledgerVars
  BY <1>3, <1>4, <1>9 DEF ItemDone, ItemFailed
<1>10. RetryDone \/ FinalDone \/ RetryFailed \/ FinalFailed \/ DirectDone => [LedgerNext]_ledgerVars
  BY <1>1, <1>3, <1>4 DEF RetryDone, FinalDone, RetryFailed, FinalFailed, DirectDone
<1>11. UNCHANGED allVars => UNCHANGED ledgerVars
  BY DEF allVars
<1> QED BY <1>5, <1>6, <1>7, <1>8, <1>9, <1>10, <1>11 DEF ForwarderNext

(* What etch() stores it stores for ever.                                  *)
LEMMA StoredStays ==
    ASSUME LedgerInv, [LedgerNext]_ledgerVars, NEW r \in Requests, Stored(r)
    PROVE  Stored(r)'
<1>0. PICK t \in Tenants : \E i \in DOMAIN forest[t] : forest[t][i].request = r
  BY DEF Stored
<1>1. PICK i \in DOMAIN forest[t] : forest[t][i].request = r
  BY <1>0
<1>2. CASE forest' = forest
  BY <1>1, <1>2 DEF Stored
<1>3. ASSUME NEW c \in Callers, StoreLeaf(c) PROVE Stored(r)'
  <2>1. PICK leaf : forest' = AppendLeaf(leaf)
    BY <1>3 DEF StoreLeaf
  <2>2. LedgerTypeOK
    BY DEF LedgerInv
  <2>3. forest[t] \in Seq(Leaf) /\ forest \in [Tenants -> Seq(Leaf)]
    BY <2>2 DEF LedgerTypeOK
  <2>4. forest'[t] = forest[t] \/ forest'[t] = Append(forest[t], leaf)
    BY <2>1, <2>3 DEF AppendLeaf
  <2>5. i \in DOMAIN forest'[t] /\ forest'[t][i] = forest[t][i]
    BY <1>1, <2>3, <2>4
  <2> QED BY <1>1, <2>5 DEF Stored
<1>4. [LedgerNext]_ledgerVars => forest' = forest \/ \E c \in Callers : StoreLeaf(c)
  BY DEF LedgerNext, ReadParent, Reply, LoseReply, ledgerVars
<1> QED BY <1>2, <1>3, <1>4

(* When etch() answers, the leaf of the item in hand is stored.            *)
LEMMA AnsweredIsStored ==
    ASSUME LedgerInv, EtchesTheItemInHand, NEW c \in Callers, Reply(c)
    PROVE  \A r : r = Head(work[c]) => Stored(r)'
<1>1. call[c].phase = "stored" /\ forest' = forest
  BY DEF Reply
<1>2. LedgerTypeOK /\ CallsSound
  BY DEF LedgerInv
<1>3. PICK leaf : leaf = call[c].leaf
  OBVIOUS
<1>4. leaf \in Leaf /\ leaf.request \in Requests /\ TenantOf[leaf.request] \in Tenants
  BY <1>1, <1>2, <1>3, CallFields, LedgerAssumption DEF Leaf
<1>5. PICK j \in 1..Len(forest[TenantOf[leaf.request]]) : forest[TenantOf[leaf.request]][j] = leaf
  BY <1>1, <1>2, <1>3 DEF CallsSound
<1>6. leaf.request = Head(work[c])
  BY <1>1, <1>3 DEF EtchesTheItemInHand
<1>7. forest[TenantOf[leaf.request]] \in Seq(Leaf)
  BY <1>2, <1>4 DEF LedgerTypeOK
<1>8. j \in DOMAIN forest[TenantOf[leaf.request]]
  BY <1>5, <1>7
<1>9. \A r : r = leaf.request => Stored(r)'
  BY <1>1, <1>4, <1>5, <1>8 DEF Stored
<1> QED BY <1>6, <1>9

(* An etch() that ends leaves its caller idle and the leaves as they are.  *)
LEMMA EtchEnds ==
    ASSUME LedgerTypeOK, NEW c \in Callers, Reply(c) \/ EtchFails(c)
    PROVE  /\ \A d \in Callers : call'[d] = IF d = c THEN Idle ELSE call[d]
           /\ forest' = forest
<1>1. call \in [Callers -> Call]
  BY DEF LedgerTypeOK
<1> QED BY <1>1 DEF Reply, EtchFails, LoseReply, ledgerVars

(* A caller that is idle now may have anything in hand.                    *)
LEMMA HandsMove ==
    ASSUME ForwarderTypeOK, EtchesTheItemInHand, NEW c \in Callers, NEW items \in Seq(Requests),
           work' = [work EXCEPT ![c] = items],
           \A d \in Callers : call'[d] = IF d = c THEN Idle ELSE call[d]
    PROVE  /\ work' \in [Callers -> Seq(Requests)]
           /\ \A d \in Callers : work'[d] = IF d = c THEN items ELSE work[d]
           /\ \A d \in Callers : call'[d] # Idle => work'[d] # <<>>
           /\ EtchesTheItemInHand'
           /\ \A r : Contains(items, r) => InHand(r)'
           /\ \A r : InHand(r) => InHand(r)' \/ Contains(work[c], r)
<1>1. work \in [Callers -> Seq(Requests)] /\ \A d \in Callers : call[d] # Idle => work[d] # <<>>
  BY DEF ForwarderTypeOK
<1>2. work' \in [Callers -> Seq(Requests)]
      /\ \A d \in Callers : work'[d] = IF d = c THEN items ELSE work[d]
  BY <1>1
<1>3. \A d \in Callers : call'[d] # Idle => work'[d] # <<>>
  BY <1>1, <1>2
<1>4. EtchesTheItemInHand'
  BY <1>1, <1>2 DEF EtchesTheItemInHand, Idle
<1>5. ASSUME NEW r, Contains(items, r) PROVE InHand(r)'
  <2>1. Contains(work'[c], r)
    BY <1>2, <1>5
  <2> QED BY <2>1 DEF InHand, Contains
<1>6. ASSUME NEW r, InHand(r), ~Contains(work[c], r) PROVE InHand(r)'
  <2>1. PICK d \in Callers : Contains(work[d], r)
    BY <1>6 DEF InHand
  <2>2. d # c /\ work'[d] = work[d]
    BY <1>2, <1>6, <2>1
  <2> QED BY <2>1, <2>2 DEF InHand, Contains
<1> QED BY <1>2, <1>3, <1>4, <1>5, <1>6

(* Nothing in hand changes when no hand does.                              *)
LEMMA HandsRest ==
    ASSUME ForwarderTypeOK, HandsInv, UNCHANGED <<call, work>>, phase' = phase \/ phase' # "final",
           \A r \in Requests : asked[r] = "direct" => asked'[r] = "direct"
    PROVE  HandsInv' /\ \A d \in Callers : call'[d] # Idle => work'[d] # <<>>
BY DEF ForwarderTypeOK, HandsInv, EtchesTheItemInHand, FinalTakesOne, DirectIsNotQueued, Contains

(* forward(), and the passing of time.                                     *)
LEMMA ForwardKeeps ==
    ASSUME ForwarderIndInv, NEW x \in Requests, Forward(x)
    PROVE  ForwarderTypeOK' /\ HandsInv' /\ NothingForgotten'
<1> USE DEF ForwarderIndInv
<1>t. queue \in Seq(Requests) /\ asked \in [Requests -> {"no", "queued", "direct"}]
  BY DEF ForwarderTypeOK
<1>f. /\ queue' = Append(queue, x) /\ asked[x] = "no" /\ asked' = [asked EXCEPT ![x] = "queued"]
      /\ UNCHANGED <<forest, call, work, dlq, phase>>
  BY DEF Forward, ledgerVars
<1>1. HandsInv' /\ \A d \in Callers : call'[d] # Idle => work'[d] # <<>>
  BY <1>t, <1>f, HandsRest
<1>2. ForwarderTypeOK'
  BY <1>1 DEF Forward, ForwarderTypeOK
<1>3. ASSUME NEW r \in Requests, asked'[r] = "queued", phase' # "stopped" PROVE Kept(r)'
  <2>1. \A y : Contains(queue', y) <=> Contains(queue, y) \/ y = x
    BY <1>t, <1>f, ContainsAppended
  <2> QED BY <1>t, <1>f, <1>3, <2>1 DEF NothingForgotten, Kept, InHand, Stored, Contains
<1> QED BY <1>1, <1>2, <1>3 DEF NothingForgotten, Kept

LEMMA ForwardLateKeeps ==
    ASSUME ForwarderIndInv, NEW x \in Requests, ForwardLate(x)
    PROVE  ForwarderTypeOK' /\ HandsInv' /\ NothingForgotten'
<1> USE DEF ForwarderIndInv
<1>t. /\ work \in [Callers -> Seq(Requests)] /\ asked \in [Requests -> {"no", "queued", "direct"}]
      /\ Direct \in Callers /\ Stopper \in Callers /\ Stopper # Direct /\ <<x>> \in Seq(Requests)
  BY ForwarderAssumption DEF ForwarderTypeOK
<1>f. /\ asked[x] = "no" /\ asked' = [asked EXCEPT ![x] = "direct"] /\ work[Direct] = <<>>
      /\ work' = [work EXCEPT ![Direct] = <<x>>]
      /\ UNCHANGED <<forest, call, queue, dlq, attempts, due, phase, place, manual>>
  BY DEF ForwardLate, ledgerVars
<1>i. call[Direct] = Idle
  BY <1>t, <1>f DEF ForwarderTypeOK
<1>m. /\ work' \in [Callers -> Seq(Requests)]
      /\ \A d \in Callers : work'[d] = IF d = Direct THEN <<x>> ELSE work[d]
      /\ \A d \in Callers : call'[d] # Idle => work'[d] # <<>>
      /\ EtchesTheItemInHand'
      /\ \A r : InHand(r) => InHand(r)' \/ Contains(work[Direct], r)
  <2>1. \A d \in Callers : call'[d] = IF d = Direct THEN Idle ELSE call[d]
    BY <1>f, <1>i
  <2>2. EtchesTheItemInHand
    BY DEF HandsInv
  <2> QED BY <1>t, <1>f, <2>1, <2>2, HandsMove
<1>1. ForwarderTypeOK'
  BY <1>f, <1>m DEF ForwarderTypeOK
<1>2. HandsInv'
  <2>1. \A r : Contains(<<x>>, r) <=> r = x
    BY DEF Contains
  <2>2. DirectIsNotQueued'
    BY <1>t, <1>f, <1>m, <2>1 DEF DirectIsNotQueued
  <2>3. FinalTakesOne'
    BY <1>t, <1>f, <1>m DEF HandsInv, FinalTakesOne
  <2> QED BY <1>m, <2>2, <2>3 DEF HandsInv
<1>3. ASSUME NEW r \in Requests, asked'[r] = "queued", phase' # "stopped" PROVE Kept(r)'
  <2>1. asked[r] = "queued" /\ phase # "stopped"
    BY <1>t, <1>f, <1>3
  <2>2. Kept(r) /\ ~Contains(work[Direct], r)
    BY <1>f, <2>1 DEF NothingForgotten, Kept, Contains
  <2> QED BY <1>f, <1>m, <2>2 DEF Kept, Stored
<1> QED BY <1>1, <1>2, <1>3 DEF NothingForgotten, Kept

LEMMA BecomeDueKeeps ==
    ASSUME ForwarderIndInv, NEW x \in Requests, BecomeDue(x)
    PROVE  ForwarderTypeOK' /\ HandsInv' /\ NothingForgotten'
<1> USE DEF ForwarderIndInv
<1>f. UNCHANGED <<forest, call, queue, dlq, attempts, work, asked, phase, place, manual>>
  BY DEF BecomeDue, ledgerVars
<1>1. HandsInv' /\ \A d \in Callers : call'[d] # Idle => work'[d] # <<>>
  BY <1>f, HandsRest
<1>2. ForwarderTypeOK'
  BY <1>f, <1>1 DEF BecomeDue, ForwarderTypeOK
<1> QED BY <1>f, <1>1, <1>2 DEF NothingForgotten, InHand, Stored

(* The next item in hand is no longer in the queue, all others are.        *)
LEMMA TakesNext ==
    ASSUME NEW c \in Callers, NEW q \in Seq(Requests), NEW items \in Seq(Requests),
           TakeNext(c, q, items)
    PROVE  /\ work' = [work EXCEPT ![c] = items] /\ queue' \in Seq(Requests)
           /\ \A r : Contains(q, r) => Contains(queue', r) \/ Contains(items, r)
<1>1. CASE items = <<>>
  BY <1>1 DEF TakeNext
<1>2. CASE items # <<>>
  <2>1. PICK e : e = Head(items)
    OBVIOUS
  <2>2. queue' = Without(q, e)
    BY <1>2, <2>1 DEF TakeNext
  <2>3. Contains(items, e)
    BY <1>2, <2>1, ContainsTail
  <2> QED BY <2>2, <2>3, WithoutKeeps DEF TakeNext
<1> QED BY <1>1, <1>2

(* A run of processQueue() starts.                                         *)
LEMMA StartRunKeeps ==
    ASSUME ForwarderIndInv, NEW c \in Callers, StartRun(c)
    PROVE  ForwarderTypeOK' /\ HandsInv' /\ NothingForgotten'
<1> USE DEF ForwarderIndInv
<1>t. /\ work \in [Callers -> Seq(Requests)] /\ queue \in Seq(Requests) /\ Ready \in Seq(Requests)
      /\ Stopper \in Callers /\ Direct \in Callers /\ c # Direct
      /\ phase = "final" => c # Stopper
  BY ForwarderAssumption, ReadyTyped DEF ForwarderTypeOK, StartRun
<1>f. /\ work[c] = <<>> /\ TakeNext(c, queue, Ready)
      /\ UNCHANGED <<forest, call, dlq, attempts, due, asked, phase, place, manual>>
  BY DEF StartRun, ledgerVars
<1>q. /\ work' = [work EXCEPT ![c] = Ready] /\ queue' \in Seq(Requests)
      /\ \A r : Contains(queue, r) => Contains(queue', r) \/ Contains(Ready, r)
  BY <1>t, <1>f, TakesNext
<1>i. call[c] = Idle
  BY <1>f DEF ForwarderTypeOK
<1>m. /\ work' \in [Callers -> Seq(Requests)]
      /\ \A d \in Callers : work'[d] = IF d = c THEN Ready ELSE work[d]
      /\ \A d \in Callers : call'[d] # Idle => work'[d] # <<>>
      /\ EtchesTheItemInHand'
      /\ \A r : Contains(Ready, r) => InHand(r)'
      /\ \A r : InHand(r) => InHand(r)' \/ Contains(work[c], r)
  <2>1. \A d \in Callers : call'[d] = IF d = c THEN Idle ELSE call[d]
    BY <1>f, <1>i
  <2>2. EtchesTheItemInHand
    BY DEF HandsInv
  <2> QED BY <1>t, <1>q, <2>1, <2>2, HandsMove
<1>1. ForwarderTypeOK'
  BY <1>f, <1>q, <1>m DEF ForwarderTypeOK
<1>2. HandsInv'
  <2>2. DirectIsNotQueued'
    BY <1>t, <1>f, <1>m DEF HandsInv, DirectIsNotQueued
  <2>3. FinalTakesOne'
    BY <1>t, <1>f, <1>m DEF HandsInv, FinalTakesOne
  <2> QED BY <1>m, <2>2, <2>3 DEF HandsInv
<1>3. ASSUME NEW r \in Requests, asked'[r] = "queued", phase' # "stopped" PROVE Kept(r)'
  <2>1. Kept(r) /\ ~Contains(work[c], r)
    BY <1>f, <1>3 DEF NothingForgotten, Kept, Contains
  <2> QED BY <1>f, <1>q, <1>m, <2>1 DEF Kept, Stored
<1> QED BY <1>1, <1>2, <1>3 DEF NothingForgotten, Kept

(* An etch() ends and its caller takes the next of its items: all but the  *)
(* item it had in hand stays in its hands.                                 *)
LEMMA NextInHand ==
    ASSUME ForwarderIndInv, NEW c \in Callers, Reply(c) \/ EtchFails(c), work[c] # <<>>,
           work' = [work EXCEPT ![c] = Tail(work[c])]
    PROVE  /\ work' \in [Callers -> Seq(Requests)] /\ Head(work[c]) \in Requests
           /\ \A d \in Callers : work'[d] = IF d = c THEN Tail(work[c]) ELSE work[d]
           /\ \A d \in Callers : call'[d] # Idle => work'[d] # <<>>
           /\ EtchesTheItemInHand'
           /\ \A r : InHand(r) => InHand(r)' \/ r = Head(work[c])
           /\ \A r : Contains(Tail(work[c]), r) => Contains(work[c], r) /\ InHand(r)'
           /\ \A r : Stored(r) => Stored(r)'
<1> USE DEF ForwarderIndInv
<1>1. work[c] \in Seq(Requests) /\ EtchesTheItemInHand /\ LedgerTypeOK
  BY DEF ForwarderTypeOK, HandsInv, LedgerInv
<1>2. /\ Tail(work[c]) \in Seq(Requests) /\ Head(work[c]) \in Requests
      /\ \A r : Contains(work[c], r) <=> r = Head(work[c]) \/ Contains(Tail(work[c]), r)
  BY <1>1, ContainsTail
<1>3. /\ \A d \in Callers : call'[d] = IF d = c THEN Idle ELSE call[d]
      /\ forest' = forest
  BY <1>1, EtchEnds
<1>4. /\ work' \in [Callers -> Seq(Requests)]
      /\ \A d \in Callers : work'[d] = IF d = c THEN Tail(work[c]) ELSE work[d]
      /\ \A d \in Callers : call'[d] # Idle => work'[d] # <<>>
      /\ EtchesTheItemInHand'
      /\ \A r : Contains(Tail(work[c]), r) => InHand(r)'
      /\ \A r : InHand(r) => InHand(r)' \/ Contains(work[c], r)
  <2> DEFINE items == Tail(work[c])
  <2>1. items \in Seq(Requests) /\ work' = [work EXCEPT ![c] = items]
    BY <1>2
  <2> HIDE DEF items
  <2>2. /\ work' \in [Callers -> Seq(Requests)]
        /\ \A d \in Callers : work'[d] = IF d = c THEN items ELSE work[d]
        /\ \A d \in Callers : call'[d] # Idle => work'[d] # <<>>
        /\ EtchesTheItemInHand'
        /\ \A r : Contains(items, r) => InHand(r)'
        /\ \A r : InHand(r) => InHand(r)' \/ Contains(work[c], r)
    BY <1>1, <1>3, <2>1, HandsMove
  <2> QED BY <2>2 DEF items
<1>5. \A r : Stored(r) => Stored(r)'
  BY <1>3 DEF Stored
<1> QED BY <1>2, <1>4, <1>5

(* The etch() of an item is answered, or it fails.                         *)
LEMMA ItemEnds ==
    ASSUME ForwarderIndInv, NEW c \in Callers, ItemDone(c) \/ ItemFailed(c)
    PROVE  ForwarderTypeOK' /\ HandsInv' /\ NothingForgotten'
<1> USE DEF ForwarderIndInv
<1>p. /\ work[c] # <<>> /\ (Reply(c) \/ EtchFails(c)) /\ (c \in Runs \/ c = Stopper)
      /\ (phase = "final" => c # Stopper) /\ UNCHANGED <<asked, phase, place, manual>>
  BY ForwarderAssumption DEF ItemDone, ItemFailed, Processing
<1>t. /\ queue \in Seq(Requests) /\ dlq \in Seq(Requests) /\ attempts \in [Requests -> Nat]
      /\ due \in [Requests -> BOOLEAN] /\ work[c] \in Seq(Requests)
      /\ Direct \in Callers /\ Stopper \in Callers /\ c # Direct
  BY <1>p, ForwarderAssumption DEF ForwarderTypeOK
<1>h. PICK h : h = Head(work[c])
  OBVIOUS
<1>k. h \in Requests /\ Tail(work[c]) \in Seq(Requests)
  BY <1>t, <1>p, <1>h, ContainsTail
<1>q. PICK q \in Seq(Requests) : /\ TakeNext(c, q, Tail(work[c]))
                                 /\ \A r : Contains(queue, r) => Contains(q, r)
                                 /\ \/ q = Append(queue, h) /\ dlq' = dlq
                                    \/ q = queue /\ dlq' = Append(dlq, h)
                                    \/ q = queue /\ dlq' = dlq /\ Reply(c)
  <2>1. \A r : Contains(queue, r) => Contains(Append(queue, h), r)
    BY <1>t, <1>k, ContainsAppended
  <2>2. CASE ItemDone(c)
    BY <1>t, <2>2 DEF ItemDone
  <2>3. CASE ItemFailed(c)
    <3>1. Requeue(c, h)
      BY <1>h, <2>3 DEF ItemFailed
    <3>4. \/ dlq' = Append(dlq, h) /\ TakeNext(c, queue, Tail(work[c]))
          \/ dlq' = dlq /\ TakeNext(c, Append(queue, h), Tail(work[c]))
      BY <3>1 DEF Requeue
    <3>2. CASE dlq' = Append(dlq, h) /\ TakeNext(c, queue, Tail(work[c]))
      BY <1>t, <3>2
    <3>3. CASE dlq' = dlq /\ TakeNext(c, Append(queue, h), Tail(work[c]))
      <4>0. Append(queue, h) \in Seq(Requests)
        BY <1>t, <1>k
      <4>1. PICK q \in Seq(Requests) : q = Append(queue, h)
        BY <4>0
      <4> QED BY <2>1, <3>3, <4>1
    <3> QED BY <3>2, <3>3, <3>4
  <2> QED BY <2>2, <2>3
<1>d. dlq' \in Seq(Requests) /\ \A r : Contains(dlq', r) <=> Contains(dlq, r) \/ (dlq' # dlq /\ r = h)
  <2>1. Append(dlq, h) \in Seq(Requests) /\ Append(dlq, h) # dlq
    BY <1>t, <1>k
  <2>2. \A r : Contains(Append(dlq, h), r) <=> Contains(dlq, r) \/ r = h
    BY <1>t, <1>k, ContainsAppended
  <2>3. dlq' = dlq \/ dlq' = Append(dlq, h)
    BY <1>q
  <2> QED BY <1>t, <2>1, <2>2, <2>3
<1>e. q = Append(queue, h) \/ dlq' # dlq \/ Reply(c)
  <2>1. Append(dlq, h) # dlq
    BY <1>t, <1>k
  <2> QED BY <1>q, <2>1
<1>w. /\ work' = [work EXCEPT ![c] = Tail(work[c])] /\ queue' \in Seq(Requests)
      /\ \A r : Contains(q, r) => Contains(queue', r) \/ Contains(Tail(work[c]), r)
  BY <1>k, <1>q, TakesNext
<1>m. /\ work' \in [Callers -> Seq(Requests)]
      /\ \A d \in Callers : work'[d] = IF d = c THEN Tail(work[c]) ELSE work[d]
      /\ \A d \in Callers : call'[d] # Idle => work'[d] # <<>>
      /\ EtchesTheItemInHand'
      /\ \A r : InHand(r) => InHand(r)' \/ r = h
      /\ \A r : Contains(Tail(work[c]), r) => InHand(r)'
      /\ \A r : Stored(r) => Stored(r)'
  BY <1>p, <1>w, <1>h, NextInHand
<1>1. ForwarderTypeOK'
  <2>2. attempts' \in [Requests -> Nat] /\ due' \in [Requests -> BOOLEAN]
    <3>1. CASE ItemDone(c)
      <4>1. attempts' = attempts /\ due' = due
        BY <3>1 DEF ItemDone
      <4> QED BY <1>t, <4>1
    <3>2. CASE ItemFailed(c)
      <4>1. Requeue(c, h)
        BY <1>h, <3>2 DEF ItemFailed
      <4>2. attempts' = [attempts EXCEPT ![h] = @ + 1]
            /\ (due' = due \/ due' = [due EXCEPT ![h] = FALSE])
        BY <4>1 DEF Requeue
      <4>3. h \in Requests /\ attempts \in [Requests -> Nat] /\ due \in [Requests -> BOOLEAN]
        BY <1>t, <1>k
      <4>4. attempts' \in [Requests -> Nat]
        BY <4>2, <4>3
      <4>5. due' \in [Requests -> BOOLEAN]
        BY <4>2, <4>3
      <4> QED BY <4>4, <4>5
    <3> QED BY <3>1, <3>2
  <2> QED BY <1>p, <1>w, <1>m, <1>d, <2>2 DEF ForwarderTypeOK
<1>2. HandsInv'
  <2>2. DirectIsNotQueued'
    BY <1>t, <1>p, <1>m DEF HandsInv, DirectIsNotQueued
  <2>3. FinalTakesOne'
    BY <1>t, <1>p, <1>m DEF HandsInv, FinalTakesOne
  <2> QED BY <1>m, <2>2, <2>3 DEF HandsInv
<1>3. ASSUME NEW r \in Requests, asked'[r] = "queued", phase' # "stopped" PROVE Kept(r)'
  <2>1. Kept(r)
    BY <1>p, <1>3 DEF NothingForgotten, Kept
  <2>2. Contains(q, r) => Contains(queue', r) \/ InHand(r)'
    BY <1>w, <1>m
  <2>3. Contains(dlq, r) => Contains(dlq', r)
    BY <1>d
  <2>4. r = h => Contains(q, r) \/ Contains(dlq', r) \/ Stored(r)'
    <3>1. Reply(c) => Stored(h)'
      BY <1>h, AnsweredIsStored DEF HandsInv
    <3>2. Contains(Append(queue, h), h)
      BY <1>t, <1>k, ContainsAppended
    <3> QED BY <1>d, <1>e, <3>1, <3>2
  <2> QED BY <1>q, <1>m, <2>1, <2>2, <2>3, <2>4 DEF Kept
<1> QED BY <1>1, <1>2, <1>3 DEF NothingForgotten, Kept

(* An operator takes all dead letters in hand.                             *)
LEMMA RetryDLQKeeps ==
    ASSUME ForwarderIndInv, RetryDLQ
    PROVE  ForwarderTypeOK' /\ HandsInv' /\ NothingForgotten'
<1> USE DEF ForwarderIndInv
<1>t. /\ work \in [Callers -> Seq(Requests)] /\ dlq \in Seq(Requests) /\ dlq # <<>>
      /\ Operator \in Callers /\ Stopper \in Callers /\ Direct \in Callers
      /\ Stopper # Operator /\ Direct # Operator
  BY ForwarderAssumption DEF ForwarderTypeOK, RetryDLQ
<1>h. PICK h \in Requests : h = Head(dlq)
  BY <1>t
<1>f. /\ work[Operator] = <<>> /\ work' = [work EXCEPT ![Operator] = dlq] /\ dlq' = <<>>
      /\ UNCHANGED <<forest, call, queue, asked, phase, place>>
  BY DEF RetryDLQ, ledgerVars
<1>i. call[Operator] = Idle
  BY <1>t, <1>f DEF ForwarderTypeOK
<1>m. /\ work' \in [Callers -> Seq(Requests)]
      /\ \A d \in Callers : work'[d] = IF d = Operator THEN dlq ELSE work[d]
      /\ \A d \in Callers : call'[d] # Idle => work'[d] # <<>>
      /\ EtchesTheItemInHand'
      /\ \A r : Contains(dlq, r) => InHand(r)'
      /\ \A r : InHand(r) => InHand(r)' \/ Contains(work[Operator], r)
  <2>1. \A d \in Callers : call'[d] = IF d = Operator THEN Idle ELSE call[d]
    BY <1>f, <1>i
  <2>2. EtchesTheItemInHand
    BY DEF HandsInv
  <2> QED BY <1>t, <1>f, <2>1, <2>2, HandsMove
<1>1. ForwarderTypeOK'
  <2>1. manual' \in 0..MaxManual
    BY ForwarderAssumption DEF RetryDLQ, ForwarderTypeOK
  <2>2. attempts \in [Requests -> Nat] /\ due \in [Requests -> BOOLEAN]
    BY DEF ForwarderTypeOK
  <2>3. attempts' = [attempts EXCEPT ![h] = 0] /\ due' = [due EXCEPT ![h] = TRUE]
    BY <1>h DEF RetryDLQ
  <2>4. attempts' \in [Requests -> Nat]
    BY <2>2, <2>3
  <2>5. due' \in [Requests -> BOOLEAN]
    BY <2>2, <2>3
  <2>6. dlq' \in Seq(Requests)
    BY <1>f
  <2> QED BY <1>f, <1>m, <2>1, <2>4, <2>5, <2>6 DEF ForwarderTypeOK
<1>2. HandsInv'
  <2>1. DirectIsNotQueued'
    BY <1>t, <1>f, <1>m DEF HandsInv, DirectIsNotQueued
  <2>2. FinalTakesOne'
    BY <1>t, <1>f, <1>m DEF HandsInv, FinalTakesOne
  <2> QED BY <1>m, <2>1, <2>2 DEF HandsInv
<1>3. ASSUME NEW r \in Requests, asked'[r] = "queued", phase' # "stopped" PROVE Kept(r)'
  <2>1. Kept(r) /\ ~Contains(work[Operator], r)
    BY <1>f, <1>3 DEF NothingForgotten, Kept, Contains
  <2> QED BY <1>f, <1>m, <2>1 DEF Kept, Stored
<1> QED BY <1>1, <1>2, <1>3 DEF NothingForgotten, Kept

(* A dead letter is etched at last, or put back.                           *)
LEMMA RetryEnds ==
    ASSUME ForwarderIndInv, RetryDone \/ RetryFailed
    PROVE  ForwarderTypeOK' /\ HandsInv' /\ NothingForgotten'
<1> USE DEF ForwarderIndInv
<1>p. /\ work[Operator] # <<>> /\ (Reply(Operator) \/ EtchFails(Operator)) /\ NextRetry
      /\ UNCHANGED <<queue, asked, phase, place, manual>>
      /\ \/ Reply(Operator) /\ dlq' = dlq
         \/ dlq' = Append(dlq, Head(work[Operator]))
  BY DEF RetryDone, RetryFailed
<1>t. /\ dlq \in Seq(Requests) /\ work[Operator] \in Seq(Requests)
      /\ Operator \in Callers /\ Stopper \in Callers /\ Direct \in Callers
      /\ Stopper # Operator /\ Direct # Operator
  BY ForwarderAssumption DEF ForwarderTypeOK
<1>h. PICK h : h = Head(work[Operator])
  OBVIOUS
<1>m. /\ work' \in [Callers -> Seq(Requests)] /\ h \in Requests
      /\ \A d \in Callers : work'[d] = IF d = Operator THEN Tail(work[Operator]) ELSE work[d]
      /\ \A d \in Callers : call'[d] # Idle => work'[d] # <<>>
      /\ EtchesTheItemInHand'
      /\ \A r : InHand(r) => InHand(r)' \/ r = h
      /\ \A r : Stored(r) => Stored(r)'
  <2>1. work' = [work EXCEPT ![Operator] = Tail(work[Operator])]
    BY <1>p DEF NextRetry
  <2> QED BY <1>p, <1>t, <1>h, <2>1, NextInHand
<1>d. /\ dlq' \in Seq(Requests) /\ \A r : Contains(dlq, r) => Contains(dlq', r)
      /\ Contains(dlq', h) \/ Reply(Operator)
  <2>1. Append(dlq, h) \in Seq(Requests)
    BY <1>t, <1>m
  <2>2. \A r : Contains(Append(dlq, h), r) <=> Contains(dlq, r) \/ r = h
    BY <1>t, <1>m, ContainsAppended
  <2>3. dlq' = Append(dlq, h) \/ (Reply(Operator) /\ dlq' = dlq)
    BY <1>p, <1>h
  <2> QED BY <1>t, <2>1, <2>2, <2>3
<1>1. ForwarderTypeOK'
  <2>1. attempts \in [Requests -> Nat] /\ due \in [Requests -> BOOLEAN]
    BY DEF ForwarderTypeOK
  <2>2. PICK rest : rest = Tail(work[Operator])
    OBVIOUS
  <2>3. rest \in Seq(Requests)
    BY <1>p, <1>t, <2>2
  <2>4. \/ attempts' = attempts /\ due' = due
        \/ /\ rest # <<>> /\ attempts' = [attempts EXCEPT ![Head(rest)] = 0]
           /\ due' = [due EXCEPT ![Head(rest)] = TRUE]
    BY <1>p, <2>2 DEF NextRetry
  <2>5. CASE attempts' = attempts /\ due' = due
    BY <1>p, <1>m, <1>d, <2>5 DEF ForwarderTypeOK
  <2>6. CASE rest # <<>>
    <3>1. PICK x \in Requests : x = Head(rest)
      BY <2>3, <2>6
    <3>2. \/ attempts' = attempts /\ due' = due
          \/ attempts' = [attempts EXCEPT ![x] = 0] /\ due' = [due EXCEPT ![x] = TRUE]
      BY <2>4, <3>1
    <3>3. attempts' \in [Requests -> Nat]
      BY <2>1, <3>2
    <3>4. due' \in [Requests -> BOOLEAN]
      BY <2>1, <3>2
    <3> QED BY <1>p, <1>m, <1>d, <3>3, <3>4 DEF ForwarderTypeOK
  <2> QED BY <2>4, <2>5, <2>6
<1>2. HandsInv'
  <2>1. DirectIsNotQueued'
    BY <1>t, <1>p, <1>m DEF HandsInv, DirectIsNotQueued
  <2>2. FinalTakesOne'
    BY <1>t, <1>p, <1>m DEF HandsInv, FinalTakesOne
  <2> QED BY <1>m, <2>1, <2>2 DEF HandsInv
<1>3. ASSUME NEW r \in Requests, asked'[r] = "queued", phase' # "stopped" PROVE Kept(r)'
  <2>1. Kept(r)
    BY <1>p, <1>3 DEF NothingForgotten, Kept
  <2>2. Reply(Operator) => Stored(h)'
    BY <1>t, <1>h, AnsweredIsStored DEF HandsInv
  <2> QED BY <1>p, <1>m, <1>d, <2>1, <2>2 DEF Kept
<1> QED BY <1>1, <1>2, <1>3 DEF NothingForgotten, Kept

LEMMA StopKeeps ==
    ASSUME ForwarderIndInv, Stop
    PROVE  ForwarderTypeOK' /\ HandsInv' /\ NothingForgotten'
<1> USE DEF ForwarderIndInv
<1>f. /\ phase = "open" /\ phase' = "draining"
      /\ UNCHANGED <<forest, call, queue, dlq, attempts, due, work, asked, place, manual>>
  BY DEF Stop, ledgerVars
<1>1. HandsInv' /\ \A d \in Callers : call'[d] # Idle => work'[d] # <<>>
  BY <1>f, HandsRest
<1>2. ForwarderTypeOK'
  BY <1>f, <1>1 DEF ForwarderTypeOK
<1> QED BY <1>f, <1>1, <1>2 DEF NothingForgotten, InHand, Stored

(* stop()'s final loop moves on: it takes the next place of the queue, or  *)
(* it ends.                                                                *)
LEMMA FinalLoopMoves ==
    ASSUME ForwarderIndInv, NEW k \in Nat \ {0}, FinalLoopAt(k), phase \in {"draining", "final"},
           \A d \in Callers : call'[d] = IF d = Stopper THEN Idle ELSE call[d],
           forest' = forest, asked' = asked
    PROVE  /\ work' \in [Callers -> Seq(Requests)] /\ queue' \in Seq(Requests) /\ place' \in Nat
           /\ phase' \in {"final", "stopped"}
           /\ \A d \in Callers : call'[d] # Idle => work'[d] # <<>>
           /\ HandsInv'
           /\ phase' # "stopped" => queue' = queue
           /\ \A r : InHand(r) => InHand(r)' \/ Contains(work[Stopper], r)
<1> USE DEF ForwarderIndInv
<1>t. /\ work \in [Callers -> Seq(Requests)] /\ queue \in Seq(Requests)
      /\ Stopper \in Callers /\ Direct \in Callers /\ Stopper # Direct
  BY ForwarderAssumption DEF ForwarderTypeOK
<1>1. PICK items \in Seq(Requests) :
          /\ work' = [work EXCEPT ![Stopper] = items]
          /\ \/ k <= Len(queue) /\ Len(items) = 1 /\ phase' = "final" /\ queue' = queue
             \/ phase' = "stopped" /\ queue' = <<>>
  <2>1. CASE k <= Len(queue)
    <3>1. PICK x \in Requests : x = queue[k]
      BY <1>t, <2>1
    <3>2. <<x>> \in Seq(Requests) /\ Len(<<x>>) = 1
      OBVIOUS
    <3> QED BY <2>1, <3>1, <3>2 DEF FinalLoopAt
  <2>2. CASE ~(k <= Len(queue))
    <3>1. <<>> \in Seq(Requests)
      OBVIOUS
    <3> QED BY <2>2, <3>1 DEF FinalLoopAt
  <2> QED BY <2>1, <2>2
<1>2. /\ work' \in [Callers -> Seq(Requests)]
      /\ \A d \in Callers : work'[d] = IF d = Stopper THEN items ELSE work[d]
      /\ \A d \in Callers : call'[d] # Idle => work'[d] # <<>>
      /\ EtchesTheItemInHand'
      /\ \A r : InHand(r) => InHand(r)' \/ Contains(work[Stopper], r)
  <2>1. EtchesTheItemInHand
    BY DEF HandsInv
  <2> QED BY <1>t, <1>1, <2>1, HandsMove
<1>3. HandsInv'
  <2>1. DirectIsNotQueued'
    BY <1>t, <1>2 DEF HandsInv, DirectIsNotQueued
  <2>2. FinalTakesOne'
    BY <1>t, <1>1, <1>2 DEF FinalTakesOne
  <2> QED BY <1>2, <2>1, <2>2 DEF HandsInv
<1>4. place' \in Nat
  BY DEF FinalLoopAt
<1>5. /\ queue' = queue \/ queue' = <<>>
      /\ phase' \in {"final", "stopped"} /\ (phase' # "stopped" => queue' = queue)
  BY <1>1
<1>6. queue' \in Seq(Requests)
  <2>1. queue \in Seq(Requests) /\ <<>> \in Seq(Requests)
    BY <1>t
  <2> QED BY <1>5, <2>1
<1> QED BY <1>2, <1>3, <1>4, <1>5, <1>6

LEMMA EndDrainKeeps ==
    ASSUME ForwarderIndInv, EndDrain
    PROVE  ForwarderTypeOK' /\ HandsInv' /\ NothingForgotten'
<1> USE DEF ForwarderIndInv
<1>f. /\ phase = "draining" /\ work[Stopper] = <<>> /\ FinalLoopAt(1)
      /\ UNCHANGED <<forest, call, dlq, attempts, due, asked, manual>>
  BY DEF EndDrain, ledgerVars
<1>1. \A d \in Callers : call'[d] = IF d = Stopper THEN Idle ELSE call[d]
  BY <1>f, ForwarderAssumption DEF ForwarderTypeOK
<1>m. /\ work' \in [Callers -> Seq(Requests)] /\ queue' \in Seq(Requests) /\ place' \in Nat
      /\ phase' \in {"final", "stopped"}
      /\ \A d \in Callers : call'[d] # Idle => work'[d] # <<>>
      /\ HandsInv'
      /\ phase' # "stopped" => queue' = queue
      /\ \A r : InHand(r) => InHand(r)' \/ Contains(work[Stopper], r)
  BY <1>f, <1>1, FinalLoopMoves
<1>2. ForwarderTypeOK'
  BY <1>f, <1>m DEF ForwarderTypeOK
<1>3. ASSUME NEW r \in Requests, asked'[r] = "queued", phase' # "stopped" PROVE Kept(r)'
  <2>1. Kept(r) /\ ~Contains(work[Stopper], r)
    BY <1>f, <1>3 DEF NothingForgotten, Kept, Contains
  <2> QED BY <1>f, <1>m, <1>3, <2>1 DEF Kept, Stored
<1> QED BY <1>m, <1>2, <1>3 DEF NothingForgotten, Kept

LEMMA FinalEnds ==
    ASSUME ForwarderIndInv, FinalDone \/ FinalFailed
    PROVE  ForwarderTypeOK' /\ HandsInv' /\ NothingForgotten'
<1> USE DEF ForwarderIndInv
<1>f. /\ phase = "final" /\ (Reply(Stopper) \/ EtchFails(Stopper)) /\ FinalLoopAt(place + 1)
      /\ UNCHANGED <<attempts, due, asked, manual>>
      /\ \/ Reply(Stopper) /\ dlq' = dlq
         \/ dlq' = Append(dlq, Head(work[Stopper]))
  BY DEF FinalDone, FinalFailed
<1>t. /\ dlq \in Seq(Requests) /\ work[Stopper] \in Seq(Requests) /\ Stopper \in Callers
      /\ Len(work[Stopper]) = 1 /\ place + 1 \in Nat \ {0} /\ LedgerTypeOK
  BY <1>f, ForwarderAssumption DEF ForwarderTypeOK, HandsInv, FinalTakesOne, LedgerInv
<1>h. PICK h \in Requests : h = Head(work[Stopper]) /\ \A r : Contains(work[Stopper], r) <=> r = h
  <2>1. PICK s \in Seq(Requests) : s = work[Stopper]
    BY <1>t
  <2>2. Len(s) = 1 /\ s[1] \in Requests /\ Head(s) = s[1] /\ \A r : Contains(s, r) <=> r = s[1]
    BY <1>t, <2>1 DEF Contains
  <2> QED BY <2>1, <2>2
<1>1. /\ \A d \in Callers : call'[d] = IF d = Stopper THEN Idle ELSE call[d]
      /\ forest' = forest
  BY <1>f, <1>t, EtchEnds
<1>m. /\ work' \in [Callers -> Seq(Requests)] /\ queue' \in Seq(Requests) /\ place' \in Nat
      /\ phase' \in {"final", "stopped"}
      /\ \A d \in Callers : call'[d] # Idle => work'[d] # <<>>
      /\ HandsInv'
      /\ phase' # "stopped" => queue' = queue
      /\ \A r : InHand(r) => InHand(r)' \/ Contains(work[Stopper], r)
  <2>1. PICK k \in Nat \ {0} : k = place + 1
    BY <1>t
  <2> QED BY <1>f, <1>1, <2>1, FinalLoopMoves
<1>d. /\ dlq' \in Seq(Requests) /\ \A r : Contains(dlq, r) => Contains(dlq', r)
      /\ Contains(dlq', h) \/ Reply(Stopper)
  <2>1. Append(dlq, h) \in Seq(Requests)
    BY <1>t
  <2>2. \A r : Contains(Append(dlq, h), r) <=> Contains(dlq, r) \/ r = h
    BY <1>t, ContainsAppended
  <2>3. dlq' = Append(dlq, h) \/ (Reply(Stopper) /\ dlq' = dlq)
    BY <1>f, <1>h
  <2> QED BY <1>t, <2>1, <2>2, <2>3
<1>2. ForwarderTypeOK'
  BY <1>f, <1>m, <1>d DEF ForwarderTypeOK
<1>3. ASSUME NEW r \in Requests, asked'[r] = "queued", phase' # "stopped" PROVE Kept(r)'
  <2>1. Kept(r)
    BY <1>f, <1>3 DEF NothingForgotten, Kept
  <2>2. Reply(Stopper) => Stored(h)'
    BY <1>t, <1>h, AnsweredIsStored DEF HandsInv
  <2>3. Stored(r) => Stored(r)'
    BY <1>1 DEF Stored
  <2> QED BY <1>h, <1>m, <1>d, <1>3, <2>1, <2>2, <2>3 DEF Kept
<1> QED BY <1>m, <1>2, <1>3 DEF NothingForgotten, Kept

(* A direct etch() is over, whatever came of it.                           *)
LEMMA DirectEnds ==
    ASSUME ForwarderIndInv, DirectDone
    PROVE  ForwarderTypeOK' /\ HandsInv' /\ NothingForgotten'
<1> USE DEF ForwarderIndInv
<1>f. /\ (Reply(Direct) \/ EtchFails(Direct)) /\ work' = [work EXCEPT ![Direct] = <<>>]
      /\ UNCHANGED <<queue, dlq, attempts, due, asked, phase, place, manual>>
  BY DEF DirectDone
<1>t. /\ Direct \in Callers /\ Stopper \in Callers /\ Direct # Stopper
      /\ LedgerTypeOK /\ EtchesTheItemInHand /\ <<>> \in Seq(Requests)
  BY ForwarderAssumption DEF HandsInv, LedgerInv
<1>1. /\ \A d \in Callers : call'[d] = IF d = Direct THEN Idle ELSE call[d]
      /\ forest' = forest
  BY <1>f, <1>t, EtchEnds
<1>m. /\ work' \in [Callers -> Seq(Requests)]
      /\ \A d \in Callers : work'[d] = IF d = Direct THEN <<>> ELSE work[d]
      /\ \A d \in Callers : call'[d] # Idle => work'[d] # <<>>
      /\ EtchesTheItemInHand'
      /\ \A r : InHand(r) => InHand(r)' \/ Contains(work[Direct], r)
  BY <1>f, <1>t, <1>1, HandsMove
<1>2. ForwarderTypeOK'
  BY <1>f, <1>m DEF ForwarderTypeOK
<1>3. HandsInv'
  <2>1. DirectIsNotQueued'
    BY <1>t, <1>f, <1>m DEF DirectIsNotQueued, Contains
  <2>2. FinalTakesOne'
    BY <1>t, <1>f, <1>m DEF HandsInv, FinalTakesOne
  <2> QED BY <1>m, <2>1, <2>2 DEF HandsInv
<1>4. ASSUME NEW r \in Requests, asked'[r] = "queued", phase' # "stopped" PROVE Kept(r)'
  <2>1. Kept(r) /\ ~Contains(work[Direct], r)
    BY <1>f, <1>4 DEF NothingForgotten, Kept, HandsInv, DirectIsNotQueued
  <2> QED BY <1>f, <1>1, <1>m, <2>1 DEF Kept, Stored
<1> QED BY <1>2, <1>3, <1>4 DEF NothingForgotten, Kept

(* etch() goes on, inside the ledger.                                      *)
LEMMA LedgerStepKeeps ==
    ASSUME ForwarderIndInv, NEW c \in Callers, LedgerStep(c), [LedgerNext]_ledgerVars
    PROVE  ForwarderTypeOK' /\ HandsInv' /\ NothingForgotten'
<1> USE DEF ForwarderIndInv
<1>f. UNCHANGED <<queue, dlq, attempts, due, work, asked, phase, place, manual>>
  BY DEF LedgerStep, forwarderVars
<1>t. call \in [Callers -> Call] /\ EtchesTheItemInHand
  BY DEF HandsInv, LedgerInv, LedgerTypeOK
<1>1. /\ \A d \in Callers \ {c} : call'[d] = call[d]
      /\ work[c] # <<>>
      /\ call'[c].phase = "read" => call'[c].request = Head(work[c])
      /\ call'[c].phase = "stored" => call'[c].leaf.request = Head(work[c])
  <2>1. CASE work[c] # <<>> /\ ReadParent(c, Head(work[c]))
    BY <1>t, <2>1 DEF ReadParent
  <2>2. CASE StoreLeaf(c)
    <3>1. work[c] # <<>> /\ call[c].request = Head(work[c])
      BY <1>t, <2>2 DEF StoreLeaf, EtchesTheItemInHand
    <3> QED BY <1>t, <2>2, <3>1 DEF StoreLeaf
  <2> QED BY <2>1, <2>2 DEF LedgerStep
<1>2. EtchesTheItemInHand'
  BY <1>f, <1>t, <1>1 DEF EtchesTheItemInHand
<1>3. HandsInv'
  BY <1>f, <1>2 DEF HandsInv, FinalTakesOne, DirectIsNotQueued
<1>4. \A d \in Callers : call'[d] # Idle => work'[d] # <<>>
  BY <1>f, <1>1 DEF ForwarderTypeOK
<1>5. ForwarderTypeOK'
  BY <1>f, <1>4 DEF ForwarderTypeOK
<1>6. \A r \in Requests : Stored(r) => Stored(r)'
  BY StoredStays
<1> QED BY <1>f, <1>3, <1>5, <1>6 DEF NothingForgotten, InHand

LEMMA ForwarderIndInvStep ==
    ASSUME ForwarderIndInv, [ForwarderNext]_allVars
    PROVE  ForwarderIndInv'
<1>1. [LedgerNext]_ledgerVars
  BY ForwarderStepsLedger DEF ForwarderIndInv
<1>2. LedgerInv'
  BY <1>1, LedgerInvStep DEF ForwarderIndInv
<1>3. ASSUME NEW r \in Requests, Forward(r) \/ ForwardLate(r) \/ BecomeDue(r)
      PROVE  ForwarderTypeOK' /\ HandsInv' /\ NothingForgotten'
  BY <1>3, ForwardKeeps, ForwardLateKeeps, BecomeDueKeeps
<1>4. ASSUME NEW c \in Callers, StartRun(c) \/ ItemDone(c) \/ ItemFailed(c) \/ LedgerStep(c)
      PROVE  ForwarderTypeOK' /\ HandsInv' /\ NothingForgotten'
  BY <1>1, <1>4, StartRunKeeps, ItemEnds, LedgerStepKeeps
<1>5. ASSUME RetryDLQ \/ RetryDone \/ RetryFailed
      PROVE  ForwarderTypeOK' /\ HandsInv' /\ NothingForgotten'
  BY <1>5, RetryDLQKeeps, RetryEnds
<1>6. ASSUME Stop \/ EndDrain \/ FinalDone \/ FinalFailed \/ DirectDone
      PROVE  ForwarderTypeOK' /\ HandsInv' /\ NothingForgotten'
  BY <1>6, StopKeeps, EndDrainKeeps, FinalEnds, DirectEnds
<1>7. ASSUME UNCHANGED allVars
      PROVE  ForwarderTypeOK' /\ HandsInv' /\ NothingForgotten'
  <2>1. UNCHANGED <<forest, call>> /\ UNCHANGED forwarderVars
    BY <1>7 DEF allVars, ledgerVars
  <2>2. UNCHANGED <<queue, dlq, attempts, due, work, asked, phase, place, manual>>
    BY <2>1 DEF forwarderVars
  <2> QED BY <2>1, <2>2 DEF ForwarderIndInv, ForwarderTypeOK, HandsInv, EtchesTheItemInHand,
             FinalTakesOne, DirectIsNotQueued, NothingForgotten, InHand, Stored
<1>8. ForwarderTypeOK' /\ HandsInv' /\ NothingForgotten'
  BY <1>3, <1>4, <1>5, <1>6, <1>7 DEF ForwarderNext
<1> QED BY <1>2, <1>8 DEF ForwarderIndInv

LEMMA ForwarderIndInvInit == ForwarderInit => ForwarderIndInv
<1> SUFFICES ASSUME ForwarderInit PROVE ForwarderIndInv
  OBVIOUS
<1>1. LedgerInv
  BY LedgerInvInit DEF ForwarderInit
<1>2. ForwarderTypeOK
  BY ForwarderAssumption DEF ForwarderInit, LedgerInit, ForwarderTypeOK
<1>3. HandsInv
  BY ForwarderAssumption DEF ForwarderInit, LedgerInit, HandsInv, EtchesTheItemInHand,
     FinalTakesOne, DirectIsNotQueued, Contains, Idle
<1>4. NothingForgotten
  BY DEF ForwarderInit, NothingForgotten
<1> QED BY <1>1, <1>2, <1>3, <1>4 DEF ForwarderIndInv

(* However runs of the queue, retries, an operator and stop() overlap, no  *)
(* queued request is forgotten before stop() has ended                     *)
(* (BackgroundLedgerForwarder.processQueue, retryDLQ, stop).               *)
THEOREM NothingQueuedIsForgotten == ForwarderSpec => []ForwarderInv
<1>1. ForwarderIndInv => ForwarderInv
  BY DEF ForwarderIndInv, ForwarderInv, LedgerInv
<1> QED BY <1>1, ForwarderIndInvInit, ForwarderIndInvStep, PTL DEF ForwarderSpec

(* A ledger with a forwarder in front of it is a ledger: retries, dead     *)
(* letters and stop() only call etch(), each with one call at a time.      *)
THEOREM ForwarderUsesTheLedger == ForwarderSpec => LedgerSpec
<1>1. ForwarderInit => LedgerInit
  BY DEF ForwarderInit
<1>2. ForwarderIndInv /\ [ForwarderNext]_allVars => [LedgerNext]_ledgerVars
  BY ForwarderStepsLedger DEF ForwarderIndInv
<1> QED BY <1>1, <1>2, ForwarderIndInvInit, ForwarderIndInvStep, PTL DEF ForwarderSpec, LedgerSpec

(* So the receipts a forwarder's etches get are proofs for ever, and the   *)
(* leaves it retries point at earlier leaves of their tenant.              *)
THEOREM ForwardedReceiptsAreProofs ==
    ForwarderSpec => [](ReceiptsStayProofs /\ ReceiptValidUntilNextEtch /\ ParentIsEarlier)
BY ForwarderUsesTheLedger, ReceiptsAreProofs, ReceiptsExpireWithTheNextEtch, ParentsAreEarlier, PTL

-----------------------------------------------------------------------------
(* Forwarders that share their queues in Redis. *)

RedisTyped == RedisForwarderTypeOK /\ IsFiniteSet(retrySet)

(* What a loop is, whatever it does.                                       *)
LEMMA LoopFields ==
    ASSUME RedisForwarderTypeOK, NEW l \in Hands
    PROVE  /\ loop[l] \in Doing /\ loop[l].at \in Phases /\ loop[l].owner \in Forwarders \cup {None}
           /\ loop[l].todo \in Seq(Item) /\ loop[l].hand \in Seq(Item) /\ loop[l].taken \in 0..BatchSize
           /\ loop[l].at \in {"moving", "etch", "failed"} =>
                  loop[l].hand[1] \in Item /\ loop[l].hand = <<loop[l].hand[1]>>
           /\ loop[l].at \notin {"moving", "etch", "failed"} => loop[l].hand = <<>>
<1>1. loop[l] \in Doing /\ Len(loop[l].hand) = IF loop[l].at \in {"moving", "etch", "failed"} THEN 1 ELSE 0
  BY DEF RedisForwarderTypeOK
<1>2. PICK h \in Seq(Item) : h = loop[l].hand
  BY <1>1 DEF Doing
<1>3. Len(h) = 1 => h[1] \in Item /\ h = <<h[1]>>
  BY <1>2
<1>4. Len(h) = 0 => h = <<>>
  BY <1>2
<1> QED BY <1>1, <1>2, <1>3, <1>4 DEF Doing

(* One loop does something else, all others go on.                         *)
LEMMA OneLoopTurns ==
    ASSUME RedisForwarderTypeOK, NEW l \in Hands, NEW d \in Doing, loop' = [loop EXCEPT ![l] = d],
           Len(d.hand) = IF d.at \in {"moving", "etch", "failed"} THEN 1 ELSE 0
    PROVE  /\ loop' \in [Hands -> Doing]
           /\ \A m \in Hands : loop'[m] = IF m = l THEN d ELSE loop[m]
           /\ \A m \in Hands :
                  Len(loop'[m].hand) = IF loop'[m].at \in {"moving", "etch", "failed"} THEN 1 ELSE 0
<1>1. loop \in [Hands -> Doing]
  BY DEF RedisForwarderTypeOK
<1>2. loop' \in [Hands -> Doing] /\ \A m \in Hands : loop'[m] = IF m = l THEN d ELSE loop[m]
  BY <1>1
<1>3. \A m \in Hands :
          Len(loop[m].hand) = IF loop[m].at \in {"moving", "etch", "failed"} THEN 1 ELSE 0
  BY DEF RedisForwarderTypeOK
<1> QED BY <1>2, <1>3

(* What Turns makes of a loop.                                             *)
LEMMA TurnsTo ==
    ASSUME RedisForwarderTypeOK, NEW l \in Hands, NEW at \in Phases, NEW todo \in Seq(Item),
           NEW hand \in Seq(Item), Turns(l, at, todo, hand),
           Len(hand) = IF at \in {"moving", "etch", "failed"} THEN 1 ELSE 0
    PROVE  /\ loop' \in [Hands -> Doing]
           /\ loop'[l].at = at /\ loop'[l].todo = todo /\ loop'[l].hand = hand
           /\ \A m \in Hands \ {l} : loop'[m] = loop[m]
           /\ \A m \in Hands :
                  Len(loop'[m].hand) = IF loop'[m].at \in {"moving", "etch", "failed"} THEN 1 ELSE 0
<1> DEFINE d == [loop[l] EXCEPT !.at = at, !.todo = todo, !.hand = hand]
<1>1. loop[l] \in Doing
  BY DEF RedisForwarderTypeOK
<1>2. d \in Doing /\ d.at = at /\ d.todo = todo /\ d.hand = hand
  BY <1>1 DEF Doing
<1>3. loop' = [loop EXCEPT ![l] = d]
  BY DEF Turns
<1> HIDE DEF d
<1> QED BY <1>2, <1>3, OneLoopTurns

LEMMA GoneTyped ==
    /\ Gone \in Doing
    /\ \A f \in Forwarders \cup {None} : [Gone EXCEPT !.at = "asleep", !.owner = f] \in Doing
<1>1. <<>> \in Seq(Item) /\ 0 \in 0..BatchSize /\ "none" \in Phases /\ "asleep" \in Phases
  BY RedisForwarderAssumption DEF Phases
<1>2. Gone \in Doing
  BY <1>1 DEF Gone, Doing
<1>3. ASSUME NEW f \in Forwarders \cup {None} PROVE [Gone EXCEPT !.at = "asleep", !.owner = f] \in Doing
  BY <1>1, <1>2, <1>3 DEF Doing
<1> QED BY <1>2, <1>3

(* The loop that has ended its tick sleeps or is gone.                     *)
LEMMA EndsTick ==
    ASSUME RedisForwarderTypeOK, NEW l \in Loops, EndTick(l)
    PROVE  /\ loop' \in [Hands -> Doing] /\ timer' \in [Forwarders -> Loops \cup {None}]
           /\ loop'[l].at \in {"none", "asleep"} /\ loop'[l].todo = <<>> /\ loop'[l].hand = <<>>
           /\ \A m \in Hands \ {l} : loop'[m] = loop[m]
           /\ \A m \in Hands :
                  Len(loop'[m].hand) = IF loop'[m].at \in {"moving", "etch", "failed"} THEN 1 ELSE 0
<1> DEFINE f == loop[l].owner
<1>1. l \in Hands /\ f \in Forwarders \cup {None}
  BY LoopFields DEF Hands
<1>2. PICK d \in Doing : /\ loop' = [loop EXCEPT ![l] = d]
                         /\ d.at \in {"none", "asleep"} /\ d.todo = <<>> /\ d.hand = <<>>
  <2>1. Gone \in Doing /\ [Gone EXCEPT !.at = "asleep", !.owner = f] \in Doing
    BY <1>1, GoneTyped
  <2>2. CASE running[f]
    BY <1>1, <2>1, <2>2 DEF EndTick, Gone
  <2>3. CASE ~running[f]
    BY <1>1, <2>1, <2>3 DEF EndTick, Gone
  <2> QED BY <2>2, <2>3
<1>3. timer' \in [Forwarders -> Loops \cup {None}]
  BY DEF EndTick, RedisForwarderTypeOK
<1>4. Len(d.hand) = IF d.at \in {"moving", "etch", "failed"} THEN 1 ELSE 0
  BY <1>2
<1> QED BY <1>1, <1>2, <1>3, <1>4, OneLoopTurns

(* The steps of the forwarders, each with what it does to the loop it is   *)
(* about; what it does to the queues is said by the actions themselves.    *)

OthersGoOn(l) == \A m \in Hands \ {l} : loop'[m] = loop[m]

LEMMA ForwardToRedisStep ==
    ASSUME RedisTyped, NEW r \in Etches, ForwardToRedis(r)
    PROVE  RedisTyped' /\ loop' = loop
<1>1. [request |-> r, attempts |-> 0] \in Item
  BY DEF Item
<1>2. pending' \in Seq(Item)
  BY <1>1 DEF RedisTyped, RedisForwarderTypeOK, ForwardToRedis
<1> QED BY <1>2 DEF RedisTyped, RedisForwarderTypeOK, ForwardToRedis

LEMMA RipenStep ==
    ASSUME RedisTyped, NEW i, Ripen(i)
    PROVE  RedisTyped' /\ loop' = loop
<1>1. /\ i \in retrySet /\ ripe' = ripe \cup {i}
      /\ pending' = pending /\ retrySet' = retrySet /\ letters' = letters /\ etched' = etched
      /\ running' = running /\ timer' = timer /\ loop' = loop /\ forwarded' = forwarded
      /\ dropped' = dropped /\ used' = used
  BY DEF Ripen
<1>2. ripe \subseteq retrySet
  BY DEF RedisTyped, RedisForwarderTypeOK
<1>3. ripe' \subseteq retrySet'
  BY <1>1, <1>2
<1> QED BY <1>1, <1>3 DEF RedisTyped, RedisForwarderTypeOK

LEMMA StartLoopStep ==
    ASSUME RedisTyped, NEW f \in Forwarders, NEW l \in Loops, StartLoop(f, l)
    PROVE  /\ RedisTyped' /\ OthersGoOn(l) /\ loop[l].at = "none" /\ loop[l].hand = <<>>
           /\ loop'[l].at = "asleep" /\ loop'[l].todo = <<>> /\ loop'[l].hand = <<>>
           /\ used'.starts = used.starts + 1 /\ used'.faults = used.faults
           /\ used'.sweeps = used.sweeps
<1>1. l \in Hands /\ loop[l].at = "none" /\ loop[l].hand = <<>>
  BY LoopFields DEF Hands, RedisTyped, StartLoop
<1>2. PICK d \in Doing : /\ loop' = [loop EXCEPT ![l] = d]
                         /\ d.at = "asleep" /\ d.todo = <<>> /\ d.hand = <<>>
  <2>1. loop' = [loop EXCEPT ![l] = [Gone EXCEPT !.at = "asleep", !.owner = f]]
    BY DEF StartLoop
  <2>2. [Gone EXCEPT !.at = "asleep", !.owner = f] \in Doing
    BY GoneTyped
  <2>3. PICK d : d = [Gone EXCEPT !.at = "asleep", !.owner = f]
    OBVIOUS
  <2>4. d.at = "asleep" /\ d.todo = <<>> /\ d.hand = <<>>
    BY <2>3 DEF Gone
  <2> QED BY <2>1, <2>2, <2>3, <2>4
<1>3. Len(d.hand) = IF d.at \in {"moving", "etch", "failed"} THEN 1 ELSE 0
  BY <1>2
<1>4. /\ loop' \in [Hands -> Doing]
      /\ \A m \in Hands : loop'[m] = IF m = l THEN d ELSE loop[m]
      /\ \A m \in Hands :
             Len(loop'[m].hand) = IF loop'[m].at \in {"moving", "etch", "failed"} THEN 1 ELSE 0
  BY <1>1, <1>2, <1>3, OneLoopTurns DEF RedisTyped
<1>5. /\ used' \in [faults : Nat, starts : Nat, sweeps : Nat]
      /\ used'.starts = used.starts + 1 /\ used'.faults = used.faults
      /\ used'.sweeps = used.sweeps
  BY DEF StartLoop, RedisTyped, RedisForwarderTypeOK
<1>6. /\ running' \in [Forwarders -> BOOLEAN] /\ timer' \in [Forwarders -> Loops \cup {None}]
      /\ UNCHANGED <<pending, retrySet, ripe, letters, etched, forwarded, dropped>>
  BY DEF StartLoop, RedisTyped, RedisForwarderTypeOK
<1>7. RedisTyped'
  BY <1>4, <1>5, <1>6 DEF RedisTyped, RedisForwarderTypeOK
<1> QED BY <1>1, <1>2, <1>4, <1>5, <1>7 DEF OthersGoOn

(* Loops that end had nothing in hand, or a fault has noted what it was.   *)
Stops(l) == /\ loop'[l].at \in {"none", "asleep"} /\ loop'[l].todo = <<>> /\ loop'[l].hand = <<>>
            /\ loop[l].at = "none" => loop'[l].at = "none"
LoopsEnd ==
    /\ \A l \in Loops : loop'[l] = loop[l] \/ Stops(l)
    /\ loop'[RetryOperator] = loop[RetryOperator]
    /\ \A l \in Loops : loop'[l] # loop[l] =>
           loop[l].hand = <<>> \/ loop[l].hand[1].request \in dropped'
    /\ dropped \subseteq dropped'
    /\ used'.starts = used.starts /\ used'.sweeps = used.sweeps
    /\ used'.faults = used.faults \/ used'.faults = used.faults + 1
    /\ UNCHANGED <<pending, retrySet, ripe, letters, etched, forwarded>>

LEMMA StopLoopStep ==
    ASSUME RedisTyped, NEW f \in Forwarders, StopLoop(f)
    PROVE  RedisTyped' /\ LoopsEnd
<1>1. /\ loop \in [Hands -> Doing] /\ RetryOperator \notin Loops
      /\ timer \in [Forwarders -> Loops \cup {None}] /\ timer[f] # RetryOperator
      /\ running \in [Forwarders -> BOOLEAN]
  BY RedisForwarderAssumption DEF RedisTyped, RedisForwarderTypeOK
<1>2. /\ \A l \in Hands : loop'[l] = IF l = timer[f] /\ loop[l].at = "asleep" THEN Gone ELSE loop[l]
      /\ loop' \in [Hands -> Doing]
  BY <1>1, GoneTyped DEF StopLoop
<1>3. Gone.at = "none" /\ Gone.todo = <<>> /\ Gone.hand = <<>> /\ Len(Gone.hand) = 0
  BY DEF Gone
<1>4. \A l \in Hands : loop[l].at = "asleep" => loop[l].hand = <<>>
  BY LoopFields DEF RedisTyped
<1>5. \A m \in Hands :
          Len(loop'[m].hand) = IF loop'[m].at \in {"moving", "etch", "failed"} THEN 1 ELSE 0
  BY <1>2, <1>3 DEF RedisTyped, RedisForwarderTypeOK
<1>6. /\ running' \in [Forwarders -> BOOLEAN] /\ timer' \in [Forwarders -> Loops \cup {None}]
      /\ UNCHANGED <<pending, retrySet, ripe, letters, etched, forwarded, dropped, used>>
  <2>1. running' = [running EXCEPT ![f] = FALSE] /\ timer' = [timer EXCEPT ![f] = None]
    BY DEF StopLoop
  <2> QED BY <1>1, <2>1 DEF StopLoop
<1>7. RedisTyped'
  BY <1>2, <1>5, <1>6 DEF RedisTyped, RedisForwarderTypeOK
<1>8. \A l \in Loops : loop'[l] = loop[l] \/ (Stops(l) /\ loop[l].hand = <<>>)
  BY <1>2, <1>3, <1>4 DEF Stops, Hands
<1>9. loop'[RetryOperator] = loop[RetryOperator]
  BY <1>1, <1>2 DEF Hands
<1> QED BY <1>6, <1>7, <1>8, <1>9 DEF LoopsEnd

(* r is in the hand of l.                                                  *)
Holds(l, r) == loop[l].hand # <<>> /\ loop[l].hand[1].request = r

LEMMA InHandMeans ==
    ASSUME NEW ls, NEW r
    PROVE  r \in InHandOf(ls) <=> \E l \in ls : Holds(l, r)
BY DEF InHandOf, Holds

LEMMA CrashStep ==
    ASSUME RedisTyped, NEW f \in Forwarders, CrashForwarder(f)
    PROVE  RedisTyped' /\ LoopsEnd
<1> DEFINE mine == {l \in Loops : loop[l].owner = f}
<1>1. /\ loop \in [Hands -> Doing] /\ RetryOperator \notin Loops /\ mine \subseteq Loops
      /\ timer \in [Forwarders -> Loops \cup {None}] /\ running \in [Forwarders -> BOOLEAN]
  BY RedisForwarderAssumption DEF RedisTyped, RedisForwarderTypeOK
<1>d. dropped' = dropped \cup InHandOf(mine)
  BY DEF CrashForwarder
<1>2. loop' = [l \in Hands |-> IF l \in mine THEN Gone ELSE loop[l]]
  BY DEF CrashForwarder
<1> HIDE DEF mine
<1>3. /\ \A l \in Hands : loop'[l] = IF l \in mine THEN Gone ELSE loop[l]
      /\ loop' \in [Hands -> Doing]
  BY <1>1, <1>2, GoneTyped
<1>4. Gone.at = "none" /\ Gone.todo = <<>> /\ Gone.hand = <<>> /\ Len(Gone.hand) = 0
  BY DEF Gone
<1>5. \A m \in Hands :
          Len(loop'[m].hand) = IF loop'[m].at \in {"moving", "etch", "failed"} THEN 1 ELSE 0
  BY <1>3, <1>4 DEF RedisTyped, RedisForwarderTypeOK
<1>6. /\ running' \in [Forwarders -> BOOLEAN] /\ timer' \in [Forwarders -> Loops \cup {None}]
      /\ UNCHANGED <<pending, retrySet, ripe, letters, etched, forwarded>>
  <2>1. running' = [running EXCEPT ![f] = FALSE] /\ timer' = [timer EXCEPT ![f] = None]
    BY DEF CrashForwarder
  <2> QED BY <1>1, <2>1 DEF CrashForwarder
<1>7. /\ used' \in [faults : Nat, starts : Nat, sweeps : Nat] /\ used'.starts = used.starts
      /\ used'.sweeps = used.sweeps /\ used'.faults = used.faults + 1
  BY SMTT(30) DEF CrashForwarder, Fault, RedisTyped, RedisForwarderTypeOK
<1>8. \A l \in mine : loop[l].hand = <<>> \/ loop[l].hand[1].request \in dropped'
  <2>1. ASSUME NEW l \in mine, loop[l].hand # <<>> PROVE loop[l].hand[1].request \in dropped'
    <3>1. PICK r : r = loop[l].hand[1].request
      OBVIOUS
    <3>2. r \in InHandOf(mine)
      BY <2>1, <3>1, InHandMeans DEF Holds
    <3> QED BY <1>d, <3>1, <3>2
  <2> QED BY <2>1
<1>9. dropped' \subseteq Etches /\ dropped \subseteq dropped'
  <2>1. \A l \in mine : loop[l].hand # <<>> => loop[l].hand[1].request \in Etches
    BY <1>1, LoopFields DEF RedisTyped, Hands, Item
  <2>2. InHandOf(mine) \subseteq Etches
    BY <2>1, InHandMeans DEF Holds
  <2> QED BY <1>d, <2>2 DEF RedisTyped, RedisForwarderTypeOK
<1>10. RedisTyped'
  BY <1>3, <1>5, <1>6, <1>7, <1>9 DEF RedisTyped, RedisForwarderTypeOK
<1>11. \A l \in Loops : loop'[l] = loop[l] \/ (Stops(l) /\ l \in mine)
  BY <1>3, <1>4 DEF Stops, Hands
<1>12. loop'[RetryOperator] = loop[RetryOperator]
  BY <1>1, <1>3 DEF Hands
<1> QED BY <1>6, <1>7, <1>8, <1>9, <1>10, <1>11, <1>12 DEF LoopsEnd

(* A tick is over, by itself or because a call to Redis threw.             *)
LEMMA TickEnds ==
    ASSUME RedisTyped, NEW l \in Loops, TickOver(l) \/ TickFails(l)
    PROVE  RedisTyped' /\ LoopsEnd
<1>1. /\ l \in Hands /\ loop[l].at \in Phases \ {"none"} /\ EndTick(l) /\ RetryOperator \notin Loops
      /\ RedisForwarderTypeOK /\ RetryOperator \in Hands
  BY RedisForwarderAssumption DEF Hands, TickOver, TickFails, InBatch, Phases, RedisTyped
<1>2. /\ loop' \in [Hands -> Doing] /\ timer' \in [Forwarders -> Loops \cup {None}]
      /\ loop'[l].at \in {"none", "asleep"} /\ loop'[l].todo = <<>> /\ loop'[l].hand = <<>>
      /\ \A m \in Hands \ {l} : loop'[m] = loop[m]
      /\ \A m \in Hands :
             Len(loop'[m].hand) = IF loop'[m].at \in {"moving", "etch", "failed"} THEN 1 ELSE 0
  BY <1>1, EndsTick
<1>3. UNCHANGED <<pending, retrySet, ripe, letters, etched, running, forwarded>>
  BY DEF TickOver, TickFails
<1>4. /\ used' \in [faults : Nat, starts : Nat, sweeps : Nat] /\ used'.starts = used.starts
      /\ used'.sweeps = used.sweeps /\ (used'.faults = used.faults \/ used'.faults = used.faults + 1)
  BY DEF TickOver, TickFails, Fault, RedisTyped, RedisForwarderTypeOK
<1>5. /\ dropped' \subseteq Etches /\ dropped \subseteq dropped'
      /\ loop[l].hand = <<>> \/ loop[l].hand[1].request \in dropped'
  <2>1. CASE TickOver(l)
    <3>1. loop[l].at \notin {"moving", "etch", "failed"} /\ dropped' = dropped
      BY <2>1 DEF TickOver, InBatch
    <3> QED BY <1>1, <3>1, LoopFields DEF RedisForwarderTypeOK
  <2>2. CASE TickFails(l)
    <3>1. dropped' = dropped \cup InHandOf({l})
      BY <2>2 DEF TickFails
    <3>2. loop[l].hand # <<>> => loop[l].hand[1].request \in Etches
      BY <1>1, LoopFields DEF Item
    <3>3. PICK r : r = loop[l].hand[1].request
      OBVIOUS
    <3>4. InHandOf({l}) \subseteq Etches
      BY <3>2, InHandMeans DEF Holds
    <3>5. loop[l].hand # <<>> => r \in InHandOf({l})
      BY <3>3, InHandMeans DEF Holds
    <3> QED BY <1>1, <3>1, <3>3, <3>4, <3>5 DEF RedisForwarderTypeOK
  <2> QED BY <2>1, <2>2
<1>6. RedisTyped'
  BY <1>2, <1>3, <1>4, <1>5 DEF RedisTyped, RedisForwarderTypeOK
<1>7. \A m \in Loops : loop'[m] = loop[m] \/ (Stops(m) /\ m = l)
  BY <1>1, <1>2 DEF Stops, Hands
<1>8. loop'[RetryOperator] = loop[RetryOperator]
  BY <1>1, <1>2
<1> QED BY <1>3, <1>4, <1>5, <1>6, <1>7, <1>8 DEF LoopsEnd

(* The timer of a loop fires: it lists what is due, unless its forwarder   *)
(* has stopped.                                                            *)
LEMMA WakeStep ==
    ASSUME RedisTyped, NEW l \in Hands, Wake(l)
    PROVE  /\ RedisTyped' /\ OthersGoOn(l) /\ loop[l].hand = <<>> /\ loop'[l].hand = <<>>
           /\ loop[l].at = "asleep"
           /\ \/ loop'[l].at = "none" /\ loop'[l].todo = <<>>
              \/ /\ loop'[l].at = "due" /\ \A k \in DOMAIN loop'[l].todo : loop'[l].todo[k] \in retrySet
                 /\ \A j, k \in DOMAIN loop'[l].todo : loop'[l].todo[j] = loop'[l].todo[k] => j = k
           /\ UNCHANGED <<pending, retrySet, ripe, letters, etched, forwarded, dropped, used>>
<1>1. /\ loop[l].at = "asleep" /\ loop[l].hand = <<>> /\ RedisForwarderTypeOK
      /\ UNCHANGED <<pending, retrySet, ripe, letters, etched, running, timer, forwarded, dropped, used>>
  BY LoopFields DEF RedisTyped, Wake
<1>2. /\ loop' \in [Hands -> Doing] /\ OthersGoOn(l) /\ loop'[l].hand = <<>>
      /\ \A m \in Hands :
             Len(loop'[m].hand) = IF loop'[m].at \in {"moving", "etch", "failed"} THEN 1 ELSE 0
      /\ \/ loop'[l].at = "none" /\ loop'[l].todo = <<>>
         \/ /\ loop'[l].at = "due" /\ \A k \in DOMAIN loop'[l].todo : loop'[l].todo[k] \in retrySet
            /\ \A j, k \in DOMAIN loop'[l].todo : loop'[l].todo[j] = loop'[l].todo[k] => j = k
  <2>1. CASE loop' = [loop EXCEPT ![l] = Gone]
    <3>1. PICK d \in Doing : d = Gone /\ d.at = "none" /\ d.todo = <<>> /\ d.hand = <<>>
      BY GoneTyped DEF Gone
    <3>2. Len(d.hand) = IF d.at \in {"moving", "etch", "failed"} THEN 1 ELSE 0
      BY <3>1
    <3> QED BY <1>1, <2>1, <3>1, <3>2, OneLoopTurns DEF OthersGoOn
  <2>2. ASSUME NEW ready \in SetToSeqs(ripe), Turns(l, "due", ready, <<>>)
        PROVE  /\ loop' \in [Hands -> Doing] /\ OthersGoOn(l) /\ loop'[l].hand = <<>>
               /\ \A m \in Hands :
                     Len(loop'[m].hand) = IF loop'[m].at \in {"moving", "etch", "failed"} THEN 1 ELSE 0
               /\ loop'[l].at = "due" /\ \A k \in DOMAIN loop'[l].todo : loop'[l].todo[k] \in retrySet
               /\ \A j, k \in DOMAIN loop'[l].todo : loop'[l].todo[j] = loop'[l].todo[k] => j = k
    <3>1. Cardinality(ripe) \in Nat
      BY FS_Subset, FS_CardinalityType DEF RedisTyped, RedisForwarderTypeOK
    <3>2. /\ ready \in [1..Cardinality(ripe) -> ripe]
          /\ \A i, j \in 1..Cardinality(ripe) : i # j => ready[i] # ready[j]
      BY DEF SetToSeqs
    <3>3. ready \in Seq(Item) /\ DOMAIN ready = 1..Cardinality(ripe)
      <4>1. ripe \subseteq Item
        BY DEF RedisTyped, RedisForwarderTypeOK
      <4>2. ready \in [1..Cardinality(ripe) -> Item]
        BY <3>2, <4>1
      <4> QED BY <3>1, <3>2, <4>2
    <3>4. \A k \in DOMAIN ready : ready[k] \in retrySet
      BY <3>2, <3>3 DEF RedisTyped, RedisForwarderTypeOK
    <3>5. "due" \in Phases /\ <<>> \in Seq(Item)
          /\ Len(<<>>) = IF "due" \in {"moving", "etch", "failed"} THEN 1 ELSE 0
      BY DEF Phases
    <3>6. /\ loop' \in [Hands -> Doing]
          /\ loop'[l].at = "due" /\ loop'[l].todo = ready /\ loop'[l].hand = <<>>
          /\ \A m \in Hands \ {l} : loop'[m] = loop[m]
          /\ \A m \in Hands :
                 Len(loop'[m].hand) = IF loop'[m].at \in {"moving", "etch", "failed"} THEN 1 ELSE 0
      BY <1>1, <2>2, <3>3, <3>5, TurnsTo
    <3> QED BY <3>2, <3>3, <3>4, <3>6 DEF OthersGoOn
  <2> QED BY <2>1, <2>2 DEF Wake
<1>3. RedisTyped'
  BY <1>1, <1>2 DEF RedisTyped, RedisForwarderTypeOK
<1> QED BY <1>1, <1>2, <1>3

(* Two calls to Redis move a due item to the pending ones.                 *)
LEMMA TakeDueStep ==
    ASSUME RedisTyped, NEW l \in Hands, TakeDue(l)
    PROVE  /\ RedisTyped' /\ OthersGoOn(l) /\ loop[l].at = "due" /\ loop[l].todo # <<>>
           /\ loop[l].hand = <<>>
           /\ loop'[l].at = "moving" /\ loop'[l].hand = <<Head(loop[l].todo)>>
           /\ loop'[l].todo = Tail(loop[l].todo) /\ Head(loop[l].todo) \in Item
           /\ retrySet' = retrySet \ {Head(loop[l].todo)}
           /\ UNCHANGED <<pending, letters, etched, forwarded, dropped, used>>
<1>1. /\ loop[l].at = "due" /\ loop[l].todo # <<>> /\ loop[l].todo \in Seq(Item)
      /\ loop[l].hand = <<>> /\ RedisForwarderTypeOK
  BY LoopFields DEF RedisTyped, TakeDue
<1>2. PICK s \in Seq(Item) : s = loop[l].todo
  BY <1>1
<1>3. s # <<>> /\ Head(s) \in Item /\ Tail(s) \in Seq(Item)
  BY <1>1, <1>2
<1>4. PICK i \in Item : i = Head(s)
  BY <1>3
<1>5. /\ retrySet' = retrySet \ {i} /\ ripe' = ripe \ {i} /\ Turns(l, "moving", Tail(s), <<i>>)
      /\ UNCHANGED <<pending, letters, etched, running, timer, forwarded, dropped, used>>
  BY <1>2, <1>4 DEF TakeDue
<1>6. "moving" \in Phases /\ <<i>> \in Seq(Item)
      /\ Len(<<i>>) = IF "moving" \in {"moving", "etch", "failed"} THEN 1 ELSE 0
  BY DEF Phases
<1>7. /\ loop' \in [Hands -> Doing]
      /\ loop'[l].at = "moving" /\ loop'[l].todo = Tail(s) /\ loop'[l].hand = <<i>>
      /\ \A m \in Hands \ {l} : loop'[m] = loop[m]
      /\ \A m \in Hands :
             Len(loop'[m].hand) = IF loop'[m].at \in {"moving", "etch", "failed"} THEN 1 ELSE 0
  BY <1>1, <1>3, <1>5, <1>6, TurnsTo
<1>8. IsFiniteSet(retrySet') /\ retrySet' \subseteq Item /\ ripe' \subseteq retrySet'
  BY <1>5, FS_Subset DEF RedisTyped, RedisForwarderTypeOK
<1>9. RedisTyped'
  BY <1>5, <1>7, <1>8 DEF RedisTyped, RedisForwarderTypeOK
<1> QED BY <1>1, <1>2, <1>4, <1>5, <1>7, <1>9 DEF OthersGoOn

LEMMA PushDueStep ==
    ASSUME RedisTyped, NEW l \in Hands, PushDue(l)
    PROVE  /\ RedisTyped' /\ OthersGoOn(l) /\ loop[l].at = "moving"
           /\ loop[l].hand = <<loop[l].hand[1]>> /\ loop[l].hand[1] \in Item
           /\ loop'[l].at = "due" /\ loop'[l].hand = <<>> /\ loop'[l].todo = loop[l].todo
           /\ pending' = Append(pending, loop[l].hand[1])
           /\ UNCHANGED <<retrySet, ripe, letters, etched, forwarded, dropped, used>>
<1>1. /\ loop[l].at = "moving" /\ loop[l].todo \in Seq(Item)
      /\ loop[l].hand = <<loop[l].hand[1]>> /\ loop[l].hand[1] \in Item /\ RedisForwarderTypeOK
  BY LoopFields DEF RedisTyped, PushDue
<1>2. PICK i \in Item : i = loop[l].hand[1] /\ loop[l].hand = <<i>>
  BY <1>1
<1>3. /\ pending' = pending \o <<i>> /\ Turns(l, "due", loop[l].todo, <<>>)
      /\ UNCHANGED <<retrySet, ripe, letters, etched, running, timer, forwarded, dropped, used>>
  BY <1>2 DEF PushDue
<1>4. pending \in Seq(Item) /\ pending' = Append(pending, i) /\ pending' \in Seq(Item)
  BY <1>3 DEF RedisTyped, RedisForwarderTypeOK
<1>5. "due" \in Phases /\ <<>> \in Seq(Item)
      /\ Len(<<>>) = IF "due" \in {"moving", "etch", "failed"} THEN 1 ELSE 0
  BY DEF Phases
<1>6. /\ loop' \in [Hands -> Doing]
      /\ loop'[l].at = "due" /\ loop'[l].todo = loop[l].todo /\ loop'[l].hand = <<>>
      /\ \A m \in Hands \ {l} : loop'[m] = loop[m]
      /\ \A m \in Hands :
             Len(loop'[m].hand) = IF loop'[m].at \in {"moving", "etch", "failed"} THEN 1 ELSE 0
  BY <1>1, <1>3, <1>5, TurnsTo
<1>7. RedisTyped'
  BY <1>3, <1>4, <1>6 DEF RedisTyped, RedisForwarderTypeOK
<1> QED BY <1>1, <1>2, <1>3, <1>4, <1>6, <1>7 DEF OthersGoOn

LEMMA PopStep ==
    ASSUME RedisTyped, NEW l \in Loops, Pop(l)
    PROVE  /\ RedisTyped' /\ OthersGoOn(l) /\ loop[l].hand = <<>> /\ loop[l].at \in {"due", "batch"}
           /\ loop[l].at = "due" => loop[l].todo = <<>>
           /\ pending # <<>> /\ Head(pending) \in Item /\ pending' = Tail(pending)
           /\ loop'[l].at = "etch" /\ loop'[l].hand = <<Head(pending)>> /\ loop'[l].todo = loop[l].todo
           /\ UNCHANGED <<retrySet, ripe, letters, etched, forwarded, dropped, used>>
<1>1. /\ l \in Hands /\ RedisForwarderTypeOK /\ loop[l] \in Doing /\ loop[l].hand = <<>>
      /\ loop[l].at \in {"due", "batch"} /\ (loop[l].at = "due" => loop[l].todo = <<>>)
      /\ pending # <<>> /\ loop[l].taken \in 0..BatchSize /\ loop[l].taken # BatchSize
  BY LoopFields DEF Hands, RedisTyped, Pop, InBatch, BatchOver
<1>2. /\ pending' = Tail(pending)
      /\ UNCHANGED <<retrySet, ripe, letters, etched, running, timer, forwarded, dropped, used>>
  BY DEF Pop
<1>3. PICK s \in Seq(Item) : s = pending
  BY <1>1 DEF RedisForwarderTypeOK
<1>4. s # <<>> /\ Head(s) \in Item /\ Tail(s) \in Seq(Item)
  BY <1>1, <1>3
<1>5. PICK i \in Item : i = Head(s)
  BY <1>4
<1> DEFINE d == [loop[l] EXCEPT !.at = "etch", !.hand = <<i>>, !.taken = loop[l].taken + 1]
<1>6. loop' = [loop EXCEPT ![l] = d]
  <2>1. i = Head(pending)
    BY <1>3, <1>5
  <2>2. loop' = [loop EXCEPT ![l] = [loop[l] EXCEPT !.at = "etch", !.hand = <<Head(pending)>>,
                                                      !.taken = loop[l].taken + 1]]
    BY DEF Pop
  <2>3. d = [loop[l] EXCEPT !.at = "etch", !.hand = <<Head(pending)>>, !.taken = loop[l].taken + 1]
    BY <2>1
  <2> QED BY <2>2, <2>3
<1>7. loop[l].taken + 1 \in 0..BatchSize /\ <<i>> \in Seq(Item) /\ Len(<<i>>) = 1
  BY <1>1, RedisForwarderAssumption
<1>8. d \in Doing /\ d.at = "etch" /\ d.hand = <<i>> /\ d.todo = loop[l].todo
  BY <1>1, <1>7 DEF Doing, Phases
<1>9. Len(d.hand) = IF d.at \in {"moving", "etch", "failed"} THEN 1 ELSE 0
  BY <1>7, <1>8
<1> HIDE DEF d
<1>10. /\ loop' \in [Hands -> Doing]
       /\ \A m \in Hands : loop'[m] = IF m = l THEN d ELSE loop[m]
       /\ \A m \in Hands :
              Len(loop'[m].hand) = IF loop'[m].at \in {"moving", "etch", "failed"} THEN 1 ELSE 0
  BY <1>1, <1>6, <1>8, <1>9, OneLoopTurns
<1>11. RedisTyped'
  BY <1>2, <1>3, <1>4, <1>10 DEF RedisTyped, RedisForwarderTypeOK
<1> QED BY <1>1, <1>2, <1>3, <1>5, <1>8, <1>10, <1>11 DEF OthersGoOn

(* The ledger answers a loop, or throws.                                   *)
LEMMA EtchAnsweredStep ==
    ASSUME RedisTyped, NEW l \in Loops, EtchAnswered(l)
    PROVE  /\ RedisTyped' /\ OthersGoOn(l) /\ loop[l].at = "etch"
           /\ loop[l].hand = <<loop[l].hand[1]>>
           /\ loop'[l].at = "batch" /\ loop'[l].hand = <<>> /\ loop'[l].todo = loop[l].todo
           /\ etched' = etched \cup {loop[l].hand[1].request}
           /\ UNCHANGED <<pending, retrySet, ripe, letters, forwarded, dropped, used>>
<1>1. /\ l \in Hands /\ loop[l].at = "etch" /\ loop[l].todo \in Seq(Item)
      /\ loop[l].hand = <<loop[l].hand[1]>> /\ loop[l].hand[1] \in Item /\ RedisForwarderTypeOK
  BY LoopFields DEF RedisTyped, EtchAnswered, Hands
<1>2. /\ etched' = etched \cup {loop[l].hand[1].request} /\ Turns(l, "batch", loop[l].todo, <<>>)
      /\ UNCHANGED <<pending, retrySet, ripe, letters, running, timer, forwarded, dropped, used>>
  BY DEF EtchAnswered, EtchOne
<1>3. etched' \subseteq Etches
  BY <1>1, <1>2 DEF RedisForwarderTypeOK, Item
<1>4. "batch" \in Phases /\ <<>> \in Seq(Item)
      /\ Len(<<>>) = IF "batch" \in {"moving", "etch", "failed"} THEN 1 ELSE 0
  BY DEF Phases
<1>5. /\ loop' \in [Hands -> Doing]
      /\ loop'[l].at = "batch" /\ loop'[l].todo = loop[l].todo /\ loop'[l].hand = <<>>
      /\ \A m \in Hands \ {l} : loop'[m] = loop[m]
      /\ \A m \in Hands :
             Len(loop'[m].hand) = IF loop'[m].at \in {"moving", "etch", "failed"} THEN 1 ELSE 0
  BY <1>1, <1>2, <1>4, TurnsTo
<1>6. RedisTyped'
  BY <1>2, <1>3, <1>5 DEF RedisTyped, RedisForwarderTypeOK
<1> QED BY <1>1, <1>2, <1>5, <1>6 DEF OthersGoOn

LEMMA EtchThrowsStep ==
    ASSUME RedisTyped, NEW l \in Hands, EtchThrows(l)
    PROVE  /\ RedisTyped' /\ OthersGoOn(l) /\ loop[l].at = "etch"
           /\ loop[l].hand = <<loop[l].hand[1]>> /\ loop[l].hand[1] \in Item
           /\ loop'[l].at = "failed" /\ loop'[l].todo = loop[l].todo
           /\ loop'[l].hand[1] \in Item /\ loop'[l].hand = <<loop'[l].hand[1]>>
           /\ loop'[l].hand[1].request = loop[l].hand[1].request
           /\ loop'[l].hand[1].attempts = loop[l].hand[1].attempts + 1
           /\ etched \subseteq etched'
           /\ UNCHANGED <<pending, retrySet, ripe, letters, forwarded, dropped, used>>
<1>1. /\ loop[l].at = "etch" /\ loop[l].todo \in Seq(Item)
      /\ loop[l].hand = <<loop[l].hand[1]>> /\ loop[l].hand[1] \in Item /\ RedisForwarderTypeOK
  BY LoopFields DEF RedisTyped, EtchThrows
<1>2. PICK i \in Item : i = loop[l].hand[1]
  BY <1>1
<1>3. PICK j \in Item : /\ j = [i EXCEPT !.attempts = @ + 1]
                        /\ j.request = i.request /\ j.attempts = i.attempts + 1
  <2>1. i.attempts \in Nat /\ i.request \in Etches /\ i = [request |-> i.request, attempts |-> i.attempts]
    BY DEF Item
  <2>2. [i EXCEPT !.attempts = @ + 1] = [request |-> i.request, attempts |-> i.attempts + 1]
    BY <2>1
  <2> QED BY <2>1, <2>2 DEF Item
<1>4. /\ Turns(l, "failed", loop[l].todo, <<j>>)
      /\ etched' = etched \cup {i.request} \/ UNCHANGED etched
      /\ UNCHANGED <<pending, retrySet, ripe, letters, running, timer, forwarded, dropped, used>>
  BY <1>2, <1>3 DEF EtchThrows, EtchOne
<1>5. etched' \subseteq Etches /\ etched \subseteq etched'
  BY <1>1, <1>4 DEF RedisForwarderTypeOK, Item
<1>6. "failed" \in Phases /\ <<j>> \in Seq(Item)
      /\ Len(<<j>>) = IF "failed" \in {"moving", "etch", "failed"} THEN 1 ELSE 0
  BY DEF Phases
<1>7. /\ loop' \in [Hands -> Doing]
      /\ loop'[l].at = "failed" /\ loop'[l].todo = loop[l].todo /\ loop'[l].hand = <<j>>
      /\ \A m \in Hands \ {l} : loop'[m] = loop[m]
      /\ \A m \in Hands :
             Len(loop'[m].hand) = IF loop'[m].at \in {"moving", "etch", "failed"} THEN 1 ELSE 0
  BY <1>1, <1>4, <1>6, TurnsTo
<1>8. RedisTyped'
  BY <1>4, <1>5, <1>7 DEF RedisTyped, RedisForwarderTypeOK
<1>9. <<j>>[1] = j
  OBVIOUS
<1> QED BY <1>1, <1>2, <1>3, <1>4, <1>5, <1>7, <1>8, <1>9 DEF OthersGoOn

(* An item goes back to the retries, or to the dead letters for good.      *)
Returned(i) ==
    \/ /\ i.attempts >= RedisMaxRetries
       /\ letters' = <<i>> \o letters /\ UNCHANGED <<retrySet, ripe>>
    \/ /\ i.attempts < RedisMaxRetries
       /\ retrySet' = retrySet \cup {i} /\ ripe' = ripe \ {i} /\ UNCHANGED letters

LEMMA PutBackReturns ==
    ASSUME RedisTyped, NEW i \in Item, PutBack(i)
    PROVE  /\ Returned(i) /\ letters' \in Seq(Item) /\ IsFiniteSet(retrySet')
           /\ retrySet' \subseteq Item /\ ripe' \subseteq retrySet'
<1>1. i.attempts \in Nat /\ RedisMaxRetries \in Nat /\ letters \in Seq(Item)
      /\ retrySet \subseteq Item /\ ripe \subseteq retrySet /\ IsFiniteSet(retrySet)
  BY RedisForwarderAssumption DEF Item, RedisTyped, RedisForwarderTypeOK
<1>2. Returned(i)
  BY <1>1 DEF PutBack, Returned
<1>3. CASE i.attempts >= RedisMaxRetries
  <2>1. letters' = <<i>> \o letters /\ retrySet' = retrySet /\ ripe' = ripe
    BY <1>1, <1>3 DEF PutBack
  <2>2. <<i>> \in Seq(Item)
    OBVIOUS
  <2>3. <<i>> \o letters \in Seq(Item)
    BY <1>1, <2>2
  <2> QED BY <1>1, <1>2, <2>1, <2>3
<1>4. CASE ~(i.attempts >= RedisMaxRetries)
  <2>1. letters' = letters /\ retrySet' = retrySet \cup {i} /\ ripe' = ripe \ {i}
    BY <1>4 DEF PutBack
  <2>2. IsFiniteSet(retrySet \cup {i})
    BY <1>1, FS_AddElement
  <2> QED BY <1>1, <1>2, <2>1, <2>2
<1> QED BY <1>3, <1>4

LEMMA ReturnStep ==
    ASSUME RedisTyped, NEW l \in Loops, Return(l)
    PROVE  /\ RedisTyped' /\ OthersGoOn(l) /\ loop[l].at = "failed"
           /\ loop[l].hand = <<loop[l].hand[1]>> /\ loop[l].hand[1] \in Item
           /\ loop'[l].at = "batch" /\ loop'[l].hand = <<>> /\ loop'[l].todo = loop[l].todo
           /\ Returned(loop[l].hand[1])
           /\ UNCHANGED <<pending, etched, forwarded, dropped, used>>
<1>1. /\ l \in Hands /\ loop[l].at = "failed" /\ loop[l].todo \in Seq(Item)
      /\ loop[l].hand = <<loop[l].hand[1]>> /\ loop[l].hand[1] \in Item /\ RedisForwarderTypeOK
  BY LoopFields DEF RedisTyped, Return, Hands
<1>2. PICK i \in Item : i = loop[l].hand[1]
  BY <1>1
<1>3. /\ PutBack(i) /\ Turns(l, "batch", loop[l].todo, <<>>)
      /\ UNCHANGED <<pending, etched, running, timer, forwarded, dropped, used>>
  BY <1>2 DEF Return
<1>4. /\ Returned(i) /\ letters' \in Seq(Item) /\ IsFiniteSet(retrySet')
      /\ retrySet' \subseteq Item /\ ripe' \subseteq retrySet'
  BY <1>3, PutBackReturns
<1>5. "batch" \in Phases /\ <<>> \in Seq(Item)
      /\ Len(<<>>) = IF "batch" \in {"moving", "etch", "failed"} THEN 1 ELSE 0
  BY DEF Phases
<1>6. /\ loop' \in [Hands -> Doing]
      /\ loop'[l].at = "batch" /\ loop'[l].todo = loop[l].todo /\ loop'[l].hand = <<>>
      /\ \A m \in Hands \ {l} : loop'[m] = loop[m]
      /\ \A m \in Hands :
             Len(loop'[m].hand) = IF loop'[m].at \in {"moving", "etch", "failed"} THEN 1 ELSE 0
  BY <1>1, <1>3, <1>5, TurnsTo
<1>7. RedisTyped'
  BY <1>3, <1>4, <1>6 DEF RedisTyped, RedisForwarderTypeOK
<1> QED BY <1>1, <1>2, <1>3, <1>4, <1>6, <1>7 DEF OthersGoOn

(* retryDLQ turns to its next letter, or is done.                          *)
AtLetter(todo) ==
    \/ todo = <<>> /\ loop'[RetryOperator] = Gone
    \/ /\ todo # <<>> /\ loop'[RetryOperator].at = "etch" /\ Head(todo) \in Item
       /\ loop'[RetryOperator].hand = <<Head(todo)>> /\ loop'[RetryOperator].todo = Tail(todo)

LEMMA TakesLetter ==
    ASSUME RedisTyped, NEW todo \in Seq(Item),
           IF todo = <<>> THEN loop' = [loop EXCEPT ![RetryOperator] = Gone]
                          ELSE Turns(RetryOperator, "etch", Tail(todo), <<Head(todo)>>)
    PROVE  /\ AtLetter(todo) /\ OthersGoOn(RetryOperator) /\ loop' \in [Hands -> Doing]
           /\ \A m \in Hands :
                  Len(loop'[m].hand) = IF loop'[m].at \in {"moving", "etch", "failed"} THEN 1 ELSE 0
<1>1. RetryOperator \in Hands /\ RedisForwarderTypeOK
  BY DEF Hands, RedisTyped
<1>2. CASE todo = <<>>
  <2>1. PICK d \in Doing : d = Gone
    BY GoneTyped
  <2>2. Len(d.hand) = IF d.at \in {"moving", "etch", "failed"} THEN 1 ELSE 0
    BY <2>1 DEF Gone
  <2>3. loop' = [loop EXCEPT ![RetryOperator] = d]
    BY <1>2, <2>1
  <2> QED BY <1>1, <1>2, <2>1, <2>2, <2>3, OneLoopTurns DEF AtLetter, OthersGoOn
<1>3. CASE todo # <<>>
  <2>1. Head(todo) \in Item /\ Tail(todo) \in Seq(Item)
    BY <1>3
  <2>2. PICK i \in Item : i = Head(todo)
    BY <2>1
  <2>3. "etch" \in Phases /\ <<i>> \in Seq(Item)
        /\ Len(<<i>>) = IF "etch" \in {"moving", "etch", "failed"} THEN 1 ELSE 0
    BY DEF Phases
  <2>4. Turns(RetryOperator, "etch", Tail(todo), <<i>>)
    <3>1. Turns(RetryOperator, "etch", Tail(todo), <<Head(todo)>>)
      BY <1>3
    <3> QED BY <2>2, <3>1
  <2>5. /\ loop' \in [Hands -> Doing]
        /\ loop'[RetryOperator].at = "etch" /\ loop'[RetryOperator].todo = Tail(todo)
        /\ loop'[RetryOperator].hand = <<i>>
        /\ \A m \in Hands \ {RetryOperator} : loop'[m] = loop[m]
        /\ \A m \in Hands :
               Len(loop'[m].hand) = IF loop'[m].at \in {"moving", "etch", "failed"} THEN 1 ELSE 0
    <3>1. PICK l \in Hands : l = RetryOperator
      BY <1>1
    <3>2. PICK td \in Seq(Item), hd \in Seq(Item) : td = Tail(todo) /\ hd = <<i>>
      BY <2>1, <2>3
    <3>3. Turns(l, "etch", td, hd) /\ "etch" \in Phases
          /\ Len(hd) = IF "etch" \in {"moving", "etch", "failed"} THEN 1 ELSE 0
      BY <2>3, <2>4, <3>1, <3>2
    <3>4. /\ loop' \in [Hands -> Doing]
          /\ loop'[l].at = "etch" /\ loop'[l].todo = td /\ loop'[l].hand = hd
          /\ \A m \in Hands \ {l} : loop'[m] = loop[m]
          /\ \A m \in Hands :
                 Len(loop'[m].hand) = IF loop'[m].at \in {"moving", "etch", "failed"} THEN 1 ELSE 0
      BY <1>1, <3>3, TurnsTo
    <3> QED BY <3>1, <3>2, <3>4
  <2> QED BY <1>3, <2>2, <2>5 DEF AtLetter, OthersGoOn
<1> QED BY <1>2, <1>3

LEMMA SweepStep ==
    ASSUME RedisTyped, Sweep
    PROVE  /\ RedisTyped' /\ OthersGoOn(RetryOperator) /\ AtLetter(letters) /\ letters # <<>>
           /\ loop[RetryOperator].hand = <<>>
           /\ used'.sweeps = used.sweeps + 1 /\ used'.faults = used.faults
           /\ used'.starts = used.starts
           /\ UNCHANGED <<pending, retrySet, ripe, letters, etched, forwarded, dropped>>
<1>1. /\ loop[RetryOperator] = Gone /\ letters # <<>> /\ used' = [used EXCEPT !.sweeps = @ + 1]
      /\ Turns(RetryOperator, "etch", Tail(letters), <<Head(letters)>>)
      /\ UNCHANGED <<pending, retrySet, ripe, letters, etched, running, timer, forwarded, dropped>>
  BY DEF Sweep
<1>2. PICK s \in Seq(Item) : s = letters
  BY DEF RedisTyped, RedisForwarderTypeOK
<1>3. IF s = <<>> THEN loop' = [loop EXCEPT ![RetryOperator] = Gone]
                  ELSE Turns(RetryOperator, "etch", Tail(s), <<Head(s)>>)
  BY <1>1, <1>2
<1>4. /\ AtLetter(s) /\ OthersGoOn(RetryOperator) /\ loop' \in [Hands -> Doing]
      /\ \A m \in Hands :
             Len(loop'[m].hand) = IF loop'[m].at \in {"moving", "etch", "failed"} THEN 1 ELSE 0
  BY <1>3, TakesLetter
<1>5. /\ used' \in [faults : Nat, starts : Nat, sweeps : Nat]
      /\ used'.sweeps = used.sweeps + 1 /\ used'.faults = used.faults
      /\ used'.starts = used.starts
  <2>1. used \in [faults : Nat, starts : Nat, sweeps : Nat]
    BY DEF RedisTyped, RedisForwarderTypeOK
  <2> QED BY <1>1, <2>1
<1>6. RedisTyped'
  BY <1>1, <1>4, <1>5 DEF RedisTyped, RedisForwarderTypeOK
<1>7. loop[RetryOperator].hand = <<>>
  BY <1>1 DEF Gone
<1> QED BY <1>1, <1>2, <1>4, <1>5, <1>6, <1>7

(* The ledger answers retryDLQ, or what it refused is put back.            *)
LEMMA SweepGoesOn ==
    ASSUME RedisTyped, SweepEtched \/ SweepReturns
    PROVE  /\ RedisTyped' /\ OthersGoOn(RetryOperator) /\ AtLetter(loop[RetryOperator].todo)
           /\ loop[RetryOperator].hand = <<loop[RetryOperator].hand[1]>>
           /\ loop[RetryOperator].hand[1] \in Item
           /\ \/ /\ etched' = etched \cup {loop[RetryOperator].hand[1].request}
                 /\ UNCHANGED <<retrySet, ripe, letters>>
              \/ Returned(loop[RetryOperator].hand[1]) /\ UNCHANGED etched
           /\ UNCHANGED <<pending, forwarded, dropped, used>>
<1>1. /\ RetryOperator \in Hands /\ loop[RetryOperator].at \in {"etch", "failed"}
      /\ RedisForwarderTypeOK
  BY DEF RedisTyped, SweepEtched, SweepReturns, Hands
<1>2. /\ loop[RetryOperator].todo \in Seq(Item) /\ loop[RetryOperator].hand[1] \in Item
      /\ loop[RetryOperator].hand = <<loop[RetryOperator].hand[1]>>
  BY <1>1, LoopFields
<1>3. PICK s \in Seq(Item), i \in Item : s = loop[RetryOperator].todo /\ i = loop[RetryOperator].hand[1]
  BY <1>2
<1>4. /\ NextLetter /\ pending' = pending /\ UNCHANGED <<running, timer, forwarded, dropped, used>>
  BY DEF SweepEtched, SweepReturns
<1>5. IF s = <<>> THEN loop' = [loop EXCEPT ![RetryOperator] = Gone]
                  ELSE Turns(RetryOperator, "etch", Tail(s), <<Head(s)>>)
  BY <1>3, <1>4 DEF NextLetter
<1>6. /\ AtLetter(s) /\ OthersGoOn(RetryOperator) /\ loop' \in [Hands -> Doing]
      /\ \A m \in Hands :
             Len(loop'[m].hand) = IF loop'[m].at \in {"moving", "etch", "failed"} THEN 1 ELSE 0
  BY <1>5, TakesLetter
<1>7. CASE SweepEtched
  <2>1. etched' = etched \cup {i.request} /\ UNCHANGED <<retrySet, ripe, letters>>
    BY <1>3, <1>7 DEF SweepEtched, EtchOne
  <2>2. etched' \subseteq Etches
    BY <2>1 DEF Item, RedisTyped, RedisForwarderTypeOK
  <2>3. RedisTyped'
    BY <1>4, <1>6, <2>1, <2>2 DEF RedisTyped, RedisForwarderTypeOK
  <2> QED BY <1>2, <1>3, <1>4, <1>6, <2>1, <2>3
<1>8. CASE SweepReturns
  <2>1. PutBack(i) /\ etched' = etched
    BY <1>3, <1>8 DEF SweepReturns
  <2>2. /\ Returned(i) /\ letters' \in Seq(Item) /\ IsFiniteSet(retrySet')
        /\ retrySet' \subseteq Item /\ ripe' \subseteq retrySet'
    BY <2>1, PutBackReturns
  <2>3. RedisTyped'
    BY <1>4, <1>6, <2>1, <2>2 DEF RedisTyped, RedisForwarderTypeOK
  <2> QED BY <1>2, <1>3, <1>4, <1>6, <2>1, <2>2, <2>3
<1> QED BY <1>7, <1>8

(* What waits for a loop, or is in its hand, is within the budget of its   *)
(* retries; what retryDLQ has in hand has used it up.                      *)
HasLeft(i) == i.attempts \in 1..(RedisMaxRetries - 1)
LoopBudget(d) ==
    /\ \A k \in DOMAIN d.todo : HasLeft(d.todo[k])
    /\ d.at = "moving" => HasLeft(d.hand[1])
    /\ d.at = "etch" => d.hand[1].attempts < RedisMaxRetries
    /\ d.at = "failed" => d.hand[1].attempts \in 1..RedisMaxRetries
SweepBudget(d) ==
    /\ \A k \in DOMAIN d.todo : d.todo[k].attempts >= RedisMaxRetries
    /\ d.at \in {"none", "etch", "failed"}
    /\ d.at # "none" => d.hand[1].attempts >= RedisMaxRetries
BudgetInv ==
    /\ RetryBudget
    /\ \A l \in Loops : LoopBudget(loop[l])
    /\ SweepBudget(loop[RetryOperator])

(* Whatever is anywhere was forwarded.                                     *)
Known(d, requests) ==
    /\ \A k \in DOMAIN d.todo : d.todo[k].request \in requests
    /\ d.hand # <<>> => d.hand[1].request \in requests
AllForwarded ==
    /\ Requested(pending) \cup Requested(letters) \cup Awaiting \subseteq forwarded
    /\ \A l \in Hands : Known(loop[l], forwarded)

(* Until a second start() there is one loop at most, and retryDLQ has      *)
(* nothing in hand before its first sweep.                                 *)
UsesTell ==
    /\ \A l \in Loops : loop[l].at = "none" => loop[l].todo = <<>>
    /\ used.starts = 0 => \A l \in Loops : loop[l].at = "none"
    /\ used.starts <= 1 =>
           \A l, m \in Loops : loop[l].at # "none" /\ loop[m].at # "none" => l = m
    /\ used.sweeps = 0 => loop[RetryOperator].at = "none"

(* ... and as long as nothing goes wrong, what the loop has yet to move is *)
(* still where it found it.                                                *)
Calm == used.starts <= 1 /\ used.faults = 0 /\ used.sweeps = 0
DuesWait(d) ==
    /\ \A k \in DOMAIN d.todo : d.todo[k] \in retrySet
    /\ \A j, k \in DOMAIN d.todo : d.todo[j] = d.todo[k] => j = k
TodoWaits == Calm => \A l \in Loops : DuesWait(loop[l])

RedisIndInv ==
    /\ RedisTyped /\ BudgetInv /\ AllForwarded /\ OnlyFaultsLose
    /\ UsesTell /\ TodoWaits /\ OneLoopOnePlace

(* The items of a queue, as it grows at either end and shrinks.            *)
ItemsOf(s) == {s[k] : k \in DOMAIN s}

LEMMA QueueAppended ==
    ASSUME NEW s \in Seq(Item), NEW i \in Item
    PROVE  /\ ItemsOf(Append(s, i)) = ItemsOf(s) \cup {i}
           /\ Requested(Append(s, i)) = Requested(s) \cup {i.request}
           /\ Once(s) /\ i.request \notin Requested(s) => Once(Append(s, i))
<1> DEFINE t == Append(s, i)
<1>1. /\ Len(s) \in Nat /\ DOMAIN s = 1..Len(s) /\ DOMAIN t = 1..(Len(s) + 1)
      /\ t[Len(s) + 1] = i /\ \A k \in 1..Len(s) : t[k] = s[k]
  OBVIOUS
<1> HIDE DEF t
<1>2. \A k \in DOMAIN t : (k \in DOMAIN s /\ t[k] = s[k]) \/ (k = Len(s) + 1 /\ t[k] = i)
  BY <1>1
<1>3. \A k \in DOMAIN s : k \in DOMAIN t /\ t[k] = s[k]
  BY <1>1
<1>4. Len(s) + 1 \in DOMAIN t /\ t[Len(s) + 1] = i
  BY <1>1
<1>5. ItemsOf(t) = ItemsOf(s) \cup {i}
  BY <1>2, <1>3, <1>4 DEF ItemsOf
<1>6. Requested(t) = Requested(s) \cup {i.request}
  BY <1>2, <1>3, <1>4 DEF Requested
<1>7. ASSUME Once(s), i.request \notin Requested(s) PROVE Once(t)
  BY <1>2, <1>7 DEF Once, Requested
<1> QED BY <1>5, <1>6, <1>7 DEF t

LEMMA QueuePrepended ==
    ASSUME NEW s \in Seq(Item), NEW i \in Item
    PROVE  /\ ItemsOf(<<i>> \o s) = ItemsOf(s) \cup {i}
           /\ Requested(<<i>> \o s) = Requested(s) \cup {i.request}
           /\ Once(s) /\ i.request \notin Requested(s) => Once(<<i>> \o s)
<1> DEFINE t == <<i>> \o s
<1>1. /\ Len(s) \in Nat /\ DOMAIN s = 1..Len(s) /\ DOMAIN t = 1..(Len(s) + 1)
      /\ t[1] = i /\ \A k \in 1..Len(s) : t[k + 1] = s[k]
  OBVIOUS
<1> HIDE DEF t
<1>2. \A k \in DOMAIN t : (k - 1 \in DOMAIN s /\ t[k] = s[k - 1]) \/ (k = 1 /\ t[k] = i)
  <2>1. ASSUME NEW k \in DOMAIN t, k # 1 PROVE k - 1 \in DOMAIN s /\ t[k] = s[k - 1]
    <3>1. k - 1 \in 1..Len(s) /\ (k - 1) + 1 = k
      BY <1>1, <2>1
    <3> QED BY <1>1, <3>1
  <2> QED BY <1>1, <2>1
<1>3. \A k \in DOMAIN s : k + 1 \in DOMAIN t /\ t[k + 1] = s[k]
  BY <1>1
<1>4. 1 \in DOMAIN t /\ t[1] = i
  BY <1>1
<1>5. ItemsOf(t) = ItemsOf(s) \cup {i}
  BY <1>2, <1>3, <1>4 DEF ItemsOf
<1>6. Requested(t) = Requested(s) \cup {i.request}
  BY <1>2, <1>3, <1>4 DEF Requested
<1>7. ASSUME Once(s), i.request \notin Requested(s) PROVE Once(t)
  <2>1. SUFFICES ASSUME NEW j \in DOMAIN t, NEW k \in DOMAIN t, t[j].request = t[k].request
                 PROVE  j = k
    BY DEF Once
  <2>2. CASE j = 1 \/ k = 1
    BY <1>2, <1>7, <2>1, <2>2 DEF Requested
  <2>3. CASE j # 1 /\ k # 1
    <3>1. /\ j - 1 \in DOMAIN s /\ k - 1 \in DOMAIN s /\ s[j - 1].request = s[k - 1].request
          /\ j \in Nat /\ k \in Nat
      BY <1>1, <1>2, <2>1, <2>3
    <3>2. j - 1 = k - 1
      BY <1>7, <3>1 DEF Once
    <3> QED BY <3>1, <3>2
  <2> QED BY <2>2, <2>3
<1> QED BY <1>5, <1>6, <1>7 DEF t

LEMMA QueueTaken ==
    ASSUME NEW s \in Seq(Item), s # <<>>
    PROVE  /\ Head(s) \in Item /\ Tail(s) \in Seq(Item)
           /\ ItemsOf(s) = ItemsOf(Tail(s)) \cup {Head(s)}
           /\ Requested(s) = Requested(Tail(s)) \cup {Head(s).request}
           /\ Once(s) => Once(Tail(s)) /\ Head(s).request \notin Requested(Tail(s))
           /\ (\A j, k \in DOMAIN s : s[j] = s[k] => j = k) =>
                  /\ \A j, k \in DOMAIN Tail(s) : Tail(s)[j] = Tail(s)[k] => j = k
                  /\ \A k \in DOMAIN Tail(s) : Tail(s)[k] # Head(s)
<1> DEFINE t == Tail(s)
<1>1. /\ Len(s) \in Nat \ {0} /\ DOMAIN s = 1..Len(s) /\ t \in Seq(Item) /\ DOMAIN t = 1..(Len(s) - 1)
      /\ Head(s) = s[1] /\ Head(s) \in Item /\ \A k \in DOMAIN t : t[k] = s[k + 1]
  OBVIOUS
<1> HIDE DEF t
<1>2. \A k \in DOMAIN t : k + 1 \in DOMAIN s /\ t[k] = s[k + 1] /\ k + 1 # 1
  BY <1>1
<1>3. \A k \in DOMAIN s : k = 1 \/ (k - 1 \in DOMAIN t /\ s[k] = t[k - 1])
  <2>1. ASSUME NEW k \in DOMAIN s, k # 1 PROVE k - 1 \in DOMAIN t /\ s[k] = t[k - 1]
    <3>1. k - 1 \in DOMAIN t /\ (k - 1) + 1 = k
      BY <1>1, <2>1
    <3> QED BY <1>2, <3>1
  <2> QED BY <2>1
<1>4. 1 \in DOMAIN s /\ s[1] = Head(s)
  BY <1>1
<1>5. ItemsOf(s) = ItemsOf(t) \cup {Head(s)}
  BY <1>2, <1>3, <1>4 DEF ItemsOf
<1>6. Requested(s) = Requested(t) \cup {Head(s).request}
  BY <1>2, <1>3, <1>4 DEF Requested
<1>7. ASSUME Once(s) PROVE Once(t) /\ Head(s).request \notin Requested(t)
  <2>1. ASSUME NEW j \in DOMAIN t, NEW k \in DOMAIN t, t[j].request = t[k].request PROVE j = k
    <3>1. j + 1 = k + 1 /\ j \in Nat /\ k \in Nat
      BY <1>1, <1>2, <1>7, <2>1 DEF Once
    <3> QED BY <3>1
  <2>2. ASSUME NEW k \in DOMAIN t, t[k].request = Head(s).request PROVE FALSE
    BY <1>2, <1>4, <1>7, <2>2 DEF Once
  <2> QED BY <2>1, <2>2 DEF Once, Requested
<1>8. ASSUME \A j, k \in DOMAIN s : s[j] = s[k] => j = k
      PROVE  /\ \A j, k \in DOMAIN t : t[j] = t[k] => j = k
             /\ \A k \in DOMAIN t : t[k] # Head(s)
  <2>1. ASSUME NEW j \in DOMAIN t, NEW k \in DOMAIN t, t[j] = t[k] PROVE j = k
    <3>1. j + 1 = k + 1 /\ j \in Nat /\ k \in Nat
      BY <1>1, <1>2, <1>8, <2>1
    <3> QED BY <3>1
  <2>2. ASSUME NEW k \in DOMAIN t, t[k] = Head(s) PROVE FALSE
    BY <1>2, <1>4, <1>8, <2>2
  <2> QED BY <2>1, <2>2
<1> QED BY <1>1, <1>5, <1>6, <1>7, <1>8 DEF t

(* The budget, when one loop, or retryDLQ, has moved.                      *)
LEMMA BudgetKept ==
    ASSUME BudgetInv, NEW l \in Hands, OthersGoOn(l),
           l \in Loops => LoopBudget(loop'[l]),
           l = RetryOperator => SweepBudget(loop'[l]),
           RetryBudget'
    PROVE  BudgetInv'
<1>1. ASSUME NEW m \in Loops PROVE LoopBudget(loop'[m])
  <2>1. CASE m = l
    BY <2>1
  <2>2. CASE m # l
    <3>1. loop'[m] = loop[m]
      BY <2>2 DEF OthersGoOn, Hands
    <3> QED BY <3>1 DEF BudgetInv
  <2> QED BY <2>1, <2>2
<1>2. SweepBudget(loop'[RetryOperator])
  <2>1. CASE l # RetryOperator
    <3>1. loop'[RetryOperator] = loop[RetryOperator]
      BY <2>1 DEF OthersGoOn, Hands
    <3> QED BY <3>1 DEF BudgetInv
  <2> QED BY <2>1
<1>3. /\ \A m \in Loops : LoopBudget(loop[m])'
      /\ SweepBudget(loop[RetryOperator])'
  BY <1>1, <1>2 DEF LoopBudget, SweepBudget, HasLeft
<1> QED BY <1>3 DEF BudgetInv

(* What waits in Redis, as sets.                                           *)
LEMMA RetryBudgetMeans ==
    RetryBudget <=> /\ \A i \in retrySet : HasLeft(i)
                    /\ \A i \in ItemsOf(pending) : i.attempts < RedisMaxRetries
                    /\ \A i \in ItemsOf(letters) : i.attempts >= RedisMaxRetries
BY DEF RetryBudget, HasLeft, ItemsOf

LEMMA RetryBudgetMeansNext ==
    RetryBudget' <=> /\ \A i \in retrySet' : HasLeft(i)
                     /\ \A i \in ItemsOf(pending') : i.attempts < RedisMaxRetries
                     /\ \A i \in ItemsOf(letters') : i.attempts >= RedisMaxRetries
BY DEF RetryBudget, HasLeft, ItemsOf

(* Whoever puts an item back keeps the budget of the queues.               *)
LEMMA ReturnedKeepsBudget ==
    ASSUME RedisTyped, RetryBudget, NEW i \in Item, i.attempts > 0, Returned(i), pending' = pending
    PROVE  RetryBudget'
<1>1. CASE i.attempts >= RedisMaxRetries /\ letters' = <<i>> \o letters /\ UNCHANGED <<retrySet, ripe>>
  <2>1. letters \in Seq(Item)
    BY DEF RedisTyped, RedisForwarderTypeOK
  <2>2. ItemsOf(letters') = ItemsOf(letters) \cup {i}
    BY <1>1, <2>1, QueuePrepended
  <2> QED BY <1>1, <2>2, RetryBudgetMeans, RetryBudgetMeansNext
<1>2. CASE /\ i.attempts < RedisMaxRetries /\ retrySet' = retrySet \cup {i} /\ letters' = letters
  <2>1. HasLeft(i)
    BY <1>2, RedisForwarderAssumption DEF HasLeft, Item
  <2> QED BY <1>2, <2>1, RetryBudgetMeans, RetryBudgetMeansNext
<1> QED BY <1>1, <1>2 DEF Returned

(* retryDLQ has letters in hand only.                                      *)
LEMMA LettersAreSpent ==
    ASSUME NEW todo \in Seq(Item), AtLetter(todo),
           \A i \in ItemsOf(todo) : i.attempts >= RedisMaxRetries
    PROVE  SweepBudget(loop'[RetryOperator])
<1>1. CASE todo = <<>>
  BY <1>1 DEF AtLetter, SweepBudget, Gone
<1>2. CASE todo # <<>>
  <2>1. PICK i, s : i = Head(todo) /\ s = Tail(todo)
    OBVIOUS
  <2>2. ItemsOf(todo) = ItemsOf(s) \cup {i}
    BY <1>2, <2>1, QueueTaken
  <2>3. /\ loop'[RetryOperator].at = "etch" /\ loop'[RetryOperator].hand = <<i>>
        /\ loop'[RetryOperator].todo = s
    BY <1>2, <2>1 DEF AtLetter
  <2>4. <<i>>[1] = i
    OBVIOUS
  <2> QED BY <2>2, <2>3, <2>4 DEF SweepBudget, ItemsOf
<1> QED BY <1>1, <1>2

(* retryDLQ is never about a loop's business.                              *)
LEMMA IsALoop ==
    ASSUME BudgetInv, NEW l \in Hands, loop[l].at \in {"asleep", "due", "moving"}
    PROVE  l \in Loops /\ l # RetryOperator
BY RedisForwarderAssumption DEF BudgetInv, SweepBudget, Hands

LEMMA BudgetStep ==
    ASSUME RedisTyped, BudgetInv, RedisForwarderNext
    PROVE  BudgetInv'
<1> USE DEF BudgetInv
<1>0. /\ RetryBudget /\ \A l \in Loops : l \in Hands /\ LoopBudget(loop[l]) /\ l # RetryOperator
      /\ RetryOperator \in Hands /\ SweepBudget(loop[RetryOperator])
      /\ pending \in Seq(Item) /\ letters \in Seq(Item)
  BY RedisForwarderAssumption DEF Hands, RedisTyped, RedisForwarderTypeOK
<1>1. ASSUME NEW r \in Etches, ForwardToRedis(r) PROVE BudgetInv'
  <2>1. PICK i \in Item : i = [request |-> r, attempts |-> 0]
    BY DEF Item
  <2>2. pending' = Append(pending, i) /\ UNCHANGED <<retrySet, letters>> /\ loop' = loop
    BY <1>1, <2>1 DEF ForwardToRedis
  <2>3. ItemsOf(pending') = ItemsOf(pending) \cup {i} /\ i.attempts < RedisMaxRetries
    BY <1>0, <2>1, <2>2, QueueAppended, RedisForwarderAssumption
  <2>4. RetryBudget'
    BY <1>0, <2>2, <2>3, RetryBudgetMeans, RetryBudgetMeansNext
  <2> QED BY <1>0, <2>2, <2>4, BudgetKept DEF OthersGoOn
<1>2. ASSUME NEW f \in Forwarders, NEW l \in Loops, StartLoop(f, l) PROVE BudgetInv'
  <2>1. /\ OthersGoOn(l) /\ loop'[l].at = "asleep" /\ loop'[l].todo = <<>>
        /\ UNCHANGED <<pending, retrySet, letters>>
    BY <1>2, StartLoopStep DEF StartLoop
  <2>2. LoopBudget(loop'[l])
    BY <2>1 DEF LoopBudget
  <2>3. RetryBudget'
    BY <1>0, <2>1 DEF RetryBudget
  <2> QED BY <1>0, <2>1, <2>2, <2>3, BudgetKept
<1>3. ASSUME LoopsEnd PROVE BudgetInv'
  <2>1. RetryBudget'
    BY <1>0, <1>3 DEF LoopsEnd, RetryBudget
  <2>2. ASSUME NEW l \in Loops PROVE LoopBudget(loop'[l])
    <3>1. loop'[l] = loop[l] \/ (loop'[l].at \in {"none", "asleep"} /\ loop'[l].todo = <<>>)
      BY <1>3 DEF LoopsEnd, Stops
    <3> QED BY <1>0, <3>1 DEF LoopBudget
  <2>3. SweepBudget(loop'[RetryOperator])
    BY <1>0, <1>3 DEF LoopsEnd
  <2>4. (\A l \in Loops : LoopBudget(loop[l])') /\ SweepBudget(loop[RetryOperator])'
    BY <2>2, <2>3 DEF LoopBudget, SweepBudget, HasLeft
  <2> QED BY <2>1, <2>4
<1>4. ASSUME NEW i \in retrySet, Ripen(i) PROVE BudgetInv'
  <2>1. loop' = loop /\ UNCHANGED <<pending, retrySet, letters>>
    BY <1>4 DEF Ripen
  <2>2. RetryBudget'
    BY <1>0, <2>1 DEF RetryBudget
  <2> QED BY <1>0, <2>1, <2>2, BudgetKept DEF OthersGoOn
<1>5. ASSUME NEW l \in Hands, Wake(l) PROVE BudgetInv'
  <2>1. /\ OthersGoOn(l) /\ loop[l].at = "asleep" /\ UNCHANGED <<pending, retrySet, letters>>
        /\ \/ loop'[l].at = "none" /\ loop'[l].todo = <<>>
           \/ /\ loop'[l].at = "due" /\ \A k \in DOMAIN loop'[l].todo : loop'[l].todo[k] \in retrySet
    BY <1>5, WakeStep
  <2>2. LoopBudget(loop'[l])
    BY <1>0, <2>1, RetryBudgetMeans DEF LoopBudget
  <2>3. RetryBudget'
    BY <1>0, <2>1 DEF RetryBudget
  <2> QED BY <2>1, <2>2, <2>3, BudgetKept, IsALoop
<1>6. ASSUME NEW l \in Hands, TakeDue(l) PROVE BudgetInv'
  <2>1. /\ OthersGoOn(l) /\ loop[l].at = "due" /\ loop[l].todo # <<>> /\ loop[l].todo \in Seq(Item)
        /\ loop'[l].at = "moving" /\ loop'[l].hand = <<Head(loop[l].todo)>>
        /\ loop'[l].todo = Tail(loop[l].todo) /\ retrySet' \subseteq retrySet
        /\ UNCHANGED <<pending, letters>>
    BY <1>6, TakeDueStep, LoopFields DEF RedisTyped
  <2>2. l \in Loops /\ l # RetryOperator
    BY <2>1, IsALoop
  <2>s. PICK s \in Seq(Item) : s = loop[l].todo
    BY <2>1
  <2>t. PICK i, t : i = Head(s) /\ t = Tail(s)
    OBVIOUS
  <2>3. s = loop[l].todo /\ i = Head(s) /\ t = Tail(s)
    BY <2>s, <2>t
  <2>4. ItemsOf(s) = ItemsOf(t) \cup {i} /\ \A j \in ItemsOf(s) : HasLeft(j)
    <3>1. s # <<>>
      BY <2>1, <2>3
    <3>2. ItemsOf(s) = ItemsOf(Tail(s)) \cup {Head(s)}
      BY <3>1, QueueTaken
    <3>3. LoopBudget(loop[l])
      BY <1>0, <2>2
    <3>4. \A j \in ItemsOf(s) : HasLeft(j)
      BY <2>3, <3>3 DEF LoopBudget, ItemsOf
    <3> QED BY <2>3, <3>2, <3>4
  <2>5. <<i>>[1] = i
    OBVIOUS
  <2>6. LoopBudget(loop'[l])
    BY <2>1, <2>3, <2>4, <2>5 DEF LoopBudget, ItemsOf
  <2>7. RetryBudget'
    BY <1>0, <2>1 DEF RetryBudget
  <2> QED BY <2>1, <2>2, <2>6, <2>7, BudgetKept
<1>7. ASSUME NEW l \in Hands, PushDue(l) PROVE BudgetInv'
  <2>1. /\ OthersGoOn(l) /\ loop[l].at = "moving" /\ loop[l].hand[1] \in Item
        /\ loop'[l].at = "due" /\ loop'[l].todo = loop[l].todo
        /\ pending' = Append(pending, loop[l].hand[1]) /\ UNCHANGED <<retrySet, letters>>
    BY <1>7, PushDueStep
  <2>2. l \in Loops /\ l # RetryOperator
    BY <2>1, IsALoop
  <2>3. LoopBudget(loop'[l]) /\ HasLeft(loop[l].hand[1])
    BY <1>0, <2>1, <2>2 DEF LoopBudget
  <2>4. ItemsOf(pending') = ItemsOf(pending) \cup {loop[l].hand[1]}
    BY <1>0, <2>1, QueueAppended
  <2>5. loop[l].hand[1].attempts < RedisMaxRetries
    BY <2>3, RedisForwarderAssumption DEF HasLeft
  <2>6. RetryBudget'
    BY <1>0, <2>1, <2>4, <2>5, RetryBudgetMeans, RetryBudgetMeansNext
  <2> QED BY <2>1, <2>2, <2>3, <2>6, BudgetKept
<1>8. ASSUME NEW l \in Loops, Pop(l) PROVE BudgetInv'
  <2>1. /\ OthersGoOn(l) /\ pending # <<>> /\ pending' = Tail(pending) /\ UNCHANGED <<retrySet, letters>>
        /\ loop'[l].at = "etch" /\ loop'[l].hand = <<Head(pending)>> /\ loop'[l].todo = loop[l].todo
    BY <1>8, PopStep
  <2>2. PICK i, s : i = Head(pending) /\ s = Tail(pending)
    OBVIOUS
  <2>3. ItemsOf(pending) = ItemsOf(s) \cup {i} /\ pending' = s
    BY <1>0, <2>1, <2>2, QueueTaken
  <2>4. <<i>>[1] = i
    OBVIOUS
  <2>5. LoopBudget(loop'[l])
    BY <1>0, <2>1, <2>2, <2>3, <2>4, RetryBudgetMeans DEF LoopBudget
  <2>6. RetryBudget'
    BY <1>0, <2>1, <2>3, RetryBudgetMeans, RetryBudgetMeansNext
  <2> QED BY <1>0, <2>1, <2>5, <2>6, BudgetKept
<1>9. ASSUME NEW l \in Loops, EtchAnswered(l) PROVE BudgetInv'
  <2>1. /\ OthersGoOn(l) /\ loop'[l].at = "batch" /\ loop'[l].todo = loop[l].todo
        /\ UNCHANGED <<pending, retrySet, letters>>
    BY <1>9, EtchAnsweredStep
  <2>2. LoopBudget(loop'[l])
    BY <1>0, <2>1 DEF LoopBudget
  <2>3. RetryBudget'
    BY <1>0, <2>1 DEF RetryBudget
  <2> QED BY <1>0, <2>1, <2>2, <2>3, BudgetKept
<1>10. ASSUME NEW l \in Hands, EtchThrows(l) PROVE BudgetInv'
  <2>1. /\ OthersGoOn(l) /\ loop[l].at = "etch" /\ loop[l].hand[1] \in Item
        /\ loop'[l].at = "failed" /\ loop'[l].todo = loop[l].todo
        /\ loop'[l].hand[1].attempts = loop[l].hand[1].attempts + 1
        /\ UNCHANGED <<pending, retrySet, letters>>
    BY <1>10, EtchThrowsStep
  <2>2. loop[l].hand[1].attempts \in Nat /\ RedisMaxRetries \in Nat
    BY <2>1, RedisForwarderAssumption DEF Item
  <2>3. l \in Loops => LoopBudget(loop'[l])
    BY SMTT(30), <1>0, <2>1, <2>2 DEF LoopBudget
  <2>4. l = RetryOperator => SweepBudget(loop'[l])
    BY <1>0, <2>1, <2>2 DEF SweepBudget
  <2>5. RetryBudget'
    BY <1>0, <2>1 DEF RetryBudget
  <2> QED BY <2>1, <2>3, <2>4, <2>5, BudgetKept
<1>11. ASSUME NEW l \in Loops, Return(l) PROVE BudgetInv'
  <2>1. /\ OthersGoOn(l) /\ loop[l].at = "failed" /\ loop[l].hand[1] \in Item
        /\ loop'[l].at = "batch" /\ loop'[l].todo = loop[l].todo
        /\ Returned(loop[l].hand[1]) /\ pending' = pending
    BY <1>11, ReturnStep
  <2>2. loop[l].hand[1].attempts > 0 /\ LoopBudget(loop'[l])
    BY <1>0, <2>1 DEF LoopBudget
  <2>3. RetryBudget'
    BY <1>0, <2>1, <2>2, ReturnedKeepsBudget
  <2> QED BY <1>0, <2>1, <2>2, <2>3, BudgetKept
<1>12. ASSUME Sweep PROVE BudgetInv'
  <2>1. OthersGoOn(RetryOperator) /\ AtLetter(letters) /\ UNCHANGED <<pending, retrySet, letters>>
    BY <1>12, SweepStep
  <2>2. SweepBudget(loop'[RetryOperator])
    BY <1>0, <2>1, LettersAreSpent, RetryBudgetMeans
  <2>3. RetryBudget'
    BY <1>0, <2>1 DEF RetryBudget
  <2> QED BY <1>0, <2>1, <2>2, <2>3, BudgetKept
<1>13. ASSUME SweepEtched \/ SweepReturns PROVE BudgetInv'
  <2> DEFINE d == loop[RetryOperator]
  <2>1. /\ OthersGoOn(RetryOperator) /\ AtLetter(d.todo) /\ d.hand[1] \in Item
        /\ UNCHANGED <<retrySet, letters>> \/ Returned(d.hand[1])
        /\ pending' = pending
    BY <1>13, SweepGoesOn
  <2>2. d.todo \in Seq(Item) /\ d.at \in {"etch", "failed"}
    BY <1>0, <1>13, LoopFields DEF RedisTyped, SweepEtched, SweepReturns
  <2>3. SweepBudget(loop'[RetryOperator])
    BY <1>0, <2>1, <2>2, LettersAreSpent DEF SweepBudget, ItemsOf
  <2>4. d.hand[1].attempts > 0
    BY <1>0, <2>1, <2>2, RedisForwarderAssumption DEF SweepBudget, Item
  <2>5. RetryBudget'
    BY <1>0, <2>1, <2>4, ReturnedKeepsBudget DEF RetryBudget
  <2> QED BY <1>0, <2>1, <2>3, <2>5, BudgetKept
<1> QED BY <1>1, <1>2, <1>3, <1>4, <1>5, <1>6, <1>7, <1>8, <1>9, <1>10, <1>11, <1>12, <1>13,
          StopLoopStep, CrashStep, TickEnds
    DEF RedisForwarderNext, Pop, EtchAnswered, Return, TickOver, TickFails

(* What is in the hand of l, before and after a step.                      *)
HoldsNext(l, r) == loop'[l].hand # <<>> /\ loop'[l].hand[1].request = r

LEMMA InHandMeansNext ==
    ASSUME NEW ls, NEW r
    PROVE  r \in InHandOf(ls)' <=> \E l \in ls : HoldsNext(l, r)
BY DEF InHandOf, HoldsNext

(* A hand of one item.                                                     *)
LEMMA OneInHand ==
    ASSUME NEW hand, NEW i \in Item, hand = <<i>>
    PROVE  hand # <<>> /\ hand[1] = i /\ Len(hand) = 1
OBVIOUS

LEMMA KnownKept ==
    ASSUME AllForwarded, NEW l \in Hands, OthersGoOn(l), forwarded \subseteq forwarded',
           Known(loop'[l], forwarded'),
           Requested(pending') \cup Requested(letters') \cup {i.request : i \in retrySet'} \subseteq forwarded'
    PROVE  AllForwarded'
<1>1. ASSUME NEW m \in Hands PROVE Known(loop'[m], forwarded')
  <2>1. CASE m = l
    BY <2>1
  <2>2. CASE m # l
    BY <2>2 DEF OthersGoOn, AllForwarded, Known
  <2> QED BY <2>1, <2>2
<1>2. \A m \in Hands : Known(loop[m], forwarded)'
  BY <1>1 DEF Known
<1>3. (Requested(pending) \cup Requested(letters) \cup Awaiting \subseteq forwarded)'
  BY DEF Requested, Awaiting
<1> QED BY <1>2, <1>3 DEF AllForwarded

LEMMA ReturnedIsKnown ==
    ASSUME RedisTyped, AllForwarded, NEW i \in Item, i.request \in forwarded, Returned(i),
           pending' = pending
    PROVE  Requested(pending') \cup Requested(letters') \cup {j.request : j \in retrySet'} \subseteq forwarded
<1>0. /\ letters \in Seq(Item) /\ Requested(pending) \subseteq forwarded
      /\ Requested(letters) \subseteq forwarded /\ \A j \in retrySet : j.request \in forwarded
  BY DEF RedisTyped, RedisForwarderTypeOK, AllForwarded, Awaiting
<1>1. CASE letters' = <<i>> \o letters /\ UNCHANGED <<retrySet, ripe>>
  <2>1. Requested(letters') = Requested(letters) \cup {i.request}
    BY <1>0, <1>1, QueuePrepended
  <2> QED BY <1>0, <1>1, <2>1
<1>2. CASE retrySet' = retrySet \cup {i} /\ letters' = letters
  BY <1>0, <1>2
<1> QED BY <1>1, <1>2 DEF Returned

LEMMA LettersAreKnown ==
    ASSUME NEW todo \in Seq(Item), AtLetter(todo), NEW requests, Requested(todo) \subseteq requests
    PROVE  Known(loop'[RetryOperator], requests)
<1>1. CASE todo = <<>>
  BY <1>1 DEF AtLetter, Known, Gone
<1>2. CASE todo # <<>>
  <2>1. PICK i \in Item, s \in Seq(Item) : i = Head(todo) /\ s = Tail(todo)
    BY <1>2, QueueTaken
  <2>2. Requested(todo) = Requested(s) \cup {i.request}
    BY <1>2, <2>1, QueueTaken
  <2>3. loop'[RetryOperator].hand = <<i>> /\ loop'[RetryOperator].todo = s
    BY <1>2, <2>1 DEF AtLetter
  <2>4. loop'[RetryOperator].hand[1] = i
    BY <2>3, OneInHand
  <2> QED BY <2>2, <2>3, <2>4 DEF Known, Requested
<1> QED BY <1>1, <1>2

LEMMA KnownStep ==
    ASSUME RedisTyped, AllForwarded, RedisForwarderNext
    PROVE  AllForwarded'
<1>0. /\ \A l \in Hands : Known(loop[l], forwarded)
      /\ Requested(pending) \subseteq forwarded /\ Requested(letters) \subseteq forwarded
      /\ \A i \in retrySet : i.request \in forwarded
      /\ RetryOperator \in Hands /\ \A l \in Loops : l \in Hands
      /\ pending \in Seq(Item) /\ letters \in Seq(Item) /\ RedisForwarderTypeOK
  BY DEF AllForwarded, Awaiting, Hands, RedisTyped, RedisForwarderTypeOK
<1>1. ASSUME NEW r \in Etches, ForwardToRedis(r) PROVE AllForwarded'
  <2>1. PICK i \in Item : i = [request |-> r, attempts |-> 0] /\ i.request = r
    <3>1. [request |-> r, attempts |-> 0] \in Item
      BY DEF Item
    <3> QED BY <3>1
  <2>2. /\ pending' = Append(pending, i) /\ forwarded' = forwarded \cup {r}
        /\ UNCHANGED <<retrySet, letters>> /\ loop' = loop
    BY <1>1, <2>1 DEF ForwardToRedis
  <2>3. Requested(pending') = Requested(pending) \cup {r}
    BY <1>0, <2>1, <2>2, QueueAppended
  <2>4. Known(loop'[RetryOperator], forwarded')
    BY <1>0, <2>2 DEF Known
  <2> QED BY <1>0, <2>2, <2>3, <2>4, KnownKept DEF OthersGoOn
<1>2. ASSUME NEW f \in Forwarders, NEW l \in Loops, StartLoop(f, l) PROVE AllForwarded'
  <2>1. /\ OthersGoOn(l) /\ loop'[l].hand = <<>> /\ loop'[l].todo = <<>>
        /\ UNCHANGED <<pending, retrySet, letters, forwarded>>
    BY <1>2, StartLoopStep DEF StartLoop
  <2>2. Known(loop'[l], forwarded')
    BY <2>1 DEF Known
  <2> QED BY <1>0, <2>1, <2>2, KnownKept
<1>3. ASSUME LoopsEnd PROVE AllForwarded'
  <2>1. ASSUME NEW l \in Hands PROVE Known(loop'[l], forwarded)
    <3>1. loop'[l] = loop[l] \/ (loop'[l].hand = <<>> /\ loop'[l].todo = <<>>)
      BY <1>3 DEF LoopsEnd, Stops, Hands
    <3> QED BY <1>0, <3>1 DEF Known
  <2>2. UNCHANGED <<pending, retrySet, letters, forwarded>>
    BY <1>3 DEF LoopsEnd
  <2>3. \A l \in Hands : Known(loop[l], forwarded)'
    BY <2>1, <2>2 DEF Known
  <2>4. (Requested(pending) \cup Requested(letters) \cup Awaiting \subseteq forwarded)'
    BY <2>2 DEF AllForwarded, Awaiting, Requested
  <2> QED BY <2>3, <2>4 DEF AllForwarded
<1>4. ASSUME NEW i \in retrySet, Ripen(i) PROVE AllForwarded'
  <2>1. loop' = loop /\ UNCHANGED <<pending, retrySet, letters, forwarded>>
    BY <1>4 DEF Ripen
  <2> QED BY <1>0, <2>1, KnownKept DEF OthersGoOn
<1>5. ASSUME NEW l \in Hands, Wake(l) PROVE AllForwarded'
  <2>1. /\ OthersGoOn(l) /\ loop'[l].hand = <<>>
        /\ UNCHANGED <<pending, retrySet, letters, forwarded>>
        /\ \/ loop'[l].todo = <<>>
           \/ \A k \in DOMAIN loop'[l].todo : loop'[l].todo[k] \in retrySet
    BY <1>5, WakeStep
  <2>2. Known(loop'[l], forwarded')
    BY <1>0, <2>1 DEF Known
  <2> QED BY <1>0, <2>1, <2>2, KnownKept
<1>6. ASSUME NEW l \in Hands, TakeDue(l) PROVE AllForwarded'
  <2>1. /\ OthersGoOn(l) /\ loop[l].todo # <<>> /\ loop'[l].hand = <<Head(loop[l].todo)>>
        /\ loop'[l].todo = Tail(loop[l].todo) /\ retrySet' \subseteq retrySet
        /\ UNCHANGED <<pending, letters, forwarded>>
    BY <1>6, TakeDueStep
  <2>2. PICK s \in Seq(Item) : s = loop[l].todo
    BY <1>0, LoopFields
  <2>e. s # <<>>
    BY <2>1, <2>2
  <2>3. PICK i \in Item, t \in Seq(Item) : i = Head(s) /\ t = Tail(s)
    BY <2>e, QueueTaken
  <2>4. Requested(s) = Requested(t) \cup {i.request}
    BY <2>e, <2>3, QueueTaken
  <2>5. Requested(s) \subseteq forwarded
    BY <1>0, <2>2 DEF Known, Requested
  <2>6. loop'[l].hand[1] = i /\ loop'[l].todo = t
    BY <2>1, <2>2, <2>3, OneInHand
  <2>7. Known(loop'[l], forwarded')
    BY <2>1, <2>4, <2>5, <2>6 DEF Known, Requested
  <2> QED BY <1>0, <2>1, <2>7, KnownKept
<1>7. ASSUME NEW l \in Hands, PushDue(l) PROVE AllForwarded'
  <2>1. /\ OthersGoOn(l) /\ loop[l].hand = <<loop[l].hand[1]>> /\ loop[l].hand[1] \in Item
        /\ loop'[l].hand = <<>> /\ loop'[l].todo = loop[l].todo
        /\ pending' = Append(pending, loop[l].hand[1]) /\ UNCHANGED <<retrySet, letters, forwarded>>
    BY <1>7, PushDueStep
  <2>2. loop[l].hand[1].request \in forwarded
    BY <1>0, <2>1, OneInHand DEF Known
  <2>3. Requested(pending') = Requested(pending) \cup {loop[l].hand[1].request}
    BY <1>0, <2>1, QueueAppended
  <2>4. Known(loop'[l], forwarded')
    BY <1>0, <2>1 DEF Known
  <2> QED BY <1>0, <2>1, <2>2, <2>3, <2>4, KnownKept
<1>8. ASSUME NEW l \in Loops, Pop(l) PROVE AllForwarded'
  <2>1. /\ OthersGoOn(l) /\ pending # <<>> /\ pending' = Tail(pending)
        /\ UNCHANGED <<retrySet, letters, forwarded>>
        /\ loop'[l].hand = <<Head(pending)>> /\ loop'[l].todo = loop[l].todo
    BY <1>8, PopStep
  <2>2. PICK i \in Item, s \in Seq(Item) : i = Head(pending) /\ s = Tail(pending)
    BY <1>0, <2>1, QueueTaken
  <2>3. Requested(pending) = Requested(s) \cup {i.request} /\ pending' = s
    BY <1>0, <2>1, <2>2, QueueTaken
  <2>4. loop'[l].hand[1] = i
    BY <2>1, <2>2, OneInHand
  <2>5. Known(loop'[l], forwarded')
    BY <1>0, <2>1, <2>3, <2>4 DEF Known
  <2> QED BY <1>0, <2>1, <2>3, <2>5, KnownKept
<1>9. ASSUME NEW l \in Loops, EtchAnswered(l) PROVE AllForwarded'
  <2>1. /\ OthersGoOn(l) /\ loop'[l].hand = <<>> /\ loop'[l].todo = loop[l].todo
        /\ UNCHANGED <<pending, retrySet, letters, forwarded>>
    BY <1>9, EtchAnsweredStep
  <2>2. Known(loop'[l], forwarded')
    BY <1>0, <2>1 DEF Known
  <2> QED BY <1>0, <2>1, <2>2, KnownKept
<1>10. ASSUME NEW l \in Hands, EtchThrows(l) PROVE AllForwarded'
  <2>1. /\ OthersGoOn(l) /\ loop[l].hand = <<loop[l].hand[1]>> /\ loop[l].hand[1] \in Item
        /\ loop'[l].todo = loop[l].todo /\ loop'[l].hand[1].request = loop[l].hand[1].request
        /\ UNCHANGED <<pending, retrySet, letters, forwarded>>
    BY <1>10, EtchThrowsStep
  <2>2. loop[l].hand[1].request \in forwarded
    BY <1>0, <2>1, OneInHand DEF Known
  <2>3. Known(loop'[l], forwarded')
    BY <1>0, <2>1, <2>2 DEF Known
  <2> QED BY <1>0, <2>1, <2>3, KnownKept
<1>11. ASSUME NEW l \in Loops, Return(l) PROVE AllForwarded'
  <2>1. /\ OthersGoOn(l) /\ loop[l].hand = <<loop[l].hand[1]>> /\ loop[l].hand[1] \in Item
        /\ loop'[l].hand = <<>> /\ loop'[l].todo = loop[l].todo
        /\ Returned(loop[l].hand[1]) /\ pending' = pending /\ forwarded' = forwarded
    BY <1>11, ReturnStep
  <2>2. loop[l].hand[1].request \in forwarded
    BY <1>0, <2>1, OneInHand DEF Known
  <2>3. Known(loop'[l], forwarded')
    BY <1>0, <2>1 DEF Known
  <2> QED BY <1>0, <2>1, <2>2, <2>3, ReturnedIsKnown, KnownKept
<1>12. ASSUME Sweep PROVE AllForwarded'
  <2>1. /\ OthersGoOn(RetryOperator) /\ AtLetter(letters)
        /\ UNCHANGED <<pending, retrySet, letters, forwarded>>
    BY <1>12, SweepStep
  <2>2. Known(loop'[RetryOperator], forwarded')
    BY <1>0, <2>1, LettersAreKnown
  <2> QED BY <1>0, <2>1, <2>2, KnownKept
<1>13. ASSUME SweepEtched \/ SweepReturns PROVE AllForwarded'
  <2> DEFINE d == loop[RetryOperator]
  <2>1. /\ OthersGoOn(RetryOperator) /\ AtLetter(d.todo) /\ d.hand = <<d.hand[1]>> /\ d.hand[1] \in Item
        /\ UNCHANGED <<retrySet, letters>> \/ Returned(d.hand[1])
        /\ pending' = pending /\ forwarded' = forwarded
    BY <1>13, SweepGoesOn
  <2>2. d.todo \in Seq(Item) /\ d.hand[1].request \in forwarded /\ Requested(d.todo) \subseteq forwarded
    BY <1>0, <2>1, LoopFields, OneInHand DEF Known, Requested
  <2>3. Known(loop'[RetryOperator], forwarded')
    BY <2>1, <2>2, LettersAreKnown
  <2>4. Requested(pending') \cup Requested(letters') \cup {j.request : j \in retrySet'} \subseteq forwarded
    BY <1>0, <2>1, <2>2, ReturnedIsKnown
  <2> QED BY <1>0, <2>1, <2>3, <2>4, KnownKept
<1> QED BY <1>1, <1>2, <1>3, <1>4, <1>5, <1>6, <1>7, <1>8, <1>9, <1>10, <1>11, <1>12, <1>13,
          StopLoopStep, CrashStep, TickEnds
    DEF RedisForwarderNext, Pop, EtchAnswered, Return, TickOver, TickFails

(* What is in Redis or in the ledger, before and after a step.             *)
Safe(r) == \/ r \in Awaiting \/ r \in Requested(pending) \/ r \in Requested(letters)
           \/ r \in etched
SafeNext(r) == \/ r \in {i.request : i \in retrySet'} \/ r \in Requested(pending')
               \/ r \in Requested(letters') \/ r \in etched'

LEMMA HeldMeans ==
    ASSUME NEW r
    PROVE  Held(r) <=> Safe(r) \/ \E l \in Hands : Holds(l, r)
<1>1. r \in InHandOf(Hands) <=> \E l \in Hands : Holds(l, r)
  BY InHandMeans
<1> QED BY <1>1 DEF Held, Safe, Awaiting, Requested

LEMMA HeldMeansNext ==
    ASSUME NEW r
    PROVE  Held(r)' <=> SafeNext(r) \/ \E l \in Hands : HoldsNext(l, r)
<1>1. r \in InHandOf(Hands)' <=> \E l \in Hands : HoldsNext(l, r)
  BY InHandMeansNext
<1>2. Held(r)' <=> \/ \E i \in retrySet' : i.request = r
                   \/ \E k \in DOMAIN pending' : pending'[k].request = r
                   \/ \E k \in DOMAIN letters' : letters'[k].request = r
                   \/ r \in InHandOf(Hands)'
                   \/ r \in etched'
  BY DEF Held, Hands, InHandOf
<1> QED BY <1>1, <1>2 DEF SafeNext, Requested

(* Nothing is lost by a step that loses nothing of what one hand holds.    *)
LEMMA NothingLostBy ==
    ASSUME OnlyFaultsLose, NEW l \in Hands, OthersGoOn(l), dropped \subseteq dropped',
           \A r \in forwarded' \ forwarded : SafeNext(r),
           \A r : Safe(r) \/ Holds(l, r) => SafeNext(r) \/ HoldsNext(l, r)
    PROVE  OnlyFaultsLose'
<1>1. ASSUME NEW r \in forwarded' PROVE Held(r)' \/ r \in dropped'
  <2>1. CASE r \in forwarded /\ r \notin dropped
    <3>1. Safe(r) \/ \E m \in Hands : Holds(m, r)
      BY <2>1, HeldMeans DEF OnlyFaultsLose
    <3>2. CASE Safe(r)
      BY <3>2, HeldMeansNext
    <3>3. ASSUME NEW m \in Hands, Holds(m, r) PROVE Held(r)'
      <4>1. CASE m = l
        BY <3>3, <4>1, HeldMeansNext
      <4>2. CASE m # l
        <5>1. HoldsNext(m, r)
          BY <3>3, <4>2 DEF Holds, HoldsNext, OthersGoOn
        <5> QED BY <5>1, HeldMeansNext
      <4> QED BY <4>1, <4>2
    <3> QED BY <3>1, <3>2, <3>3
  <2> QED BY <2>1, HeldMeansNext
<1> QED BY <1>1 DEF OnlyFaultsLose

LEMMA ReturnedIsKept ==
    ASSUME RedisTyped, NEW i \in Item, Returned(i), UNCHANGED <<pending, etched>>
    PROVE  SafeNext(i.request) /\ \A r : Safe(r) => SafeNext(r)
<1>0. letters \in Seq(Item)
  BY DEF RedisTyped, RedisForwarderTypeOK
<1>1. CASE letters' = <<i>> \o letters /\ UNCHANGED <<retrySet, ripe>>
  <2>1. Requested(letters') = Requested(letters) \cup {i.request}
    BY <1>0, <1>1, QueuePrepended
  <2> QED BY <1>1, <2>1 DEF Safe, SafeNext, Awaiting
<1>2. CASE retrySet' = retrySet \cup {i} /\ letters' = letters
  BY <1>2 DEF Safe, SafeNext, Awaiting
<1> QED BY <1>1, <1>2 DEF Returned

LEMMA LossStep ==
    ASSUME RedisTyped, OnlyFaultsLose, RedisForwarderNext
    PROVE  OnlyFaultsLose'
<1>0. /\ RetryOperator \in Hands /\ \A l \in Loops : l \in Hands
      /\ pending \in Seq(Item) /\ letters \in Seq(Item) /\ RedisForwarderTypeOK
  BY DEF Hands, RedisTyped, RedisForwarderTypeOK
<1>1. ASSUME NEW r \in Etches, ForwardToRedis(r) PROVE OnlyFaultsLose'
  <2>1. PICK i \in Item : i = [request |-> r, attempts |-> 0]
    BY DEF Item
  <2>2. /\ pending' = Append(pending, i) /\ forwarded' = forwarded \cup {r} /\ i.request = r
        /\ UNCHANGED <<retrySet, letters, etched, dropped>> /\ loop' = loop
    BY <1>1, <2>1 DEF ForwardToRedis
  <2>3. Requested(pending') = Requested(pending) \cup {r}
    BY <1>0, <2>1, <2>2, QueueAppended
  <2>4. SafeNext(r) /\ \A q : Safe(q) => SafeNext(q)
    BY <2>2, <2>3 DEF Safe, SafeNext, Awaiting
  <2>5. \A q : Holds(RetryOperator, q) => HoldsNext(RetryOperator, q)
    BY <2>2 DEF Holds, HoldsNext
  <2> QED BY <1>0, <2>2, <2>4, <2>5, NothingLostBy DEF OthersGoOn
<1>2. ASSUME NEW f \in Forwarders, NEW l \in Loops, StartLoop(f, l) PROVE OnlyFaultsLose'
  <2>1. /\ OthersGoOn(l) /\ loop[l].hand = <<>>
        /\ UNCHANGED <<pending, retrySet, letters, etched, forwarded, dropped>>
    BY <1>2, StartLoopStep DEF StartLoop
  <2>2. \A r : Safe(r) \/ Holds(l, r) => SafeNext(r)
    BY <2>1 DEF Safe, SafeNext, Holds, Awaiting
  <2> QED BY <1>0, <2>1, <2>2, NothingLostBy
<1>3. ASSUME LoopsEnd PROVE OnlyFaultsLose'
  <2>1. /\ UNCHANGED <<pending, retrySet, letters, etched, forwarded>> /\ dropped \subseteq dropped'
        /\ \A l \in Hands : loop'[l] = loop[l] \/ loop[l].hand = <<>>
                            \/ loop[l].hand[1].request \in dropped'
    BY <1>3 DEF LoopsEnd, Hands
  <2>2. ASSUME NEW r \in forwarded PROVE Held(r)' \/ r \in dropped'
    <3>1. r \in dropped \/ Safe(r) \/ \E m \in Hands : Holds(m, r)
      BY HeldMeans DEF OnlyFaultsLose
    <3>2. CASE r \in dropped
      BY <2>1, <3>2
    <3>3. CASE Safe(r)
      <4>1. SafeNext(r)
        BY <2>1, <3>3 DEF Safe, SafeNext, Awaiting
      <4> QED BY <4>1, HeldMeansNext
    <3>4. ASSUME NEW m \in Hands, Holds(m, r) PROVE Held(r)' \/ r \in dropped'
      <4>1. HoldsNext(m, r) \/ r \in dropped'
        BY <2>1, <3>4 DEF Holds, HoldsNext
      <4> QED BY <4>1, HeldMeansNext
    <3> QED BY <3>1, <3>2, <3>3, <3>4
  <2> QED BY <2>1, <2>2 DEF OnlyFaultsLose
<1>4. ASSUME NEW i \in retrySet, Ripen(i) PROVE OnlyFaultsLose'
  <2>1. loop' = loop /\ UNCHANGED <<pending, retrySet, letters, etched, forwarded, dropped>>
    BY <1>4 DEF Ripen
  <2>2. \A r : Safe(r) \/ Holds(RetryOperator, r) => SafeNext(r) \/ HoldsNext(RetryOperator, r)
    BY <2>1 DEF Safe, SafeNext, Holds, HoldsNext, Awaiting
  <2> QED BY <1>0, <2>1, <2>2, NothingLostBy DEF OthersGoOn
<1>5. ASSUME NEW l \in Hands, Wake(l) PROVE OnlyFaultsLose'
  <2>1. /\ OthersGoOn(l) /\ loop[l].hand = <<>>
        /\ UNCHANGED <<pending, retrySet, letters, etched, forwarded, dropped>>
    BY <1>5, WakeStep
  <2>2. \A r : Safe(r) \/ Holds(l, r) => SafeNext(r)
    BY <2>1 DEF Safe, SafeNext, Holds, Awaiting
  <2> QED BY <1>0, <2>1, <2>2, NothingLostBy
<1>6. ASSUME NEW l \in Hands, TakeDue(l) PROVE OnlyFaultsLose'
  <2>1. /\ OthersGoOn(l) /\ loop[l].todo # <<>> /\ loop'[l].hand = <<Head(loop[l].todo)>>
        /\ Head(loop[l].todo) \in Item /\ loop[l].hand = <<>>
        /\ retrySet' = retrySet \ {Head(loop[l].todo)}
        /\ UNCHANGED <<pending, letters, etched, forwarded, dropped>>
    BY <1>6, TakeDueStep
  <2>2. PICK i \in Item : i = Head(loop[l].todo)
    BY <2>1
  <2>3. HoldsNext(l, i.request)
    BY <2>1, <2>2, OneInHand DEF HoldsNext
  <2>4. \A r : Safe(r) \/ Holds(l, r) => SafeNext(r) \/ r = i.request
    BY <2>1, <2>2 DEF Safe, SafeNext, Holds, Awaiting
  <2> QED BY <2>1, <2>3, <2>4, NothingLostBy
<1>7. ASSUME NEW l \in Hands, PushDue(l) PROVE OnlyFaultsLose'
  <2>1. /\ OthersGoOn(l) /\ loop[l].hand[1] \in Item
        /\ pending' = Append(pending, loop[l].hand[1])
        /\ UNCHANGED <<retrySet, letters, etched, forwarded, dropped>>
    BY <1>7, PushDueStep
  <2>2. Requested(pending') = Requested(pending) \cup {loop[l].hand[1].request}
    BY <1>0, <2>1, QueueAppended
  <2>3. \A r : Safe(r) \/ Holds(l, r) => SafeNext(r)
    BY <2>1, <2>2 DEF Safe, SafeNext, Holds, Awaiting
  <2> QED BY <2>1, <2>3, NothingLostBy
<1>8. ASSUME NEW l \in Loops, Pop(l) PROVE OnlyFaultsLose'
  <2>1. /\ OthersGoOn(l) /\ pending # <<>> /\ pending' = Tail(pending) /\ loop[l].hand = <<>>
        /\ UNCHANGED <<retrySet, letters, etched, forwarded, dropped>>
        /\ loop'[l].hand = <<Head(pending)>>
    BY <1>8, PopStep
  <2>2. PICK i \in Item, s \in Seq(Item) : i = Head(pending) /\ s = Tail(pending)
    BY <1>0, <2>1, QueueTaken
  <2>3. Requested(pending) = Requested(s) \cup {i.request} /\ pending' = s
    BY <1>0, <2>1, <2>2, QueueTaken
  <2>4. HoldsNext(l, i.request)
    BY <2>1, <2>2, OneInHand DEF HoldsNext
  <2>5. \A r : Safe(r) \/ Holds(l, r) => SafeNext(r) \/ r = i.request
    BY <2>1, <2>3 DEF Safe, SafeNext, Holds, Awaiting
  <2> QED BY <1>0, <2>1, <2>4, <2>5, NothingLostBy
<1>9. ASSUME NEW l \in Loops, EtchAnswered(l) PROVE OnlyFaultsLose'
  <2>1. /\ OthersGoOn(l) /\ etched' = etched \cup {loop[l].hand[1].request}
        /\ UNCHANGED <<pending, retrySet, letters, forwarded, dropped>>
    BY <1>9, EtchAnsweredStep
  <2>2. \A r : Safe(r) \/ Holds(l, r) => SafeNext(r)
    BY <2>1 DEF Safe, SafeNext, Holds, Awaiting
  <2> QED BY <1>0, <2>1, <2>2, NothingLostBy
<1>10. ASSUME NEW l \in Hands, EtchThrows(l) PROVE OnlyFaultsLose'
  <2>1. /\ OthersGoOn(l) /\ loop'[l].hand[1] \in Item /\ loop'[l].hand = <<loop'[l].hand[1]>>
        /\ loop'[l].hand[1].request = loop[l].hand[1].request /\ etched \subseteq etched'
        /\ UNCHANGED <<pending, retrySet, letters, forwarded, dropped>>
    BY <1>10, EtchThrowsStep
  <2>2. loop'[l].hand # <<>>
    BY <2>1, OneInHand
  <2>3. \A r : Safe(r) \/ Holds(l, r) => SafeNext(r) \/ HoldsNext(l, r)
    BY <2>1, <2>2 DEF Safe, SafeNext, Holds, HoldsNext, Awaiting
  <2> QED BY <2>1, <2>3, NothingLostBy
<1>11. ASSUME NEW l \in Loops, Return(l) PROVE OnlyFaultsLose'
  <2>1. /\ OthersGoOn(l) /\ loop[l].hand[1] \in Item /\ Returned(loop[l].hand[1])
        /\ UNCHANGED <<pending, etched, forwarded, dropped>>
    BY <1>11, ReturnStep
  <2>2. SafeNext(loop[l].hand[1].request) /\ \A r : Safe(r) => SafeNext(r)
    BY <2>1, ReturnedIsKept
  <2>3. \A r : Safe(r) \/ Holds(l, r) => SafeNext(r)
    BY <2>2 DEF Holds
  <2> QED BY <1>0, <2>1, <2>3, NothingLostBy
<1>12. ASSUME Sweep PROVE OnlyFaultsLose'
  <2>1. /\ OthersGoOn(RetryOperator) /\ loop[RetryOperator].hand = <<>>
        /\ UNCHANGED <<pending, retrySet, letters, etched, forwarded, dropped>>
    BY <1>12, SweepStep
  <2>2. \A r : Safe(r) \/ Holds(RetryOperator, r) => SafeNext(r)
    BY <2>1 DEF Safe, SafeNext, Holds, Awaiting
  <2> QED BY <1>0, <2>1, <2>2, NothingLostBy
<1>13. ASSUME SweepEtched \/ SweepReturns PROVE OnlyFaultsLose'
  <2>1. /\ OthersGoOn(RetryOperator) /\ loop[RetryOperator].hand[1] \in Item
        /\ \/ /\ etched' = etched \cup {loop[RetryOperator].hand[1].request}
              /\ UNCHANGED <<retrySet, ripe, letters>>
           \/ Returned(loop[RetryOperator].hand[1]) /\ UNCHANGED etched
        /\ UNCHANGED <<pending, forwarded, dropped>>
    BY <1>13, SweepGoesOn
  <2>2. SafeNext(loop[RetryOperator].hand[1].request) /\ \A r : Safe(r) => SafeNext(r)
    <3>1. CASE /\ etched' = etched \cup {loop[RetryOperator].hand[1].request}
               /\ UNCHANGED <<retrySet, ripe, letters>>
      BY <2>1, <3>1 DEF Safe, SafeNext, Awaiting
    <3>2. CASE Returned(loop[RetryOperator].hand[1]) /\ UNCHANGED etched
      BY <2>1, <3>2, ReturnedIsKept
    <3> QED BY <2>1, <3>1, <3>2
  <2>3. \A r : Safe(r) \/ Holds(RetryOperator, r) => SafeNext(r)
    BY <2>2 DEF Holds
  <2> QED BY <1>0, <2>1, <2>3, NothingLostBy
<1> QED BY <1>1, <1>2, <1>3, <1>4, <1>5, <1>6, <1>7, <1>8, <1>9, <1>10, <1>11, <1>12, <1>13,
          StopLoopStep, CrashStep, TickEnds
    DEF RedisForwarderNext, Pop, EtchAnswered, Return, TickOver, TickFails

(* Loops come into being by start() only.                                  *)
LEMMA UsesKept ==
    ASSUME UsesTell, NEW l \in Hands, OthersGoOn(l), l \in Loops => loop[l].at # "none",
           l \in Loops => (loop'[l].at = "none" => loop'[l].todo = <<>>),
           UNCHANGED used, l = RetryOperator => used.sweeps # 0 \/ loop'[l].at = "none"
    PROVE  UsesTell'
<1>1. \A m \in Loops : (m # l => loop'[m] = loop[m]) /\ (loop'[m].at # "none" => loop[m].at # "none")
  BY DEF OthersGoOn, Hands
<1>2. \A m \in Loops : loop'[m].at = "none" => loop'[m].todo = <<>>
  BY <1>1 DEF UsesTell
<1>3. used.sweeps = 0 => loop'[RetryOperator].at = "none"
  BY DEF UsesTell, OthersGoOn, Hands
<1>4. used.starts = 0 => \A m \in Loops : loop'[m].at = "none"
  BY <1>1 DEF UsesTell
<1>5. used.starts <= 1 => \A j, k \in Loops : loop'[j].at # "none" /\ loop'[k].at # "none" => j = k
  BY <1>1 DEF UsesTell
<1> QED BY <1>2, <1>3, <1>4, <1>5 DEF UsesTell

LEMMA UsesStep ==
    ASSUME RedisTyped, BudgetInv, UsesTell, RedisForwarderNext
    PROVE  UsesTell'
<1>0. /\ RetryOperator \in Hands /\ \A l \in Loops : l \in Hands /\ l # RetryOperator
      /\ used.starts \in Nat /\ used.sweeps \in Nat
  BY RedisForwarderAssumption DEF Hands, RedisTyped, RedisForwarderTypeOK
<1>e. ASSUME loop' = loop, used' = used PROVE UsesTell'
  BY <1>e DEF UsesTell
<1>1. ASSUME NEW r \in Etches, ForwardToRedis(r) PROVE UsesTell'
  BY <1>1, <1>e DEF ForwardToRedis
<1>2. ASSUME NEW f \in Forwarders, NEW l \in Loops, StartLoop(f, l) PROVE UsesTell'
  <2>1. /\ OthersGoOn(l) /\ loop'[l].todo = <<>>
        /\ used'.starts = used.starts + 1 /\ used'.sweeps = used.sweeps
    BY <1>2, StartLoopStep
  <2>2. \A m \in Loops : m # l => loop'[m] = loop[m]
    BY <2>1 DEF OthersGoOn, Hands
  <2>3. used'.starts # 0 /\ (used'.starts <= 1 => used.starts = 0)
    BY <1>0, <2>1
  <2>4. used'.starts <= 1 => \A m \in Loops : m # l => loop'[m].at = "none"
    BY <2>2, <2>3 DEF UsesTell
  <2>5. \A m \in Loops : loop'[m].at = "none" => loop'[m].todo = <<>>
    BY <2>1, <2>2 DEF UsesTell
  <2>6. used'.sweeps = 0 => loop'[RetryOperator].at = "none"
    BY <1>0, <2>1 DEF UsesTell, OthersGoOn
  <2> QED BY <2>3, <2>4, <2>5, <2>6 DEF UsesTell
<1>3. ASSUME LoopsEnd PROVE UsesTell'
  <2>1. /\ \A l \in Loops : loop'[l] = loop[l] \/ Stops(l)
        /\ loop'[RetryOperator] = loop[RetryOperator]
        /\ used'.starts = used.starts /\ used'.sweeps = used.sweeps
    BY <1>3 DEF LoopsEnd
  <2>2. \A l \in Loops : loop'[l].at # "none" => loop[l].at # "none"
    BY <2>1 DEF Stops
  <2>3. \A l \in Loops : loop'[l].at = "none" => loop'[l].todo = <<>>
    BY <2>1 DEF Stops, UsesTell
  <2>4. used'.starts = 0 => \A l \in Loops : loop'[l].at = "none"
    BY <2>1, <2>2 DEF UsesTell
  <2>5. used'.starts <= 1 => \A j, k \in Loops : loop'[j].at # "none" /\ loop'[k].at # "none" => j = k
    BY <2>1, <2>2 DEF UsesTell
  <2>6. used'.sweeps = 0 => loop'[RetryOperator].at = "none"
    BY <2>1 DEF UsesTell
  <2> QED BY <2>3, <2>4, <2>5, <2>6 DEF UsesTell
<1>4. ASSUME NEW i \in retrySet, Ripen(i) PROVE UsesTell'
  BY <1>4, <1>e DEF Ripen
<1>5. ASSUME NEW l \in Hands, Wake(l) PROVE UsesTell'
  <2>1. /\ OthersGoOn(l) /\ loop[l].at = "asleep" /\ UNCHANGED used
        /\ loop'[l].at = "none" => loop'[l].todo = <<>>
    BY <1>5, WakeStep
  <2> QED BY <2>1, IsALoop, UsesKept
<1>6. ASSUME NEW l \in Hands, TakeDue(l) PROVE UsesTell'
  <2>1. OthersGoOn(l) /\ loop[l].at = "due" /\ loop'[l].at = "moving" /\ UNCHANGED used
    BY <1>6, TakeDueStep
  <2> QED BY <2>1, IsALoop, UsesKept
<1>7. ASSUME NEW l \in Hands, PushDue(l) PROVE UsesTell'
  <2>1. OthersGoOn(l) /\ loop[l].at = "moving" /\ loop'[l].at = "due" /\ UNCHANGED used
    BY <1>7, PushDueStep
  <2> QED BY <2>1, IsALoop, UsesKept
<1>8. ASSUME NEW l \in Loops, Pop(l) PROVE UsesTell'
  <2>1. OthersGoOn(l) /\ loop[l].at \in {"due", "batch"} /\ loop'[l].at = "etch" /\ UNCHANGED used
    BY <1>8, PopStep
  <2> QED BY <1>0, <2>1, UsesKept
<1>9. ASSUME NEW l \in Loops, EtchAnswered(l) PROVE UsesTell'
  <2>1. OthersGoOn(l) /\ loop[l].at = "etch" /\ loop'[l].at = "batch" /\ UNCHANGED used
    BY <1>9, EtchAnsweredStep
  <2> QED BY <1>0, <2>1, UsesKept
<1>10. ASSUME NEW l \in Hands, EtchThrows(l) PROVE UsesTell'
  <2>1. OthersGoOn(l) /\ loop[l].at = "etch" /\ loop'[l].at = "failed" /\ UNCHANGED used
    BY <1>10, EtchThrowsStep
  <2>2. l = RetryOperator => used.sweeps # 0
    BY <2>1 DEF UsesTell
  <2> QED BY <1>0, <2>1, <2>2, UsesKept
<1>11. ASSUME NEW l \in Loops, Return(l) PROVE UsesTell'
  <2>1. OthersGoOn(l) /\ loop[l].at = "failed" /\ loop'[l].at = "batch" /\ UNCHANGED used
    BY <1>11, ReturnStep
  <2> QED BY <1>0, <2>1, UsesKept
<1>12. ASSUME Sweep PROVE UsesTell'
  <2>1. OthersGoOn(RetryOperator) /\ used'.starts = used.starts /\ used'.sweeps # 0
    BY <1>0, <1>12, SweepStep
  <2>2. \A m \in Loops : loop'[m] = loop[m]
    BY <1>0, <2>1 DEF OthersGoOn
  <2> QED BY <2>1, <2>2 DEF UsesTell
<1>13. ASSUME SweepEtched \/ SweepReturns PROVE UsesTell'
  <2>1. OthersGoOn(RetryOperator) /\ UNCHANGED used /\ loop[RetryOperator].at # "none"
    BY <1>13, SweepGoesOn DEF SweepEtched, SweepReturns
  <2>2. used.sweeps # 0
    BY <2>1 DEF UsesTell
  <2> QED BY <1>0, <2>1, <2>2, UsesKept
<1> QED BY <1>1, <1>2, <1>3, <1>4, <1>5, <1>6, <1>7, <1>8, <1>9, <1>10, <1>11, <1>12, <1>13,
          StopLoopStep, CrashStep, TickEnds
    DEF RedisForwarderNext, Pop, EtchAnswered, Return, TickOver, TickFails

(* The places of a request, with h the requests in hand.                   *)
Apart(p, s, d, h) ==
    /\ Once(p) /\ Once(d)
    /\ \A i, j \in s : i.request = j.request => i = j
    /\ Requested(p) \cap Requested(d) = {}
    /\ \A i \in s : i.request \notin Requested(p) \cup Requested(d) \cup h
    /\ (Requested(p) \cup Requested(d)) \cap h = {}

LEMMA ApartMeans ==
    OneLoopOnePlace <=> (Calm => Apart(pending, retrySet, letters, InHandOf(Loops)))
BY DEF OneLoopOnePlace, Calm, Apart, Awaiting

LEMMA ApartMeansNext ==
    OneLoopOnePlace' <=> (Calm' => Apart(pending', retrySet', letters', InHandOf(Loops)'))
<1>1. (InHandOf(Loops) \cap Awaiting = {})' <=> InHandOf(Loops)' \cap {i.request : i \in retrySet'} = {}
  BY DEF Awaiting, InHandOf
<1>2. Awaiting' = {i.request : i \in retrySet'} /\ Requested(pending)' = Requested(pending')
      /\ Requested(letters)' = Requested(letters') /\ (Once(pending)' <=> Once(pending'))
      /\ (Once(letters)' <=> Once(letters'))
  BY DEF Awaiting, Requested, Once
<1>3. Calm' <=> used'.starts <= 1 /\ used'.faults = 0 /\ used'.sweeps = 0
  BY DEF Calm
<1>4. OneLoopOnePlace' <=>
      (Calm' => /\ Once(pending') /\ Once(letters')
                /\ \A i, j \in retrySet' : i.request = j.request => i = j
                /\ Requested(pending') \cap Requested(letters') = {}
                /\ (Requested(pending') \cup Requested(letters')) \cap
                       (InHandOf(Loops)' \cup {i.request : i \in retrySet'}) = {}
                /\ InHandOf(Loops)' \cap {i.request : i \in retrySet'} = {})
  BY <1>1, <1>2, <1>3 DEF OneLoopOnePlace
<1> QED BY <1>4 DEF Apart

(* With one loop, what is in hand is in its hand.                          *)
HandOf(d) == IF d.hand = <<>> THEN {} ELSE {d.hand[1].request}

LEMMA OnlyHand ==
    ASSUME RedisTyped, UsesTell, used.starts <= 1, NEW l \in Loops, loop[l].at # "none", OthersGoOn(l)
    PROVE  /\ InHandOf(Loops) = HandOf(loop[l]) /\ InHandOf(Loops)' = HandOf(loop'[l])
           /\ \A m \in Loops \ {l} : loop'[m] = loop[m] /\ loop[m].todo = <<>>
<1>1. \A m \in Loops \ {l} : loop[m].at = "none" /\ loop[m].hand = <<>> /\ loop[m].todo = <<>>
                             /\ loop'[m] = loop[m]
  BY LoopFields DEF UsesTell, RedisTyped, Hands, OthersGoOn
<1>2. \A r : r \in InHandOf(Loops) <=> Holds(l, r)
  BY <1>1, InHandMeans DEF Holds
<1>3. \A r : r \in InHandOf(Loops)' <=> HoldsNext(l, r)
  BY <1>1, InHandMeansNext DEF HoldsNext
<1>4. InHandOf(Loops) = HandOf(loop[l])
  BY <1>2 DEF Holds, HandOf
<1>5. InHandOf(Loops)' = HandOf(loop'[l])
  BY <1>3 DEF HoldsNext, HandOf
<1> QED BY <1>1, <1>4, <1>5

LEMMA HandOfOne ==
    ASSUME NEW d, NEW i \in Item, d.hand = <<i>>
    PROVE  HandOf(d) = {i.request}
BY OneInHand DEF HandOf

LEMMA HandOfNone ==
    ASSUME NEW d, d.hand = <<>>
    PROVE  HandOf(d) = {}
BY DEF HandOf

(* What is yet to be moved still waits, when the one loop there is turns.  *)
LEMMA TodoKept ==
    ASSUME RedisTyped, UsesTell, used.starts <= 1, NEW l \in Loops, loop[l].at # "none",
           OthersGoOn(l), DuesWait(loop[l])'
    PROVE  TodoWaits'
<1>1. ASSUME NEW m \in Loops PROVE DuesWait(loop[m])'
  <2>1. CASE m = l
    BY <2>1
  <2>2. CASE m # l
    <3>1. loop'[m].todo = <<>>
      BY <2>2, OnlyHand
    <3> QED BY <3>1 DEF DuesWait
  <2> QED BY <2>1, <2>2
<1> QED BY <1>1 DEF TodoWaits

(* No loop moves: the places of what waits do.                             *)
LEMMA PlacesStay ==
    ASSUME TodoWaits, OneLoopOnePlace, Calm' => Calm, retrySet' = retrySet, letters' = letters,
           pending' = pending,
           \A l \in Loops : loop'[l] = loop[l] \/ (loop'[l].hand = <<>> /\ loop'[l].todo = <<>>)
    PROVE  TodoWaits' /\ OneLoopOnePlace'
<1>1. Calm' => \A l \in Loops : DuesWait(loop[l])'
  BY DEF TodoWaits, DuesWait
<1>2. InHandOf(Loops)' \subseteq InHandOf(Loops)
  <2>1. \A r : \A l \in Loops : HoldsNext(l, r) => Holds(l, r)
    BY DEF Holds, HoldsNext
  <2> QED BY <2>1, InHandMeans, InHandMeansNext
<1>3. Calm' => Apart(pending', retrySet', letters', InHandOf(Loops)')
  BY <1>2, ApartMeans DEF Apart
<1>4. TodoWaits'
  BY <1>1 DEF TodoWaits
<1> QED BY <1>3, <1>4, ApartMeansNext

LEMMA PlacesStep ==
    ASSUME RedisTyped, BudgetInv, AllForwarded, UsesTell, TodoWaits, OneLoopOnePlace,
           RedisForwarderNext
    PROVE  TodoWaits' /\ OneLoopOnePlace'
<1>0. /\ RetryOperator \in Hands /\ \A l \in Loops : l \in Hands /\ l # RetryOperator
      /\ used.starts \in Nat /\ used.faults \in Nat /\ used.sweeps \in Nat
      /\ pending \in Seq(Item) /\ letters \in Seq(Item) /\ RedisForwarderTypeOK
      /\ retrySet \subseteq Item
  BY RedisForwarderAssumption DEF Hands, RedisTyped, RedisForwarderTypeOK
<1>c. Calm => /\ used.starts <= 1 /\ \A l \in Loops : DuesWait(loop[l])
              /\ Apart(pending, retrySet, letters, InHandOf(Loops))
              /\ loop[RetryOperator].at = "none"
  BY ApartMeans DEF Calm, TodoWaits, UsesTell
<1>n. ASSUME Calm' => TodoWaits' /\ Apart(pending', retrySet', letters', InHandOf(Loops)')
      PROVE  TodoWaits' /\ OneLoopOnePlace'
  <2>1. ~Calm' => TodoWaits'
    BY DEF TodoWaits, Calm
  <2> QED BY <1>n, <2>1, ApartMeansNext
<1>u. used' = used => (Calm' <=> Calm)
  BY DEF Calm
<1>1. ASSUME NEW r \in Etches, ForwardToRedis(r) PROVE TodoWaits' /\ OneLoopOnePlace'
  <2>1. PICK i \in Item : i = [request |-> r, attempts |-> 0]
    BY DEF Item
  <2>2. /\ pending' = Append(pending, i) /\ i.request = r /\ r \notin forwarded
        /\ UNCHANGED <<retrySet, letters, used>> /\ loop' = loop
    BY <1>1, <2>1 DEF ForwardToRedis
  <2>3. /\ Requested(pending') = Requested(pending) \cup {r}
        /\ Once(pending) /\ r \notin Requested(pending) => Once(pending')
    BY <1>0, <2>2, QueueAppended
  <2>4. /\ r \notin Requested(pending) /\ r \notin Requested(letters) /\ \A j \in retrySet : j.request # r
    BY <2>2 DEF AllForwarded, Awaiting
  <2>5. r \notin InHandOf(Loops) /\ InHandOf(Loops)' = InHandOf(Loops)
    <3>1. \A l \in Loops : ~Holds(l, r)
      BY <1>0, <2>2 DEF AllForwarded, Known, Holds
    <3> QED BY <2>2, <3>1, InHandMeans DEF InHandOf
  <2>6. Calm => Apart(pending', retrySet', letters', InHandOf(Loops)')
    BY <1>c, <2>2, <2>3, <2>4, <2>5 DEF Apart
  <2>7. TodoWaits'
    BY <2>2 DEF TodoWaits, DuesWait, Calm
  <2> QED BY <1>n, <1>u, <2>2, <2>6, <2>7
<1>2. ASSUME NEW f \in Forwarders, NEW l \in Loops, StartLoop(f, l) PROVE TodoWaits' /\ OneLoopOnePlace'
  <2>1. /\ OthersGoOn(l) /\ loop'[l].todo = <<>> /\ loop'[l].hand = <<>>
        /\ used'.starts = used.starts + 1 /\ used'.sweeps = used.sweeps /\ used'.faults = used.faults
        /\ UNCHANGED <<pending, retrySet, letters>>
    BY <1>2, StartLoopStep DEF StartLoop
  <2>2. Calm' => Calm
    BY <1>0, <2>1 DEF Calm
  <2>3. \A m \in Loops : loop'[m] = loop[m] \/ (loop'[m].hand = <<>> /\ loop'[m].todo = <<>>)
    BY <1>0, <2>1 DEF OthersGoOn
  <2> QED BY <2>1, <2>2, <2>3, PlacesStay
<1>3. ASSUME LoopsEnd PROVE TodoWaits' /\ OneLoopOnePlace'
  <2>1. Calm' => Calm
    BY <1>0, <1>3 DEF LoopsEnd, Calm
  <2>2. /\ UNCHANGED <<pending, retrySet, letters>>
        /\ \A m \in Loops : loop'[m] = loop[m] \/ (loop'[m].hand = <<>> /\ loop'[m].todo = <<>>)
    BY <1>3 DEF LoopsEnd, Stops
  <2> QED BY <2>1, <2>2, PlacesStay
<1>4. ASSUME NEW i \in retrySet, Ripen(i) PROVE TodoWaits' /\ OneLoopOnePlace'
  <2>1. loop' = loop /\ UNCHANGED <<pending, retrySet, letters, used>>
    BY <1>4 DEF Ripen
  <2> QED BY <1>u, <2>1, PlacesStay
<1>5. ASSUME NEW l \in Hands, Wake(l) PROVE TodoWaits' /\ OneLoopOnePlace'
  <2>1. /\ OthersGoOn(l) /\ loop[l].at = "asleep" /\ loop'[l].hand = <<>> /\ loop[l].hand = <<>>
        /\ UNCHANGED <<pending, retrySet, letters, used>>
        /\ \/ loop'[l].todo = <<>>
           \/ /\ \A k \in DOMAIN loop'[l].todo : loop'[l].todo[k] \in retrySet
              /\ \A j, k \in DOMAIN loop'[l].todo : loop'[l].todo[j] = loop'[l].todo[k] => j = k
    BY <1>5, WakeStep
  <2>2. l \in Loops
    BY <2>1, IsALoop
  <2>3. DuesWait(loop[l])'
    BY <2>1 DEF DuesWait
  <2>4. ASSUME Calm PROVE InHandOf(Loops)' = InHandOf(Loops)
    <3>1. InHandOf(Loops) = HandOf(loop[l]) /\ InHandOf(Loops)' = HandOf(loop'[l])
      BY <1>c, <2>1, <2>2, <2>4, OnlyHand
    <3> QED BY <2>1, <3>1, HandOfNone
  <2>5. Calm => TodoWaits'
    BY <1>c, <2>1, <2>2, <2>3, TodoKept
  <2> QED BY <1>c, <1>n, <1>u, <2>1, <2>4, <2>5
<1>6. ASSUME NEW l \in Hands, TakeDue(l) PROVE TodoWaits' /\ OneLoopOnePlace'
  <2>1. /\ OthersGoOn(l) /\ loop[l].at = "due" /\ loop[l].todo # <<>> /\ loop[l].hand = <<>>
        /\ loop'[l].hand = <<Head(loop[l].todo)>> /\ loop'[l].todo = Tail(loop[l].todo)
        /\ retrySet' = retrySet \ {Head(loop[l].todo)} /\ UNCHANGED <<pending, letters, used>>
    BY <1>6, TakeDueStep
  <2>2. l \in Loops
    BY <2>1, IsALoop
  <2>3. PICK s \in Seq(Item) : s = loop[l].todo
    BY <1>0, LoopFields
  <2>e. s # <<>>
    BY <2>1, <2>3
  <2>4. PICK i \in Item, t \in Seq(Item) : i = Head(s) /\ t = Tail(s)
    BY <2>e, QueueTaken
  <2>5. /\ ItemsOf(s) = ItemsOf(t) \cup {i}
        /\ (\A j, k \in DOMAIN s : s[j] = s[k] => j = k) =>
               /\ \A j, k \in DOMAIN t : t[j] = t[k] => j = k
               /\ \A k \in DOMAIN t : t[k] # i
    BY <2>e, <2>4, QueueTaken
  <2>6. loop'[l].hand = <<i>> /\ loop'[l].todo = t /\ retrySet' = retrySet \ {i}
    BY <2>1, <2>3, <2>4
  <2>7. ASSUME Calm PROVE TodoWaits' /\ Apart(pending', retrySet', letters', InHandOf(Loops)')
    <3>1. DuesWait(loop[l]) /\ Apart(pending, retrySet, letters, InHandOf(Loops)) /\ used.starts <= 1
      BY <1>c, <2>2, <2>7
    <3>2. i \in retrySet /\ \A k \in DOMAIN t : t[k] \in retrySet
      <4>1. \A j \in ItemsOf(s) : j \in retrySet
        BY <2>3, <3>1 DEF DuesWait, ItemsOf
      <4>2. \A k \in DOMAIN t : t[k] \in ItemsOf(t)
        BY DEF ItemsOf
      <4> QED BY <2>5, <4>1, <4>2
    <3>3. /\ \A k \in DOMAIN t : t[k] \in retrySet'
          /\ \A j, k \in DOMAIN t : t[j] = t[k] => j = k
      BY <2>3, <2>5, <2>6, <3>1, <3>2 DEF DuesWait
    <3>4. DuesWait(loop[l])'
      BY <2>6, <3>3 DEF DuesWait
    <3>5. TodoWaits'
      BY <2>1, <2>2, <3>1, <3>4, TodoKept
    <3>6. InHandOf(Loops)' = {i.request}
      BY <2>1, <2>2, <2>6, <3>1, OnlyHand, HandOfOne
    <3> QED BY <2>1, <2>6, <3>1, <3>2, <3>5, <3>6 DEF Apart
  <2> QED BY <1>n, <1>u, <2>1, <2>7
<1>7. ASSUME NEW l \in Hands, PushDue(l) PROVE TodoWaits' /\ OneLoopOnePlace'
  <2>1. /\ OthersGoOn(l) /\ loop[l].at = "moving" /\ loop[l].hand = <<loop[l].hand[1]>>
        /\ loop[l].hand[1] \in Item /\ loop'[l].hand = <<>> /\ loop'[l].todo = loop[l].todo
        /\ pending' = Append(pending, loop[l].hand[1]) /\ UNCHANGED <<retrySet, letters, used>>
    BY <1>7, PushDueStep
  <2>2. l \in Loops
    BY <2>1, IsALoop
  <2>3. PICK i \in Item : i = loop[l].hand[1]
    BY <2>1
  <2>4. /\ Requested(pending') = Requested(pending) \cup {i.request}
        /\ Once(pending) /\ i.request \notin Requested(pending) => Once(pending')
    BY <1>0, <2>1, <2>3, QueueAppended
  <2>5. ASSUME Calm PROVE TodoWaits' /\ Apart(pending', retrySet', letters', InHandOf(Loops)')
    <3>1. DuesWait(loop[l]) /\ Apart(pending, retrySet, letters, InHandOf(Loops)) /\ used.starts <= 1
      BY <1>c, <2>2, <2>5
    <3>2. InHandOf(Loops) = {i.request} /\ InHandOf(Loops)' = {}
      BY <2>1, <2>2, <2>3, <3>1, OnlyHand, HandOfOne, HandOfNone
    <3>3. DuesWait(loop[l])'
      BY <2>1, <3>1 DEF DuesWait
    <3>4. TodoWaits'
      BY <2>1, <2>2, <3>1, <3>3, TodoKept
    <3> QED BY <2>1, <2>4, <3>1, <3>2, <3>4 DEF Apart
  <2> QED BY <1>n, <1>u, <2>1, <2>5
<1>8. ASSUME NEW l \in Loops, Pop(l) PROVE TodoWaits' /\ OneLoopOnePlace'
  <2>1. /\ OthersGoOn(l) /\ pending # <<>> /\ pending' = Tail(pending) /\ loop[l].hand = <<>>
        /\ loop[l].at # "none" /\ loop'[l].hand = <<Head(pending)>> /\ loop'[l].todo = loop[l].todo
        /\ UNCHANGED <<retrySet, letters, used>>
    BY <1>8, PopStep
  <2>2. PICK i \in Item, s \in Seq(Item) : i = Head(pending) /\ s = Tail(pending)
    BY <1>0, <2>1, QueueTaken
  <2>3. /\ Requested(pending) = Requested(s) \cup {i.request} /\ pending' = s
        /\ Once(pending) => Once(s) /\ i.request \notin Requested(s)
    BY <1>0, <2>1, <2>2, QueueTaken
  <2>4. ASSUME Calm PROVE TodoWaits' /\ Apart(pending', retrySet', letters', InHandOf(Loops)')
    <3>1. DuesWait(loop[l]) /\ Apart(pending, retrySet, letters, InHandOf(Loops)) /\ used.starts <= 1
      BY <1>c, <2>4
    <3>2. InHandOf(Loops)' = {i.request}
      BY <2>1, <2>2, <3>1, OnlyHand, HandOfOne
    <3>3. DuesWait(loop[l])'
      BY <2>1, <3>1 DEF DuesWait
    <3>4. TodoWaits'
      BY <1>0, <2>1, <3>1, <3>3, TodoKept
    <3>5. Once(pending') /\ Once(letters') /\ letters' = letters /\ retrySet' = retrySet
      BY <2>1, <2>3, <3>1 DEF Apart
    <3>6. /\ \A a, b \in retrySet : a.request = b.request => a = b
          /\ Requested(pending') \cap Requested(letters) = {}
      BY <2>3, <3>1 DEF Apart
    <3>7. \A a \in retrySet :
              a.request \notin Requested(pending') \cup Requested(letters) \cup {i.request}
      BY <2>3, <3>1 DEF Apart
    <3>8. (Requested(pending') \cup Requested(letters)) \cap {i.request} = {}
      BY <2>3, <3>1 DEF Apart
    <3> QED BY <3>2, <3>4, <3>5, <3>6, <3>7, <3>8 DEF Apart
  <2> QED BY <1>n, <1>u, <2>1, <2>4
<1>9. ASSUME NEW l \in Loops, EtchAnswered(l) PROVE TodoWaits' /\ OneLoopOnePlace'
  <2>1. /\ OthersGoOn(l) /\ loop'[l].hand = <<>> /\ loop'[l].todo = loop[l].todo
        /\ loop[l].at = "etch" /\ UNCHANGED <<pending, retrySet, letters, used>>
    BY <1>9, EtchAnsweredStep
  <2>2. ASSUME Calm PROVE TodoWaits' /\ Apart(pending', retrySet', letters', InHandOf(Loops)')
    <3>1. DuesWait(loop[l]) /\ Apart(pending, retrySet, letters, InHandOf(Loops)) /\ used.starts <= 1
      BY <1>c, <2>2
    <3>2. InHandOf(Loops)' = {}
      BY <1>0, <2>1, <3>1, OnlyHand, HandOfNone
    <3>3. DuesWait(loop[l])'
      BY <2>1, <3>1 DEF DuesWait
    <3>4. TodoWaits'
      BY <1>0, <2>1, <3>1, <3>3, TodoKept
    <3> QED BY <2>1, <3>1, <3>2, <3>4 DEF Apart
  <2> QED BY <1>n, <1>u, <2>1, <2>2
<1>10. ASSUME NEW l \in Hands, EtchThrows(l) PROVE TodoWaits' /\ OneLoopOnePlace'
  <2>1. /\ OthersGoOn(l) /\ loop[l].at = "etch" /\ loop[l].hand = <<loop[l].hand[1]>>
        /\ loop[l].hand[1] \in Item /\ loop'[l].todo = loop[l].todo
        /\ loop'[l].hand[1] \in Item /\ loop'[l].hand = <<loop'[l].hand[1]>>
        /\ loop'[l].hand[1].request = loop[l].hand[1].request
        /\ UNCHANGED <<pending, retrySet, letters, used>>
    BY <1>10, EtchThrowsStep
  <2>2. ASSUME Calm PROVE TodoWaits' /\ Apart(pending', retrySet', letters', InHandOf(Loops)')
    <3>0. l \in Loops
      BY <1>c, <2>1, <2>2 DEF Hands
    <3>1. DuesWait(loop[l]) /\ Apart(pending, retrySet, letters, InHandOf(Loops)) /\ used.starts <= 1
      BY <1>c, <2>2, <3>0
    <3>2. InHandOf(Loops)' = InHandOf(Loops)
      <4>1. HandOf(loop[l]) = {loop[l].hand[1].request}
        BY <2>1, HandOfOne
      <4>2. HandOf(loop'[l]) = {loop'[l].hand[1].request}
        BY <2>1, HandOfOne
      <4>3. InHandOf(Loops) = HandOf(loop[l]) /\ InHandOf(Loops)' = HandOf(loop'[l])
        BY <2>1, <3>0, <3>1, OnlyHand
      <4> QED BY <2>1, <4>1, <4>2, <4>3
    <3>3. DuesWait(loop[l])'
      BY <2>1, <3>1 DEF DuesWait
    <3>4. TodoWaits'
      BY <2>1, <3>0, <3>1, <3>3, TodoKept
    <3> QED BY <2>1, <3>1, <3>2, <3>4
  <2> QED BY <1>n, <1>u, <2>1, <2>2
<1>11. ASSUME NEW l \in Loops, Return(l) PROVE TodoWaits' /\ OneLoopOnePlace'
  <2>1. /\ OthersGoOn(l) /\ loop[l].at = "failed" /\ loop[l].hand = <<loop[l].hand[1]>>
        /\ loop[l].hand[1] \in Item /\ loop'[l].hand = <<>> /\ loop'[l].todo = loop[l].todo
        /\ Returned(loop[l].hand[1]) /\ UNCHANGED <<pending, used>>
    BY <1>11, ReturnStep
  <2>2. PICK i \in Item : i = loop[l].hand[1]
    BY <2>1
  <2>3. \/ letters' = <<i>> \o letters /\ retrySet' = retrySet
        \/ retrySet' = retrySet \cup {i} /\ letters' = letters
    BY <2>1, <2>2 DEF Returned
  <2>4. /\ Requested(<<i>> \o letters) = Requested(letters) \cup {i.request}
        /\ Once(letters) /\ i.request \notin Requested(letters) => Once(<<i>> \o letters)
    BY <1>0, QueuePrepended
  <2>5. ASSUME Calm PROVE TodoWaits' /\ Apart(pending', retrySet', letters', InHandOf(Loops)')
    <3>1. DuesWait(loop[l]) /\ Apart(pending, retrySet, letters, InHandOf(Loops)) /\ used.starts <= 1
      BY <1>c, <2>5
    <3>2. InHandOf(Loops) = {i.request} /\ InHandOf(Loops)' = {}
      BY <1>0, <2>1, <2>2, <3>1, OnlyHand, HandOfOne, HandOfNone
    <3>3. retrySet \subseteq retrySet'
      BY <2>3
    <3>4. DuesWait(loop[l])'
      BY <2>1, <3>1, <3>3 DEF DuesWait
    <3>5. TodoWaits'
      BY <1>0, <2>1, <3>1, <3>4, TodoKept
    <3>6. CASE letters' = <<i>> \o letters /\ retrySet' = retrySet
      BY <2>1, <2>4, <3>1, <3>2, <3>5, <3>6 DEF Apart
    <3>7. CASE retrySet' = retrySet \cup {i} /\ letters' = letters
      BY <2>1, <3>1, <3>2, <3>5, <3>7 DEF Apart
    <3> QED BY <2>3, <3>6, <3>7
  <2> QED BY <1>n, <1>u, <2>1, <2>5
<1>12. ASSUME Sweep PROVE TodoWaits' /\ OneLoopOnePlace'
  <2>1. used'.sweeps # 0
    BY <1>0, <1>12, SweepStep
  <2> QED BY <1>n, <2>1 DEF Calm
<1>13. ASSUME SweepEtched \/ SweepReturns PROVE TodoWaits' /\ OneLoopOnePlace'
  <2>1. loop[RetryOperator].at # "none" /\ UNCHANGED used
    BY <1>13 DEF SweepEtched, SweepReturns
  <2> QED BY <1>c, <1>n, <1>u, <2>1
<1> QED BY <1>1, <1>2, <1>3, <1>4, <1>5, <1>6, <1>7, <1>8, <1>9, <1>10, <1>11, <1>12, <1>13,
          StopLoopStep, CrashStep, TickEnds
    DEF RedisForwarderNext, Pop, EtchAnswered, Return, TickOver, TickFails

LEMMA RedisIndInvInit == RedisForwarderInit => RedisIndInv
<1> SUFFICES ASSUME RedisForwarderInit PROVE RedisIndInv
  OBVIOUS
<1>1. /\ pending = <<>> /\ letters = <<>> /\ retrySet = {} /\ ripe = {} /\ etched = {}
      /\ forwarded = {} /\ dropped = {} /\ used = [faults |-> 0, starts |-> 0, sweeps |-> 0]
      /\ \A l \in Hands : loop[l] = Gone
  BY DEF RedisForwarderInit
<1>2. Gone.at = "none" /\ Gone.todo = <<>> /\ Gone.hand = <<>> /\ Len(Gone.hand) = 0
  BY DEF Gone
<1>3. RedisTyped
  <2>1. loop \in [Hands -> Doing] /\ running \in [Forwarders -> BOOLEAN]
        /\ timer \in [Forwarders -> Loops \cup {None}]
    BY GoneTyped DEF RedisForwarderInit
  <2>2. used \in [faults : Nat, starts : Nat, sweeps : Nat]
    BY <1>1
  <2>3. pending \in Seq(Item) /\ letters \in Seq(Item) /\ IsFiniteSet(retrySet)
    BY <1>1, FS_EmptySet
  <2>4. \A l \in Hands :
            Len(loop[l].hand) = IF loop[l].at \in {"moving", "etch", "failed"} THEN 1 ELSE 0
    BY <1>1, <1>2
  <2> QED BY <1>1, <2>1, <2>2, <2>3, <2>4 DEF RedisTyped, RedisForwarderTypeOK
<1>4. \A l \in Loops : l \in Hands
  BY DEF Hands
<1>5. RetryOperator \in Hands
  BY DEF Hands
<1>6. DOMAIN <<>> = {}
  OBVIOUS
<1>7. BudgetInv
  BY <1>1, <1>2, <1>4, <1>5, <1>6 DEF BudgetInv, RetryBudget, LoopBudget, SweepBudget
<1>8. AllForwarded /\ OnlyFaultsLose
  BY <1>1, <1>2, <1>6 DEF AllForwarded, OnlyFaultsLose, Known, Requested, Awaiting
<1>9. UsesTell /\ TodoWaits
  BY <1>1, <1>2, <1>4, <1>5, <1>6 DEF UsesTell, TodoWaits, DuesWait
<1>10. OneLoopOnePlace
  <2>1. InHandOf(Loops) = {}
    BY <1>1, <1>2, <1>4, InHandMeans DEF Holds
  <2> QED BY <1>1, <1>6, <2>1 DEF OneLoopOnePlace, Once, Requested, Awaiting
<1> QED BY <1>3, <1>7, <1>8, <1>9, <1>10 DEF RedisIndInv

LEMMA RedisIndInvStep ==
    ASSUME RedisIndInv, [RedisForwarderNext]_redisForwarderVars
    PROVE  RedisIndInv'
<1>1. CASE RedisForwarderNext
  <2>1. RedisTyped'
    BY <1>1, ForwardToRedisStep, RipenStep, StartLoopStep, StopLoopStep, CrashStep, TickEnds,
       WakeStep, TakeDueStep, PushDueStep, PopStep, EtchAnsweredStep, EtchThrowsStep, ReturnStep,
       SweepStep, SweepGoesOn
       DEF RedisForwarderNext, RedisIndInv, Pop, EtchAnswered, Return, TickOver, TickFails
  <2> QED BY <1>1, <2>1, BudgetStep, KnownStep, LossStep, UsesStep, PlacesStep DEF RedisIndInv
<1>2. CASE UNCHANGED redisForwarderVars
  <2> USE <1>2 DEF redisForwarderVars
  <2>1. RedisTyped' /\ BudgetInv' /\ AllForwarded'
    <3>1. RedisTyped'
      BY DEF RedisIndInv, RedisTyped, RedisForwarderTypeOK
    <3>2. RetryBudget'
      BY DEF RedisIndInv, BudgetInv, RetryBudget
    <3>3. (\A l \in Loops : LoopBudget(loop[l])') /\ SweepBudget(loop[RetryOperator])'
      BY DEF RedisIndInv, BudgetInv, LoopBudget, SweepBudget, HasLeft
    <3>4. (\A l \in Hands : Known(loop[l], forwarded)')
      BY DEF RedisIndInv, AllForwarded, Known
    <3>5. (Requested(pending) \cup Requested(letters) \cup Awaiting \subseteq forwarded)'
      BY DEF RedisIndInv, AllForwarded, Requested, Awaiting
    <3>6. BudgetInv'
      BY <3>2, <3>3 DEF BudgetInv
    <3>7. AllForwarded'
      BY <3>4, <3>5 DEF AllForwarded
    <3> QED BY <3>1, <3>6, <3>7
  <2>2. OnlyFaultsLose' /\ UsesTell' /\ TodoWaits'
    BY DEF RedisIndInv, OnlyFaultsLose, Held, InHandOf, UsesTell, TodoWaits, Calm, DuesWait
  <2>3. OneLoopOnePlace'
    <3>1. Calm' => Apart(pending', retrySet', letters', InHandOf(Loops)')
      <4>1. InHandOf(Loops)' = InHandOf(Loops)
        BY DEF InHandOf
      <4> QED BY <4>1, ApartMeans DEF RedisIndInv, Calm
    <3> QED BY <3>1, ApartMeansNext
  <2> QED BY <2>1, <2>2, <2>3 DEF RedisIndInv
<1> QED BY <1>1, <1>2

(* However the loops of several processes, their starts and stops, crashes *)
(* and Redis calls that throw, and an operator's retryDLQ() interleave:    *)
(* only a fault loses a forwarded request, what waits to be retried has    *)
(* retries left and what is a dead letter has none, and one loop without a *)
(* fault or a sweep never has a request in two places.                     *)
THEOREM OnlyFaultsLoseRequests == RedisForwarderSpec => []RedisForwarderInv
<1>1. RedisIndInv => RedisForwarderInv
  BY DEF RedisIndInv, RedisTyped, BudgetInv, RedisForwarderInv
<1> QED BY <1>1, RedisIndInvInit, RedisIndInvStep, PTL DEF RedisForwarderSpec
-----------------------------------------------------------------------------
(* The client and its fallback. *)

Askers == Posts \cup {Replayer}

ClientTyped ==
    /\ withFallback \in BOOLEAN
    /\ stored \in [Where -> Seq(LeafRecord)]
    /\ post \in [Askers -> Posting(given)]
    /\ lastSource \in Where
    /\ given \subseteq HandedOut
    /\ verdicts \subseteq VerdictOn(given)
    /\ lost \in [Payloads -> Nat] /\ asks \in [Payloads -> Nat] /\ verifies \in Nat

(* The root of a receipt is of the forest that ends with its leaf.         *)
IsWhole(r) == r.leafHash = LeafHash(LedgerOf(r), PlaceOf(r))
                /\ r.forestRoot = Root(LedgerOf(r), PlaceOf(r))
ReceiptsAreWhole == \A r \in given : IsWhole(r)

(* An answer on its way tells the truth, and still does when it arrives.   *)
TrueAnswer(d, leaves) ==
    d.at = "carried out" =>
        IF d.ask.op = "etch"
        THEN /\ LedgerOf(d.answer) = "hosted" /\ PlaceOf(d.answer) \in DOMAIN leaves
             /\ leaves[PlaceOf(d.answer)].source = "caller" /\ IsWhole(d.answer)
        ELSE d.answer.valid <=> d.answer.by = LedgerOf(d.answer.receipt) /\ d.answer.current
AnswersAreTrue == \A c \in Askers : TrueAnswer(post[c], stored["hosted"])

(* The replay waits for its request with the etch at the head of its list. *)
ReplayInv ==
    /\ replay \in Replaying
    /\ post[Replayer] # Resting => replay.state = "running" /\ replay.todo # <<>>
    /\ replay.state # "running" => replay.todo = <<>>
    /\ \A j, k \in DOMAIN replay.todo : replay.todo[j] = replay.todo[k] => j = k
    /\ resent \in [Payloads -> Nat]
    /\ ReplaysAskForAll

ClientCore ==
    /\ ClientTyped /\ AnswersAreTrue /\ ReceiptsAreWhole
    /\ LeavesTellWhere /\ VerdictsAreTheIssuers /\ OneLeafPerEtch
ClientIndInv == ClientCore /\ ReplayInv

(* What may be in flight.                                                  *)
LEMMA PostIs ==
    ASSUME ClientTyped, NEW c \in Askers
    PROVE  \/ post[c] = Resting /\ post[c].at = "idle"
           \/ /\ post[c].at = "posted" /\ post[c] # Resting
              /\ post[c].ask \in EtchAsk \/ post[c].ask \in VerifyAsk(given)
           \/ /\ post[c].at = "carried out" /\ post[c] # Resting
              /\ post[c].ask \in EtchAsk /\ post[c].answer \in HandedOut
           \/ /\ post[c].at = "carried out" /\ post[c] # Resting
              /\ post[c].ask \in VerifyAsk(given) /\ post[c].answer \in VerdictOn(given)
<1>1. PICK d \in Posting(given) : d = post[c]
  BY DEF ClientTyped
<1>2. Resting.at = "idle"
  BY DEF Resting
<1> QED BY <1>1, <1>2 DEF Posting

LEMMA AskIs ==
    /\ \A ask \in EtchAsk : ask.op = "etch" /\ ask.of \in Payloads /\ ask.again \in BOOLEAN
    /\ \A held : \A ask \in VerifyAsk(held) : ask.op = "verify" /\ ask.receipt \in held
BY DEF EtchAsk, VerifyAsk

LEMMA PostingGrows ==
    ASSUME NEW held, NEW more, held \subseteq more
    PROVE  /\ Posting(held) \subseteq Posting(more) /\ VerdictOn(held) \subseteq VerdictOn(more)
<1>1. VerdictOn(held) \subseteq VerdictOn(more) /\ VerifyAsk(held) \subseteq VerifyAsk(more)
  BY DEF VerdictOn, VerifyAsk
<1> QED BY <1>1 DEF Posting

(* A leaf is added at the end of one ledger.                               *)
LEMMA LeafAdded ==
    ASSUME ClientTyped, NEW w \in Where, NEW ask \in EtchAsk,
           NEW source \in {"caller", "local-fallback"}, NEW st, st = Etched(w, ask, source)
    PROVE  /\ st \in [Where -> Seq(LeafRecord)] /\ Len(stored[w]) \in Nat /\ Len(st[w]) = Len(stored[w]) + 1
           /\ Len(st[w]) \in DOMAIN st[w] /\ st[w][Len(st[w])].source = source
           /\ st[w][Len(st[w])].of = ask.of
           /\ DOMAIN stored[w] = 1..Len(stored[w]) /\ DOMAIN st[w] = 1..(Len(stored[w]) + 1)
           /\ \A v \in Where : v # w => st[v] = stored[v]
           /\ \A v \in Where : \A k \in DOMAIN stored[v] : k \in DOMAIN st[v] /\ st[v][k] = stored[v][k]
<1>1. PICK leaf \in LeafRecord : /\ leaf = [of |-> ask.of, source |-> source, again |-> ask.again]
                                 /\ leaf.of = ask.of /\ leaf.source = source
  <2>1. [of |-> ask.of, source |-> source, again |-> ask.again] \in LeafRecord
    BY AskIs DEF LeafRecord
  <2> QED BY <2>1
<1>2. st = [stored EXCEPT ![w] = Append(stored[w], leaf)]
  BY <1>1 DEF Etched
<1>3. PICK s \in Seq(LeafRecord) : s = stored[w]
  BY DEF ClientTyped
<1>a. Append(s, leaf) \in Seq(LeafRecord)
  OBVIOUS
<1>4. PICK t \in Seq(LeafRecord) : t = Append(s, leaf)
  BY <1>a
<1>5. /\ Len(s) \in Nat /\ Len(t) = Len(s) + 1 /\ DOMAIN s = 1..Len(s) /\ DOMAIN t = 1..(Len(s) + 1)
      /\ t[Len(s) + 1] = leaf /\ \A k \in DOMAIN s : t[k] = s[k]
  BY <1>4
<1>6. st \in [Where -> Seq(LeafRecord)] /\ st[w] = t /\ \A v \in Where : v # w => st[v] = stored[v]
  BY <1>2, <1>3, <1>4 DEF ClientTyped
<1>b. \A k \in DOMAIN s : k \in DOMAIN t /\ t[k] = s[k]
  BY <1>5
<1>7. \A v \in Where : \A k \in DOMAIN stored[v] : k \in DOMAIN st[v] /\ st[v][k] = stored[v][k]
  BY <1>3, <1>6, <1>b
<1>8. Len(t) \in DOMAIN t /\ t[Len(t)] = leaf
  BY <1>5
<1> QED BY <1>1, <1>3, <1>5, <1>6, <1>7, <1>8

(* ... which is one more copy of what it is of.                            *)
Copies(p, s) == Cardinality({k \in DOMAIN s : s[k].of = p})

LEMMA CopiesCounted ==
    ASSUME NEW p, NEW s, NEW n \in Nat, DOMAIN s = 1..n
    PROVE  Copies(p, s) \in Nat
<1>1. IsFiniteSet(1..n)
  BY FS_Interval
<1>2. IsFiniteSet({k \in DOMAIN s : s[k].of = p})
  BY <1>1, FS_Subset
<1> QED BY <1>2, FS_CardinalityType DEF Copies

LEMMA CopyAdded ==
    ASSUME NEW p, NEW s, NEW t, NEW n \in Nat, DOMAIN s = 1..n, DOMAIN t = 1..(n + 1),
           \A k \in DOMAIN s : t[k] = s[k]
    PROVE  Copies(p, t) = Copies(p, s) + (IF t[n + 1].of = p THEN 1 ELSE 0)
<1> DEFINE old == {k \in DOMAIN s : s[k].of = p}
           new == {k \in DOMAIN t : t[k].of = p}
<1>1. IsFiniteSet(old)
  <2>1. IsFiniteSet(1..n)
    BY FS_Interval
  <2> QED BY <2>1, FS_Subset
<1>2. \A k : k \in 1..(n + 1) <=> k \in 1..n \/ k = n + 1
  OBVIOUS
<1>3. n + 1 \notin old
  OBVIOUS
<1>4. CASE t[n + 1].of = p
  <2>1. new = old \cup {n + 1}
    BY <1>2, <1>4
  <2>2. Cardinality(new) = Cardinality(old) + 1
    BY <1>1, <1>3, <2>1, FS_AddElement
  <2> QED BY <1>4, <2>2 DEF Copies
<1>5. CASE t[n + 1].of # p
  <2>1. new = old
    BY <1>2, <1>5
  <2>2. Cardinality(new) = Cardinality(old) + 0
    <3>1. Cardinality(old) \in Nat
      BY <1>1, FS_CardinalityType
    <3>2. PICK n0 \in Nat : n0 = Cardinality(old) /\ n0 = Cardinality(new)
      BY <2>1, <3>1
    <3> QED BY <3>2
  <2>3. Copies(p, t) = Cardinality(new) /\ Copies(p, s) = Cardinality(old)
    BY DEF Copies
  <2>4. (IF t[n + 1].of = p THEN 1 ELSE 0) = 0
    BY <1>5
  <2> HIDE DEF old, new
  <2> QED BY <2>2, <2>3, <2>4
<1> QED BY <1>4, <1>5

(* One request changes: what is on its way to be carried out.              *)
IsOnItsWay(d, p) == d # Resting /\ d.at = "posted" /\ d.ask.op = "etch" /\ d.ask.of = p

LEMMA OneOnItsWay ==
    ASSUME ClientTyped, NEW c \in Askers, NEW d, post' = [post EXCEPT ![c] = d], NEW p
    PROVE  /\ InFlight(p) \in Nat
           /\ InFlight(p)' = InFlight(p) + (IF IsOnItsWay(d, p) THEN 1 ELSE 0)
                                         - (IF IsOnItsWay(post[c], p) THEN 1 ELSE 0)
<1> DEFINE old == {m \in Askers : IsOnItsWay(post[m], p)}
           new == {m \in Askers : IsOnItsWay(post'[m], p)}
<1>1. IsFiniteSet(Askers)
  BY LedgerClientAssumption, FS_AddElement DEF Askers
<1>2. OnItsWay(p) = old /\ OnItsWay(p)' = new
  BY DEF OnItsWay, IsOnItsWay, Askers
<1>3. \A m \in Askers : post'[m] = IF m = c THEN d ELSE post[m]
  BY DEF ClientTyped
<1> DEFINE rest == old \ {c}
<1>4. IsFiniteSet(rest) /\ IsFiniteSet(old) /\ Cardinality(rest) \in Nat /\ Cardinality(old) \in Nat
  BY <1>1, FS_Subset, FS_CardinalityType
<1>5. Cardinality(old) = Cardinality(rest) + (IF IsOnItsWay(post[c], p) THEN 1 ELSE 0)
  <2>1. CASE IsOnItsWay(post[c], p)
    <3>1. c \in old
      BY <2>1
    <3>2. Cardinality(rest) = Cardinality(old) - 1
      BY <1>4, <3>1, FS_RemoveElement
    <3> QED BY <1>4, <2>1, <3>2
  <2>2. CASE ~IsOnItsWay(post[c], p)
    <3>1. old = rest
      BY <2>2
    <3> QED BY <1>4, <2>2, <3>1
  <2> QED BY <2>1, <2>2
<1>6. Cardinality(new) = Cardinality(rest) + (IF IsOnItsWay(d, p) THEN 1 ELSE 0)
  <2>1. CASE IsOnItsWay(d, p)
    <3>1. new = rest \cup {c} /\ c \notin rest
      BY <1>3, <2>1
    <3>2. Cardinality(new) = Cardinality(rest) + 1
      BY <1>4, <3>1, FS_AddElement
    <3> QED BY <2>1, <3>2
  <2>2. CASE ~IsOnItsWay(d, p)
    <3>1. new = rest
      BY <1>3, <2>2
    <3> QED BY <1>4, <2>2, <3>1
  <2> QED BY <2>1, <2>2
<1>7. InFlight(p) = Cardinality(old) /\ InFlight(p)' = Cardinality(new)
  BY <1>2 DEF InFlight
<1> HIDE DEF old, new, rest
<1> QED BY <1>4, <1>5, <1>6, <1>7

LEMMA CopiesNext ==
    ASSUME ClientTyped, NEW w \in Where, NEW ask \in EtchAsk,
           NEW source \in {"caller", "local-fallback"}, stored' = Etched(w, ask, source), NEW p
    PROVE  /\ Copies(p, stored'[w]) = Copies(p, stored[w]) + (IF ask.of = p THEN 1 ELSE 0)
           /\ \A v \in Where : v # w => Copies(p, stored'[v]) = Copies(p, stored[v])
<1>1. PICK st : st = stored'
  OBVIOUS
<1>2. /\ Len(stored[w]) \in Nat /\ Len(st[w]) = Len(stored[w]) + 1
      /\ st[w][Len(st[w])].of = ask.of
      /\ DOMAIN stored[w] = 1..Len(stored[w]) /\ DOMAIN st[w] = 1..(Len(stored[w]) + 1)
      /\ \A v \in Where : v # w => st[v] = stored[v]
      /\ \A k \in DOMAIN stored[w] : st[w][k] = stored[w][k]
  BY <1>1, LeafAdded
<1>3. Copies(p, st[w]) = Copies(p, stored[w]) + (IF st[w][Len(stored[w]) + 1].of = p THEN 1 ELSE 0)
  BY SMTT(30), <1>2, CopyAdded
<1> QED BY <1>1, <1>2, <1>3

(* The numbers of OneLeafPerEtch.                                          *)
LEMMA LeavesAdd ==
    ASSUME ClientTyped, NEW p \in Payloads
    PROVE  /\ LeavesOf(p) = Copies(p, stored["hosted"]) + Copies(p, stored["local-fallback"])
           /\ LeavesOf(p)' = Copies(p, stored'["hosted"]) + Copies(p, stored'["local-fallback"])
           /\ Copies(p, stored["hosted"]) \in Nat /\ Copies(p, stored["local-fallback"]) \in Nat
           /\ asks[p] \in Nat /\ lost[p] \in Nat
<1>1. \A w \in Where : stored[w] \in Seq(LeafRecord)
  BY DEF ClientTyped
<1>2. \A w \in Where : Copies(p, stored[w]) \in Nat
  <2>1. ASSUME NEW w \in Where PROVE Copies(p, stored[w]) \in Nat
    <3>1. PICK s \in Seq(LeafRecord) : s = stored[w]
      BY <1>1
    <3>2. Len(s) \in Nat /\ DOMAIN s = 1..Len(s)
      OBVIOUS
    <3> QED BY <3>1, <3>2, CopiesCounted
  <2> QED BY <2>1
<1>3. "hosted" \in Where /\ "local-fallback" \in Where
  BY DEF Where
<1> QED BY <1>2, <1>3 DEF LeavesOf, CopiesOf, Copies, ClientTyped

(* A request is made.                                                      *)
LEMMA AskKeeps ==
    ASSUME ClientCore, NEW c \in Askers, NEW ask, ask \in EtchAsk \/ ask \in VerifyAsk(given),
           Ask(c, ask), UNCHANGED <<withFallback, stored, lastSource, given, verdicts, lost>>
    PROVE  ClientCore' /\ \A m \in Askers \ {c} : post'[m] = post[m]
<1> DEFINE d == [at |-> "posted", ask |-> ask]
<1>1. post[c] = Resting /\ post' = [post EXCEPT ![c] = d]
  BY DEF Ask
<1>2. d \in Posting(given) /\ d.at = "posted" /\ d.ask = ask
  BY DEF Posting
<1> HIDE DEF d
<1>3. ClientTyped /\ (ask \in EtchAsk => ask.of \in Payloads /\ ask.op = "etch")
      /\ (ask \in VerifyAsk(given) => ask.op = "verify")
  BY AskIs DEF ClientCore
<1>4. /\ post' \in [Askers -> Posting(given)] /\ post'[c] = d
      /\ \A m \in Askers \ {c} : post'[m] = post[m]
  BY <1>1, <1>2, <1>3 DEF ClientTyped
<1>5. /\ asks' \in [Payloads -> Nat] /\ verifies' \in Nat
      /\ \A p \in Payloads : asks'[p] = asks[p] + (IF ask.op = "etch" /\ ask.of = p THEN 1 ELSE 0)
  <2>1. CASE ask.op = "etch"
    <3>1. asks' = [asks EXCEPT ![ask.of] = @ + 1] /\ verifies' = verifies /\ ask.of \in Payloads
      BY <1>3, <2>1 DEF Ask
    <3> QED BY <1>3, <2>1, <3>1 DEF ClientTyped
  <2>2. CASE ask.op # "etch"
    <3>1. asks' = asks /\ verifies' = verifies + 1
      BY <2>2 DEF Ask
    <3> QED BY <1>3, <2>2, <3>1 DEF ClientTyped
  <2> QED BY <2>1, <2>2
<1>6. ClientTyped'
  BY <1>3, <1>4, <1>5 DEF ClientTyped
<1>7. AnswersAreTrue'
  BY <1>2, <1>4 DEF ClientCore, AnswersAreTrue, TrueAnswer
<1>8. LeavesTellWhere' /\ VerdictsAreTheIssuers' /\ ReceiptsAreWhole'
  BY DEF ClientCore, LeavesTellWhere, VerdictsAreTheIssuers, ReceiptsAreWhole
<1>9. ASSUME NEW p \in Payloads, withFallback
      PROVE  LeavesOf(p)' + InFlight(p)' = asks'[p] + lost'[p]
  <2>1. LeavesOf(p)' = LeavesOf(p) /\ LeavesOf(p) \in Nat /\ asks[p] \in Nat /\ lost[p] \in Nat
    BY <1>3, LeavesAdd
  <2>2. IsOnItsWay(d, p) <=> ask.op = "etch" /\ ask.of = p
    BY <1>2 DEF IsOnItsWay, Resting
  <2>3. ~IsOnItsWay(post[c], p)
    BY <1>1 DEF IsOnItsWay
  <2>4. /\ InFlight(p) \in Nat
        /\ InFlight(p)' = InFlight(p) + (IF IsOnItsWay(d, p) THEN 1 ELSE 0)
                                      - (IF IsOnItsWay(post[c], p) THEN 1 ELSE 0)
    BY <1>1, <1>3, OneOnItsWay
  <2>5. LeavesOf(p) + InFlight(p) = asks[p] + lost[p]
    BY <1>9 DEF ClientCore, OneLeafPerEtch
  <2>6. lost'[p] = lost[p] /\ asks'[p] = asks[p] + (IF ask.op = "etch" /\ ask.of = p THEN 1 ELSE 0)
    BY <1>5
  <2> QED BY <2>1, <2>2, <2>3, <2>4, <2>5, <2>6
<1>10. OneLeafPerEtch'
  BY <1>9 DEF OneLeafPerEtch
<1> QED BY <1>4, <1>6, <1>7, <1>8, <1>10 DEF ClientCore

(* A verdict is true of the ledger that gives it.                          *)
LEMMA VerdictIsTrue ==
    ASSUME ClientTyped, ReceiptsAreWhole, LeavesTellWhere, NEW w \in Where, NEW r \in given
    PROVE  /\ Verdict(w, r) \in VerdictOn(given)
           /\ Verdict(w, r).valid <=> /\ Verdict(w, r).by = LedgerOf(Verdict(w, r).receipt)
                                      /\ Verdict(w, r).current
<1>1. PICK v, k : v = LedgerOf(r) /\ k = PlaceOf(r)
  OBVIOUS
<1>2. v \in Where /\ k \in Nat
  BY <1>1 DEF ClientTyped, HandedOut, LedgerOf, PlaceOf
<1>3. r.leafHash = LeafHash(v, k) /\ r.forestRoot = Root(v, k) /\ k \in DOMAIN stored[v]
  BY <1>1 DEF ReceiptsAreWhole, IsWhole, LeavesTellWhere
<1>4. r.forestRoot[3] = k
  BY <1>3 DEF Root
<1>5. \A u \in Where : Len(stored[u]) \in Nat /\ DOMAIN stored[u] = 1..Len(stored[u])
  <2>1. \A u \in Where : stored[u] \in Seq(LeafRecord)
    BY DEF ClientTyped
  <2> QED BY <2>1
<1>6. Accepts(w, r) <=> w = v /\ Len(stored[v]) = k
  <2>1. ASSUME Accepts(w, r) PROVE w = v /\ Len(stored[v]) = k
    BY <1>3, <2>1 DEF Accepts, Root
  <2>2. ASSUME w = v, Len(stored[v]) = k PROVE Accepts(w, r)
    BY <1>3, <2>2 DEF Accepts, LeafHashes
  <2> QED BY <2>1, <2>2
<1>7. Verdict(w, r).valid = Accepts(w, r) /\ Verdict(w, r).by = w /\ Verdict(w, r).receipt = r
      /\ Verdict(w, r).current = (Len(stored[v]) = k)
  BY <1>1, <1>4 DEF Verdict
<1>8. Verdict(w, r) \in VerdictOn(given)
  BY DEF Verdict, VerdictOn, Accepts
<1> QED BY <1>1, <1>6, <1>7, <1>8

(* The endpoint carries a request out.                                     *)
LEMMA CarryOutKeeps ==
    ASSUME ClientCore, NEW c \in Askers, CarryOut(c), UNCHANGED withFallback
    PROVE  ClientCore' /\ \A m \in Askers \ {c} : post'[m] = post[m]
<1>1. /\ post[c] # Resting /\ post[c].at = "posted" /\ ClientTyped
      /\ UNCHANGED <<lastSource, given, verdicts, lost, asks, verifies>>
  BY DEF CarryOut, ClientCore
<1>2. PICK ask : ask = post[c].ask /\ (ask \in EtchAsk \/ ask \in VerifyAsk(given))
  BY <1>1, PostIs DEF Resting
<1>w. "hosted" \in Where /\ "local-fallback" \in Where
  BY DEF Where
<1>3. CASE ask \in EtchAsk
  <2>1. ask.op = "etch" /\ ask.of \in Payloads
    BY <1>3, AskIs
  <2>2. stored' = Etched("hosted", ask, "caller")
    BY <1>2, <2>1 DEF CarryOut
  <2>3. PICK st : st = stored'
    OBVIOUS
  <2>4. /\ st \in [Where -> Seq(LeafRecord)] /\ Len(st["hosted"]) \in DOMAIN st["hosted"]
        /\ st["hosted"][Len(st["hosted"])].source = "caller"
        /\ Len(stored["hosted"]) \in Nat /\ Len(st["hosted"]) = Len(stored["hosted"]) + 1
        /\ \A v \in Where : \A k \in DOMAIN stored[v] : k \in DOMAIN st[v] /\ st[v][k] = stored[v][k]
    BY <1>1, <1>3, <1>w, <2>2, <2>3, LeafAdded
  <2> DEFINE n == Len(st["hosted"])
             a == [leafHash |-> LeafHash("hosted", n), forestRoot |-> Root("hosted", n)]
             d == [at |-> "carried out", ask |-> ask, answer |-> a]
  <2>5. post' = [post EXCEPT ![c] = d]
    BY <1>2, <2>1, <2>3 DEF CarryOut, ReceiptOf
  <2>6. a \in HandedOut /\ LedgerOf(a) = "hosted" /\ PlaceOf(a) = n /\ IsWhole(a)
    <3>1. n \in Nat \ {0}
      BY <2>4
    <3>2. a.leafHash = LeafHash("hosted", n) /\ a.forestRoot = Root("hosted", n)
      OBVIOUS
    <3>3. a \in HandedOut
      BY <1>w, <3>1 DEF HandedOut, LeafHash, Root
    <3>4. LedgerOf(a) = "hosted" /\ PlaceOf(a) = n
      BY <3>2 DEF LedgerOf, PlaceOf, LeafHash
    <3> HIDE DEF a, n
    <3> QED BY <3>2, <3>3, <3>4 DEF IsWhole
  <2>7. d \in Posting(given) /\ d.at = "carried out" /\ d.ask = ask /\ d.answer = a
    BY <1>3, <2>6 DEF Posting
  <2>8. ~\E p : IsOnItsWay(d, p)
    BY <2>7 DEF IsOnItsWay
  <2> HIDE DEF a, d
  <2>9. /\ post' \in [Askers -> Posting(given)] /\ post'[c] = d
        /\ \A m \in Askers \ {c} : post'[m] = post[m]
    BY <1>1, <2>5, <2>7 DEF ClientTyped
  <2>10. ClientTyped'
    BY <1>1, <2>3, <2>4, <2>9 DEF ClientTyped
  <2>11. TrueAnswer(d, st["hosted"])
    BY <2>1, <2>4, <2>6, <2>7 DEF TrueAnswer
  <2>12. \A m \in Askers \ {c} : TrueAnswer(post[m], st["hosted"])
    BY <1>w, <2>4 DEF ClientCore, AnswersAreTrue, TrueAnswer
  <2>13. AnswersAreTrue'
    BY <2>3, <2>9, <2>11, <2>12 DEF AnswersAreTrue
  <2>14. LeavesTellWhere'
    <3>1. \A r \in given : LedgerOf(r) \in Where
      BY <1>1 DEF ClientTyped, HandedOut, LedgerOf
    <3> QED BY <1>1, <2>3, <2>4, <3>1 DEF ClientCore, LeavesTellWhere
  <2>15. ASSUME NEW p \in Payloads, withFallback
         PROVE  LeavesOf(p)' + InFlight(p)' = asks'[p] + lost'[p]
    <3>1. /\ LeavesOf(p) = Copies(p, stored["hosted"]) + Copies(p, stored["local-fallback"])
          /\ LeavesOf(p)' = Copies(p, stored'["hosted"]) + Copies(p, stored'["local-fallback"])
          /\ Copies(p, stored["hosted"]) \in Nat /\ Copies(p, stored["local-fallback"]) \in Nat
          /\ asks[p] \in Nat /\ lost[p] \in Nat
      BY <1>1, LeavesAdd
    <3>2. /\ Copies(p, stored'["hosted"]) = Copies(p, stored["hosted"]) + (IF ask.of = p THEN 1 ELSE 0)
          /\ Copies(p, stored'["local-fallback"]) = Copies(p, stored["local-fallback"])
      BY <1>1, <1>3, <1>w, <2>2, CopiesNext
    <3>3. IsOnItsWay(post[c], p) <=> ask.of = p
      BY <1>1, <1>2, <2>1 DEF IsOnItsWay
    <3>4. /\ InFlight(p) \in Nat
          /\ InFlight(p)' = InFlight(p) + (IF IsOnItsWay(d, p) THEN 1 ELSE 0)
                                        - (IF IsOnItsWay(post[c], p) THEN 1 ELSE 0)
      BY <1>1, <2>5, OneOnItsWay
    <3>5. LeavesOf(p) + InFlight(p) = asks[p] + lost[p]
      BY <2>15 DEF ClientCore, OneLeafPerEtch
    <3>6. lost'[p] = lost[p] /\ asks'[p] = asks[p]
      BY <1>1
    <3> QED BY <2>8, <3>1, <3>2, <3>3, <3>4, <3>5, <3>6
  <2>16. OneLeafPerEtch'
    BY <2>15 DEF OneLeafPerEtch
  <2>17. VerdictsAreTheIssuers' /\ ReceiptsAreWhole'
    BY <1>1 DEF ClientCore, VerdictsAreTheIssuers, ReceiptsAreWhole
  <2> QED BY <2>9, <2>10, <2>13, <2>14, <2>16, <2>17 DEF ClientCore
<1>4. CASE ask \in VerifyAsk(given)
  <2>1. ask.op = "verify" /\ ask.receipt \in given
    BY <1>4, AskIs
  <2>2. PICK v : v = Verdict("hosted", ask.receipt)
    OBVIOUS
  <2>3. v \in VerdictOn(given) /\ (v.valid <=> v.by = LedgerOf(v.receipt) /\ v.current)
    BY <1>1, <1>w, <2>1, <2>2, VerdictIsTrue DEF ClientCore
  <2> DEFINE d == [at |-> "carried out", ask |-> ask, answer |-> v]
  <2>4. post' = [post EXCEPT ![c] = d] /\ stored' = stored
    BY <1>2, <2>1, <2>2 DEF CarryOut
  <2>5. d \in Posting(given) /\ d.at = "carried out" /\ d.ask = ask /\ d.answer = v
    BY <1>4, <2>3 DEF Posting
  <2> HIDE DEF d
  <2>6. /\ post' \in [Askers -> Posting(given)] /\ post'[c] = d
        /\ \A m \in Askers \ {c} : post'[m] = post[m]
    BY <1>1, <2>4, <2>5 DEF ClientTyped
  <2>7. ClientTyped'
    BY <1>1, <2>4, <2>6 DEF ClientTyped
  <2>8. AnswersAreTrue'
    BY <2>1, <2>3, <2>4, <2>5, <2>6 DEF ClientCore, AnswersAreTrue, TrueAnswer
  <2>9. LeavesTellWhere' /\ VerdictsAreTheIssuers' /\ ReceiptsAreWhole'
    BY <1>1, <2>4 DEF ClientCore, LeavesTellWhere, VerdictsAreTheIssuers, ReceiptsAreWhole
  <2>10. ASSUME NEW p \in Payloads, withFallback
         PROVE  LeavesOf(p)' + InFlight(p)' = asks'[p] + lost'[p]
    <3>1. LeavesOf(p)' = LeavesOf(p) /\ asks'[p] = asks[p] /\ lost'[p] = lost[p]
      BY <1>1, <2>4, LeavesAdd
    <3>2. ~IsOnItsWay(post[c], p) /\ ~IsOnItsWay(d, p)
      BY <1>2, <2>1, <2>5 DEF IsOnItsWay
    <3>3. InFlight(p)' = InFlight(p)
      <4>1. /\ InFlight(p) \in Nat
            /\ InFlight(p)' = InFlight(p) + (IF IsOnItsWay(d, p) THEN 1 ELSE 0)
                                          - (IF IsOnItsWay(post[c], p) THEN 1 ELSE 0)
        BY <1>1, <2>4, OneOnItsWay
      <4> QED BY <3>2, <4>1
    <3>4. LeavesOf(p) + InFlight(p) = asks[p] + lost[p]
      BY <2>10 DEF ClientCore, OneLeafPerEtch
    <3> QED BY <3>1, <3>3, <3>4
  <2>11. OneLeafPerEtch'
    BY <2>10 DEF OneLeafPerEtch
  <2> QED BY <2>6, <2>7, <2>8, <2>9, <2>11 DEF ClientCore
<1> QED BY <1>2, <1>3, <1>4

(* A request is over: what is known of receipts and verdicts grows, and    *)
(* those that are still in flight are about the same.                      *)
LEMMA PostRests ==
    ASSUME ClientTyped, NEW c \in Askers, post' = [post EXCEPT ![c] = Resting],
           given \subseteq given'
    PROVE  /\ post' \in [Askers -> Posting(given')] /\ post'[c] = Resting
           /\ \A m \in Askers \ {c} : post'[m] = post[m]
           /\ verdicts \subseteq VerdictOn(given')
           /\ \A p : /\ InFlight(p) \in Nat
                     /\ InFlight(p)' = InFlight(p) - (IF IsOnItsWay(post[c], p) THEN 1 ELSE 0)
<1>1. Posting(given) \subseteq Posting(given') /\ VerdictOn(given) \subseteq VerdictOn(given')
  BY PostingGrows
<1>2. Resting \in Posting(given')
  BY DEF Posting
<1>3. /\ post' \in [Askers -> Posting(given')] /\ post'[c] = Resting
      /\ \A m \in Askers \ {c} : post'[m] = post[m] /\ verdicts \subseteq VerdictOn(given')
  BY <1>1, <1>2 DEF ClientTyped
<1>4. ASSUME NEW p
      PROVE  /\ InFlight(p) \in Nat
             /\ InFlight(p)' = InFlight(p) - (IF IsOnItsWay(post[c], p) THEN 1 ELSE 0)
  <2>1. ~IsOnItsWay(Resting, p)
    BY DEF IsOnItsWay
  <2>2. /\ InFlight(p) \in Nat
        /\ InFlight(p)' = InFlight(p) + (IF IsOnItsWay(Resting, p) THEN 1 ELSE 0)
                                      - (IF IsOnItsWay(post[c], p) THEN 1 ELSE 0)
    BY OneOnItsWay
  <2> QED BY <2>1, <2>2
<1> QED BY <1>1, <1>3, <1>4 DEF ClientTyped

LEMMA AnswerKeeps ==
    ASSUME ClientCore, NEW c \in Askers, Answer(c), UNCHANGED withFallback
    PROVE  ClientCore' /\ \A m \in Askers \ {c} : post'[m] = post[m]
<1>1. /\ post[c] # Resting /\ post[c].at = "carried out" /\ ClientTyped /\ lastSource' = "hosted"
      /\ Deliver(c, post[c].answer) /\ post' = [post EXCEPT ![c] = Resting]
      /\ UNCHANGED <<stored, lost, asks, verifies>>
  BY DEF Answer, ClientCore
<1>2. PICK ask, a : ask = post[c].ask /\ a = post[c].answer
  OBVIOUS
<1>3. \/ ask \in EtchAsk /\ ask.op = "etch" /\ a \in HandedOut
      \/ ask \in VerifyAsk(given) /\ ask.op = "verify" /\ a \in VerdictOn(given)
  BY <1>1, <1>2, PostIs, AskIs DEF Resting
<1>4. TrueAnswer(post[c], stored["hosted"])
  BY DEF ClientCore, AnswersAreTrue
<1>5. given \subseteq given' /\ given' \subseteq HandedOut /\ verdicts' \subseteq VerdictOn(given')
      /\ LeavesTellWhere' /\ VerdictsAreTheIssuers' /\ ReceiptsAreWhole'
  <2>1. CASE ask.op = "etch"
    <3>1. given' = given \cup {a} /\ verdicts' = verdicts /\ a \in HandedOut
      BY <1>1, <1>2, <1>3, <2>1 DEF Deliver
    <3>2. LedgerOf(a) = "hosted" /\ PlaceOf(a) \in DOMAIN stored["hosted"]
          /\ stored["hosted"][PlaceOf(a)].source = "caller" /\ IsWhole(a)
      BY <1>1, <1>2, <1>4, <2>1 DEF TrueAnswer
    <3>3. LeavesTellWhere'
      BY <1>1, <3>1, <3>2 DEF ClientCore, LeavesTellWhere
    <3>4. VerdictsAreTheIssuers' /\ ReceiptsAreWhole'
      BY <3>1, <3>2 DEF ClientCore, VerdictsAreTheIssuers, ReceiptsAreWhole
    <3>5. VerdictOn(given) \subseteq VerdictOn(given')
      BY <3>1, PostingGrows
    <3> QED BY <1>1, <3>1, <3>3, <3>4, <3>5 DEF ClientTyped
  <2>2. CASE ask.op = "verify"
    <3>1. given' = given /\ verdicts' = verdicts \cup {a} /\ a \in VerdictOn(given)
      BY <1>1, <1>2, <1>3, <2>2 DEF Deliver
    <3>2. a.valid <=> a.by = LedgerOf(a.receipt) /\ a.current
      BY <1>1, <1>2, <1>4, <2>2 DEF TrueAnswer
    <3>3. VerdictsAreTheIssuers'
      BY <3>1, <3>2 DEF ClientCore, VerdictsAreTheIssuers
    <3>4. LeavesTellWhere' /\ ReceiptsAreWhole'
      BY <1>1, <3>1 DEF ClientCore, LeavesTellWhere, ReceiptsAreWhole
    <3> QED BY <1>1, <3>1, <3>3, <3>4 DEF ClientTyped
  <2> QED BY <1>3, <2>1, <2>2
<1>6. /\ post' \in [Askers -> Posting(given')] /\ post'[c] = Resting
      /\ \A m \in Askers \ {c} : post'[m] = post[m]
      /\ \A p : /\ InFlight(p) \in Nat
                /\ InFlight(p)' = InFlight(p) - (IF IsOnItsWay(post[c], p) THEN 1 ELSE 0)
  BY <1>1, <1>5, PostRests
<1>7. ClientTyped'
  BY <1>1, <1>5, <1>6 DEF ClientTyped, Where
<1>8. AnswersAreTrue'
  <2>1. TrueAnswer(Resting, stored["hosted"])
    BY DEF TrueAnswer, Resting
  <2> QED BY <1>1, <1>6, <2>1 DEF ClientCore, AnswersAreTrue
<1>9. ASSUME NEW p \in Payloads, withFallback
      PROVE  LeavesOf(p)' + InFlight(p)' = asks'[p] + lost'[p]
  <2>1. LeavesOf(p)' = LeavesOf(p) /\ asks'[p] = asks[p] /\ lost'[p] = lost[p]
    BY <1>1, LeavesAdd
  <2>2. ~IsOnItsWay(post[c], p)
    BY <1>1 DEF IsOnItsWay
  <2>3. InFlight(p)' = InFlight(p)
    BY <1>6, <2>2
  <2>4. LeavesOf(p) + InFlight(p) = asks[p] + lost[p]
    BY <1>9 DEF ClientCore, OneLeafPerEtch
  <2> QED BY <2>1, <2>3, <2>4
<1>10. OneLeafPerEtch'
  BY <1>9 DEF OneLeafPerEtch
<1> QED BY <1>5, <1>6, <1>7, <1>8, <1>10 DEF ClientCore

(* A request fails, and the client's own ledger serves it.                 *)
LEMMA FailKeeps ==
    ASSUME ClientCore, NEW c \in Askers, Fail(c), UNCHANGED withFallback
    PROVE  ClientCore' /\ \A m \in Askers \ {c} : post'[m] = post[m]
<1>1. /\ post[c] # Resting /\ ClientTyped /\ NoteLoss(c) /\ post' = [post EXCEPT ![c] = Resting]
      /\ UNCHANGED <<asks, verifies>>
      /\ FallBack(c) \/ (~withFallback /\ UNCHANGED <<stored, lastSource, given, verdicts>>)
  BY DEF Fail, ClientCore
<1>2. PICK ask : ask = post[c].ask
  OBVIOUS
<1>3. /\ \/ ask \in EtchAsk /\ ask.op = "etch" /\ ask.of \in Payloads
         \/ ask \in VerifyAsk(given) /\ ask.op = "verify" /\ ask.receipt \in given
      /\ post[c].at \in {"posted", "carried out"}
  BY <1>1, <1>2, PostIs, AskIs DEF Resting
<1>w. "hosted" \in Where /\ "local-fallback" \in Where /\ "hosted" # "local-fallback"
  BY DEF Where
<1> DEFINE Loses(p) == ask.op = "etch" /\ post[c].at = "carried out" /\ ask.of = p
<1>4. /\ lost' \in [Payloads -> Nat]
      /\ \A p \in Payloads : /\ Loses(p) => lost'[p] = lost[p] + 1
                             /\ ~Loses(p) => lost'[p] = lost[p]
  <2>1. CASE ask.op = "etch" /\ post[c].at = "carried out"
    <3>1. lost' = [lost EXCEPT ![ask.of] = @ + 1] /\ ask.of \in Payloads
      BY <1>1, <1>2, <1>3, <2>1 DEF NoteLoss
    <3>2. lost \in [Payloads -> Nat]
      BY <1>1 DEF ClientTyped
    <3>3. lost' \in [Payloads -> Nat]
      BY <3>1, <3>2
    <3>4. \A p \in Payloads : /\ p = ask.of => lost'[p] = lost[p] + 1
                              /\ p # ask.of => lost'[p] = lost[p]
      BY <3>1, <3>2
    <3> QED BY <2>1, <3>3, <3>4
  <2>2. CASE ~(ask.op = "etch" /\ post[c].at = "carried out")
    <3>1. lost' = lost
      BY <1>1, <1>2, <2>2 DEF NoteLoss
    <3> QED BY <1>1, <2>2, <3>1 DEF ClientTyped
  <2> QED BY <2>1, <2>2
(* What the ledgers and the caller have after it.                          *)
<1> DEFINE Served ==
        /\ stored' \in [Where -> Seq(LeafRecord)] /\ lastSource' \in Where
        /\ \A v \in Where : \A k \in DOMAIN stored[v] :
               k \in DOMAIN stored'[v] /\ stored'[v][k] = stored[v][k]
        /\ given \subseteq given' /\ given' \subseteq HandedOut /\ verdicts' \subseteq VerdictOn(given')
        /\ LeavesTellWhere' /\ VerdictsAreTheIssuers' /\ ReceiptsAreWhole'
        /\ withFallback => \A p \in Payloads :
               LeavesOf(p)' = LeavesOf(p) + (IF ask.op = "etch" /\ ask.of = p THEN 1 ELSE 0)
<1>5. \A r \in given : LedgerOf(r) \in Where
  BY <1>1 DEF ClientTyped, HandedOut, LedgerOf
<1>6. ASSUME ~withFallback, UNCHANGED <<stored, lastSource, given, verdicts>> PROVE Served
  <2>1. LeavesTellWhere' /\ VerdictsAreTheIssuers' /\ ReceiptsAreWhole'
    BY <1>6 DEF ClientCore, LeavesTellWhere, VerdictsAreTheIssuers, ReceiptsAreWhole
  <2> QED BY <1>1, <1>6, <2>1 DEF ClientTyped
<1>7. ASSUME FallBack(c), ask.op = "etch" PROVE Served
  <2>1. /\ stored' = Etched("local-fallback", ask, "local-fallback") /\ lastSource' = "local-fallback"
        /\ given' = given \cup {ReceiptOf("local-fallback", stored'["local-fallback"])}
        /\ verdicts' = verdicts /\ ask \in EtchAsk
    BY <1>2, <1>3, <1>7 DEF FallBack, Deliver
  <2>2. PICK st : st = stored'
    OBVIOUS
  <2>3. /\ st \in [Where -> Seq(LeafRecord)]
        /\ Len(stored["local-fallback"]) \in Nat
        /\ Len(st["local-fallback"]) = Len(stored["local-fallback"]) + 1
        /\ Len(st["local-fallback"]) \in DOMAIN st["local-fallback"]
        /\ st["local-fallback"][Len(st["local-fallback"])].source = "local-fallback"
        /\ \A v \in Where : \A k \in DOMAIN stored[v] : k \in DOMAIN st[v] /\ st[v][k] = stored[v][k]
    BY SMTT(30), <1>1, <1>w, <2>1, <2>2, LeafAdded
  <2>4. PICK a : /\ a = ReceiptOf("local-fallback", st["local-fallback"]) /\ a \in HandedOut
                 /\ LedgerOf(a) = "local-fallback" /\ PlaceOf(a) = Len(st["local-fallback"])
                 /\ IsWhole(a)
    <3>1. PICK n \in Nat \ {0} : n = Len(st["local-fallback"])
      BY <2>3
    <3>2. PICK a : a = ReceiptOf("local-fallback", st["local-fallback"])
      OBVIOUS
    <3>3. /\ a = [leafHash |-> LeafHash("local-fallback", n), forestRoot |-> Root("local-fallback", n)]
          /\ a.leafHash = LeafHash("local-fallback", n) /\ a.forestRoot = Root("local-fallback", n)
      BY <3>1, <3>2 DEF ReceiptOf
    <3>4. a \in HandedOut
      BY <1>w, <3>3 DEF HandedOut, LeafHash, Root
    <3>5. LedgerOf(a) = "local-fallback" /\ PlaceOf(a) = n
      BY <3>3 DEF LedgerOf, PlaceOf, LeafHash
    <3> QED BY <3>1, <3>2, <3>3, <3>4, <3>5 DEF IsWhole
  <2>5. given' = given \cup {a}
    BY <2>1, <2>2, <2>4
  <2>6. LeavesTellWhere'
    <3>1. ASSUME NEW r \in given'
          PROVE  /\ PlaceOf(r) \in DOMAIN st[LedgerOf(r)]
                 /\ (st[LedgerOf(r)][PlaceOf(r)].source = "local-fallback")
                        <=> LedgerOf(r) = "local-fallback"
      <4>1. CASE r \in given
        BY <1>5, <2>3, <4>1 DEF ClientCore, LeavesTellWhere
      <4>2. CASE r = a
        BY <2>3, <2>4, <4>2
      <4> QED BY <2>5, <4>1, <4>2
    <3> QED BY <2>2, <3>1 DEF LeavesTellWhere
  <2>7. VerdictsAreTheIssuers' /\ ReceiptsAreWhole'
    BY <2>1, <2>4, <2>5 DEF ClientCore, VerdictsAreTheIssuers, ReceiptsAreWhole
  <2>8. VerdictOn(given) \subseteq VerdictOn(given')
    BY <2>5, PostingGrows
  <2>9. ASSUME NEW p \in Payloads
        PROVE  LeavesOf(p)' = LeavesOf(p) + (IF ask.op = "etch" /\ ask.of = p THEN 1 ELSE 0)
    <3>1. /\ LeavesOf(p) = Copies(p, stored["hosted"]) + Copies(p, stored["local-fallback"])
          /\ LeavesOf(p)' = Copies(p, stored'["hosted"]) + Copies(p, stored'["local-fallback"])
          /\ Copies(p, stored["hosted"]) \in Nat /\ Copies(p, stored["local-fallback"]) \in Nat
      BY <1>1, LeavesAdd
    <3>2. /\ Copies(p, stored'["local-fallback"])
               = Copies(p, stored["local-fallback"]) + (IF ask.of = p THEN 1 ELSE 0)
          /\ Copies(p, stored'["hosted"]) = Copies(p, stored["hosted"])
      BY <1>1, <1>w, <2>1, CopiesNext
    <3> QED BY <1>7, <3>1, <3>2
  <2> QED BY <1>1, <1>w, <2>1, <2>2, <2>3, <2>4, <2>5, <2>6, <2>7, <2>8, <2>9 DEF ClientTyped
<1>8. ASSUME FallBack(c), ask.op # "etch" PROVE Served
  <2>1. ask.op = "verify" /\ ask.receipt \in given
    BY <1>3, <1>8
  <2>2. PICK v : v = Verdict("local-fallback", ask.receipt)
    OBVIOUS
  <2>3. /\ stored' = stored /\ lastSource' = "local-fallback" /\ given' = given
        /\ verdicts' = verdicts \cup {v}
    BY <1>2, <1>8, <2>2 DEF FallBack, Deliver
  <2>4. v \in VerdictOn(given) /\ (v.valid <=> v.by = LedgerOf(v.receipt) /\ v.current)
    BY <1>1, <1>w, <2>1, <2>2, VerdictIsTrue DEF ClientCore
  <2>5. LeavesTellWhere' /\ VerdictsAreTheIssuers' /\ ReceiptsAreWhole'
    BY <2>3, <2>4 DEF ClientCore, LeavesTellWhere, VerdictsAreTheIssuers, ReceiptsAreWhole
  <2>6. \A p \in Payloads : LeavesOf(p)' = LeavesOf(p) /\ LeavesOf(p) \in Nat
    BY <1>1, <2>3, LeavesAdd
  <2> QED BY <1>1, <1>8, <1>w, <2>3, <2>4, <2>5, <2>6 DEF ClientTyped
<1>9. Served
  BY <1>1, <1>6, <1>7, <1>8
<1> HIDE DEF Served
<1>10. /\ given \subseteq given' /\ stored' \in [Where -> Seq(LeafRecord)] /\ lastSource' \in Where
       /\ \A k \in DOMAIN stored["hosted"] :
              k \in DOMAIN stored'["hosted"] /\ stored'["hosted"][k] = stored["hosted"][k]
       /\ given' \subseteq HandedOut /\ verdicts' \subseteq VerdictOn(given')
       /\ LeavesTellWhere' /\ VerdictsAreTheIssuers' /\ ReceiptsAreWhole'
  BY <1>9, <1>w DEF Served
<1>11. /\ post' \in [Askers -> Posting(given')] /\ post'[c] = Resting
       /\ \A m \in Askers \ {c} : post'[m] = post[m]
       /\ \A p : /\ InFlight(p) \in Nat
                 /\ InFlight(p)' = InFlight(p) - (IF IsOnItsWay(post[c], p) THEN 1 ELSE 0)
  BY <1>1, <1>10, PostRests
<1>12. ClientTyped'
  BY <1>1, <1>4, <1>10, <1>11 DEF ClientTyped
<1>13. AnswersAreTrue'
  <2>1. TrueAnswer(Resting, stored'["hosted"])
    BY DEF TrueAnswer, Resting
  <2>2. \A m \in Askers : TrueAnswer(post[m], stored'["hosted"])
    BY <1>10 DEF ClientCore, AnswersAreTrue, TrueAnswer
  <2> QED BY <1>11, <2>1, <2>2 DEF AnswersAreTrue
<1>14. ASSUME NEW p \in Payloads, withFallback
       PROVE  LeavesOf(p)' + InFlight(p)' = asks'[p] + lost'[p]
  <2>1. LeavesOf(p)' = LeavesOf(p) + (IF ask.op = "etch" /\ ask.of = p THEN 1 ELSE 0)
    BY <1>9, <1>14 DEF Served
  <2>2. LeavesOf(p) \in Nat /\ lost[p] \in Nat /\ asks[p] \in Nat
    BY <1>1, LeavesAdd
  <2>3. IsOnItsWay(post[c], p) <=> post[c].at = "posted" /\ ask.op = "etch" /\ ask.of = p
    BY <1>1, <1>2 DEF IsOnItsWay
  <2>4. LeavesOf(p) + InFlight(p) = asks[p] + lost[p]
    BY <1>14 DEF ClientCore, OneLeafPerEtch
  <2>5. /\ Loses(p) => lost'[p] = lost[p] + 1
        /\ ~Loses(p) => lost'[p] = lost[p]
        /\ asks'[p] = asks[p]
    <3>1. asks'[p] = asks[p]
      BY <1>1
    <3>2. p \in Payloads
      OBVIOUS
    <3> HIDE DEF Loses
    <3> QED BY <1>4, <3>1, <3>2
  <2>6. /\ InFlight(p) \in Nat
        /\ InFlight(p)' = InFlight(p) - (IF IsOnItsWay(post[c], p) THEN 1 ELSE 0)
    BY <1>11
  <2>7. CASE ask.op = "etch" /\ ask.of = p /\ post[c].at = "posted"
    <3>1. LeavesOf(p)' = LeavesOf(p) + 1 /\ InFlight(p)' = InFlight(p) - 1 /\ ~Loses(p)
      BY <2>1, <2>3, <2>6, <2>7
    <3> HIDE DEF Loses
    <3> QED BY <2>2, <2>4, <2>5, <2>6, <3>1
  <2>8. CASE ask.op = "etch" /\ ask.of = p /\ post[c].at = "carried out"
    <3>1. LeavesOf(p)' = LeavesOf(p) + 1 /\ InFlight(p)' = InFlight(p) - 0 /\ Loses(p)
      BY <2>1, <2>3, <2>6, <2>8
    <3> HIDE DEF Loses
    <3> QED BY <2>2, <2>4, <2>5, <2>6, <3>1
  <2>9. CASE ~(ask.op = "etch" /\ ask.of = p)
    <3>1. LeavesOf(p)' = LeavesOf(p) + 0 /\ InFlight(p)' = InFlight(p) - 0 /\ ~Loses(p)
      BY <2>1, <2>3, <2>6, <2>9
    <3> HIDE DEF Loses
    <3> QED BY <2>2, <2>4, <2>5, <2>6, <3>1
  <2> QED BY <1>3, <2>7, <2>8, <2>9
<1>15. OneLeafPerEtch'
  BY <1>14 DEF OneLeafPerEtch
<1> QED BY <1>10, <1>11, <1>12, <1>13, <1>15 DEF ClientCore

(* Only the request of the replay is of importance to the replay.          *)
LEMMA OthersLeaveReplay ==
    ASSUME ReplayInv, UNCHANGED <<replay, resent>>,
           post'[Replayer] = Resting <=> post[Replayer] = Resting
    PROVE  ReplayInv'
<1>1. Unasked' = Unasked
  BY DEF Unasked
<1> QED BY <1>1 DEF ReplayInv, ReplaysAskForAll

LEMMA PostStep ==
    ASSUME ClientIndInv, NEW c \in Posts, PostNext(c), UNCHANGED withFallback
    PROVE  ClientIndInv'
<1>1. c \in Askers /\ Replayer \in Askers \ {c} /\ ClientCore /\ ReplayInv
  BY LedgerClientAssumption DEF Askers, ClientIndInv
<1>2. CASE \E p \in Payloads : AskEtch(c, p)
  <2>1. PICK p \in Payloads : AskEtch(c, p)
    BY <1>2
  <2>2. PICK ask : ask = [op |-> "etch", of |-> p, again |-> FALSE]
    OBVIOUS
  <2>3. ask \in EtchAsk /\ Ask(c, ask) /\ UNCHANGED <<stored, lastSource, given, verdicts, lost, resent, replay>>
    BY <2>1, <2>2 DEF AskEtch, EtchAsk
  <2>4. ClientCore' /\ post'[Replayer] = post[Replayer]
    BY <1>1, <2>3, AskKeeps DEF Ask
  <2> QED BY <1>1, <2>3, <2>4, OthersLeaveReplay DEF ClientIndInv
<1>3. CASE \E r \in given : AskVerify(c, r)
  <2>1. PICK r \in given : AskVerify(c, r)
    BY <1>3
  <2>2. PICK ask : ask = [op |-> "verify", receipt |-> r]
    OBVIOUS
  <2>3. ask \in VerifyAsk(given) /\ Ask(c, ask) /\ UNCHANGED <<stored, lastSource, given, verdicts, lost, resent, replay>>
    BY <2>1, <2>2 DEF AskVerify, VerifyAsk
  <2>4. ClientCore' /\ post'[Replayer] = post[Replayer]
    BY <1>1, <2>3, AskKeeps DEF Ask
  <2> QED BY <1>1, <2>3, <2>4, OthersLeaveReplay DEF ClientIndInv
<1>4. CASE Answer(c) /\ UNCHANGED replay
  <2>1. ClientCore' /\ post'[Replayer] = post[Replayer]
    BY <1>1, <1>4, AnswerKeeps
  <2>2. UNCHANGED <<replay, resent>>
    BY <1>4 DEF Answer
  <2> QED BY <1>1, <2>1, <2>2, OthersLeaveReplay DEF ClientIndInv
<1>5. CASE Fail(c) /\ UNCHANGED replay
  <2>1. ClientCore' /\ post'[Replayer] = post[Replayer]
    BY <1>1, <1>5, FailKeeps
  <2>2. UNCHANGED <<replay, resent>>
    BY <1>5 DEF Fail
  <2> QED BY <1>1, <2>1, <2>2, OthersLeaveReplay DEF ClientIndInv
<1> QED BY <1>2, <1>3, <1>4, <1>5 DEF PostNext

LEMMA CarryOutStep ==
    ASSUME ClientIndInv, NEW c \in Askers, CarryOut(c), UNCHANGED withFallback
    PROVE  ClientIndInv'
<1>1. ClientCore /\ ReplayInv /\ Replayer \in Askers /\ UNCHANGED <<replay, resent>> /\ post[c] # Resting
  BY DEF Askers, ClientIndInv, CarryOut
<1>2. ClientCore' /\ \A m \in Askers \ {c} : post'[m] = post[m]
  BY <1>1, CarryOutKeeps
<1>3. ReplayInv'
  <2>1. CASE c = Replayer
    <3>1. post'[c] # Resting
      <4>1. \E ask, a : post' = [post EXCEPT ![c] = [at |-> "carried out", ask |-> ask, answer |-> a]]
        BY DEF CarryOut
      <4>2. \A ask, a : [at |-> "carried out", ask |-> ask, answer |-> a] # Resting
        <5>1. \A ask, a : [at |-> "carried out", ask |-> ask, answer |-> a].at = "carried out"
          OBVIOUS
        <5>2. Resting.at = "idle"
          BY DEF Resting
        <5> QED BY <5>1, <5>2
      <4> QED BY <1>1, <4>1, <4>2 DEF ClientCore, ClientTyped
    <3> QED BY <1>1, <2>1, <3>1, OthersLeaveReplay
  <2>2. CASE c # Replayer
    BY <1>1, <1>2, <2>2, OthersLeaveReplay
  <2> QED BY <2>1, <2>2
<1> QED BY <1>2, <1>3 DEF ClientIndInv

(* The hash of an etch is never a leaf's: all etches are missing.          *)
LEMMA AllAreMissing ==
    ASSUME NEW w
    PROVE  MissingInLedger(w) = Payloads
<1>1. \A p, k : EtchHash(p) # LeafHash(w, k)
  BY DEF EtchHash, LeafHash
<1> QED BY <1>1 DEF MissingInLedger, LeafHashes

(* A list of what is missing, in any order.                                *)
LEMMA MissingIsListed ==
    ASSUME NEW w, NEW todo \in SetToSeqs(MissingInLedger(w))
    PROVE  /\ todo \in Seq(Payloads) /\ ToSet(todo) = Payloads
           /\ \A j, k \in DOMAIN todo : todo[j] = todo[k] => j = k
<1> DEFINE n == Cardinality(Payloads)
<1>1. MissingInLedger(w) = Payloads
  BY AllAreMissing
<1>2. IsFiniteSet(Payloads) /\ n \in Nat
  BY LedgerClientAssumption, FS_CardinalityType
<1>3. todo \in [1..n -> Payloads] /\ \A j, k \in 1..n : j # k => todo[j] # todo[k]
  BY <1>1 DEF SetToSeqs
<1> HIDE DEF n
<1>4. todo \in Seq(Payloads) /\ DOMAIN todo = 1..n
  BY <1>2, <1>3
<1>5. todo \in Injection(1..n, Payloads)
  BY <1>3 DEF Injection, IsInjective
<1>6. Cardinality(1..n) = n
  <2>1. Cardinality(1..n) = IF 1 > n THEN 0 ELSE n - 1 + 1
    BY <1>2, FS_Interval
  <2> QED BY <1>2, <2>1
<1>7. todo \in Surjection(1..n, Payloads)
  BY <1>2, <1>5, <1>6, FS_Injection DEF n
<1>8. \A p \in Payloads : \E k \in 1..n : todo[k] = p
  BY <1>7 DEF Surjection
<1>9. ToSet(todo) = Payloads
  BY <1>3, <1>4, <1>8 DEF ToSet
<1> QED BY <1>3, <1>4, <1>9

LEMMA ReconcileStep ==
    ASSUME ClientIndInv, Reconcile, UNCHANGED withFallback
    PROVE  ClientIndInv'
<1>1. ClientCore /\ ReplayInv /\ replay.state # "running" /\ replay.rounds < MaxReplays
      /\ UNCHANGED <<stored, post, given, verdicts, lost, asks, resent, verifies>>
  BY DEF ClientIndInv, Reconcile
<1>2. PICK w \in Where :
        /\ \E todo \in SetToSeqs(MissingInLedger(w)) :
               replay' = [state |-> "running", todo |-> todo, replayed |-> 0, errors |-> 0,
                          rounds |-> replay.rounds + 1]
        /\ lastSource' = w
  BY DEF Reconcile, Where
<1>3. PICK todo \in SetToSeqs(MissingInLedger(w)) :
        replay' = [state |-> "running", todo |-> todo, replayed |-> 0, errors |-> 0,
                   rounds |-> replay.rounds + 1]
  BY <1>2
<1>4. /\ todo \in Seq(Payloads) /\ ToSet(todo) = Payloads
      /\ \A j, k \in DOMAIN todo : todo[j] = todo[k] => j = k
  BY <1>3, MissingIsListed
<1>5. replay.rounds \in 0..MaxReplays /\ MaxReplays \in Nat
  BY <1>1, LedgerClientAssumption DEF ReplayInv, Replaying
<1>6. replay.rounds + 1 \in 0..MaxReplays
  BY <1>1, <1>5
<1>7. replay' \in Replaying
  BY <1>3, <1>4, <1>6 DEF Replaying
<1>8. post[Replayer] = Resting
  BY <1>1 DEF ReplayInv
<1>9. ReplayInv'
  <2>1. replay'.state = "running" /\ replay'.todo = todo /\ replay'.rounds = replay.rounds + 1
    BY <1>3
  <2>2. Unasked = ToSet(<<>>) /\ Unasked' = Payloads
    BY <1>1, <1>4, <1>8, <2>1 DEF Unasked, ReplayInv
  <2>3. ToSet(<<>>) = {}
    BY DEF ToSet
  <2>4. ASSUME NEW p \in Payloads
        PROVE  resent'[p] + (IF p \in Unasked' THEN 1 ELSE 0) = replay'.rounds
    <3>1. resent[p] \in Nat /\ resent[p] + 0 = replay.rounds
      BY <1>1, <2>2, <2>3 DEF ReplayInv, ReplaysAskForAll
    <3>2. resent'[p] = resent[p]
      BY <1>1
    <3> QED BY <2>1, <2>2, <3>1, <3>2
  <2>5. ReplaysAskForAll'
    BY <2>4 DEF ReplaysAskForAll
  <2> QED BY <1>1, <1>4, <1>7, <1>8, <2>1, <2>5 DEF ReplayInv
<1>10. ClientTyped'
  BY <1>1, <1>2 DEF ClientCore, ClientTyped
<1>11. LeavesTellWhere' /\ VerdictsAreTheIssuers' /\ ReceiptsAreWhole' /\ AnswersAreTrue'
  BY <1>1 DEF ClientCore, LeavesTellWhere, VerdictsAreTheIssuers, ReceiptsAreWhole, AnswersAreTrue
<1>12. OneLeafPerEtch'
  BY <1>1 DEF ClientCore, OneLeafPerEtch, LeavesOf, CopiesOf, InFlight, OnItsWay
<1> QED BY <1>9, <1>10, <1>11, <1>12 DEF ClientIndInv, ClientCore

(* What is first of a list without repetition is not in the rest of it.    *)
LEMMA HeadLeaves ==
    ASSUME NEW todo \in Seq(Payloads), todo # <<>>,
           \A j, k \in DOMAIN todo : todo[j] = todo[k] => j = k
    PROVE  /\ ToSet(todo) = ToSet(Tail(todo)) \cup {Head(todo)}
           /\ Head(todo) \notin ToSet(Tail(todo))
           /\ \A j, k \in DOMAIN Tail(todo) : Tail(todo)[j] = Tail(todo)[k] => j = k
<1>1. PICK n \in Nat : n = Len(todo) /\ DOMAIN todo = 1..n /\ n >= 1
  OBVIOUS
<1>2. PICK rest \in Seq(Payloads) : rest = Tail(todo)
  <2>1. Tail(todo) \in Seq(Payloads)
    OBVIOUS
  <2> QED BY <2>1
<1>3. DOMAIN rest = 1..(n - 1) /\ \A k \in 1..(n - 1) : rest[k] = todo[k + 1]
  BY <1>1, <1>2
<1>4. Head(todo) = todo[1]
  OBVIOUS
<1>5. \A k \in 1..n : k = 1 \/ (k - 1 \in 1..(n - 1) /\ rest[k - 1] = todo[k])
  BY <1>1, <1>3
<1>6. \A k \in 1..(n - 1) : k + 1 \in 1..n /\ k + 1 # 1
  BY <1>1
<1>7. ToSet(todo) \subseteq ToSet(rest) \cup {todo[1]}
  BY <1>1, <1>3, <1>5 DEF ToSet
<1>8. ToSet(rest) \cup {todo[1]} \subseteq ToSet(todo)
  BY <1>1, <1>3, <1>6 DEF ToSet
<1>9. todo[1] \notin ToSet(rest)
  <2>1. \A k \in 1..(n - 1) : rest[k] # todo[1]
    <3>1. ASSUME NEW k \in 1..(n - 1), rest[k] = todo[1] PROVE FALSE
      <4>1. todo[k + 1] = todo[1] /\ k + 1 \in DOMAIN todo /\ 1 \in DOMAIN todo
        BY <1>1, <1>3, <3>1
      <4>2. k + 1 = 1
        BY <4>1
      <4> QED BY <4>2
    <3> QED BY <3>1
  <2> QED BY <1>3, <2>1 DEF ToSet
<1>10. \A j, k \in DOMAIN rest : rest[j] = rest[k] => j = k
  <2>1. ASSUME NEW j \in 1..(n - 1), NEW k \in 1..(n - 1), rest[j] = rest[k] PROVE j = k
    <3>1. j + 1 = k + 1
      BY <1>1, <1>3, <1>6, <2>1
    <3> QED BY <3>1
  <2> QED BY <1>3, <2>1
<1> QED BY <1>2, <1>4, <1>7, <1>8, <1>9, <1>10

LEMMA ReplayNextStep ==
    ASSUME ClientIndInv, ReplayNext, UNCHANGED withFallback
    PROVE  ClientIndInv'
<1>1. ClientCore /\ ReplayInv /\ Replayer \in Askers /\ replay.state = "running" /\ replay.todo # <<>>
      /\ UNCHANGED <<stored, lastSource, given, verdicts, lost, replay>>
      /\ resent' = [resent EXCEPT ![Head(replay.todo)] = @ + 1]
  BY DEF Askers, ClientIndInv, ReplayNext
<1>2. PICK ask : ask = [op |-> "etch", of |-> Head(replay.todo), again |-> TRUE]
  OBVIOUS
<1>3. PICK todo \in Seq(Payloads) : todo = replay.todo
  BY <1>1 DEF ReplayInv, Replaying
<1>4. Head(todo) \in Payloads
  BY <1>1, <1>3
<1>5. ask \in EtchAsk /\ Ask(Replayer, ask)
  BY <1>2, <1>3, <1>4 DEF EtchAsk, ReplayNext
<1>6. ClientCore'
  BY <1>1, <1>5, AskKeeps
<1>7. post[Replayer] = Resting /\ post'[Replayer] # Resting
  <2>1. post[Replayer] = Resting /\ post' = [post EXCEPT ![Replayer] = [at |-> "posted", ask |-> ask]]
    BY <1>5 DEF Ask
  <2>2. [at |-> "posted", ask |-> ask].at = "posted" /\ Resting.at = "idle"
    BY DEF Resting
  <2> QED BY <1>1, <2>1, <2>2 DEF ClientCore, ClientTyped
<1>8. \A j, k \in DOMAIN todo : todo[j] = todo[k] => j = k
  BY <1>1, <1>3 DEF ReplayInv
<1>9. ToSet(todo) = ToSet(Tail(todo)) \cup {Head(todo)} /\ Head(todo) \notin ToSet(Tail(todo))
  BY <1>1, <1>3, <1>8, HeadLeaves
<1>10. Unasked = ToSet(todo) /\ Unasked' = ToSet(Tail(todo))
  BY <1>1, <1>3, <1>7 DEF Unasked
<1>11. ASSUME NEW p \in Payloads
       PROVE  /\ resent'[p] \in Nat
              /\ resent'[p] + (IF p \in Unasked' THEN 1 ELSE 0) = replay'.rounds
  <2>1. resent \in [Payloads -> Nat] /\ resent[p] + (IF p \in Unasked THEN 1 ELSE 0) = replay.rounds
    BY <1>1 DEF ReplayInv, ReplaysAskForAll
  <2>2. resent'[p] = IF p = Head(todo) THEN resent[p] + 1 ELSE resent[p]
    BY <1>1, <1>3, <2>1
  <2>3. CASE p = Head(todo)
    BY <1>1, <1>9, <1>10, <2>1, <2>2, <2>3
  <2>4. CASE p # Head(todo)
    BY <1>1, <1>9, <1>10, <2>1, <2>2, <2>4
  <2> QED BY <2>3, <2>4
<1>12. resent' \in [Payloads -> Nat]
  <2>1. resent \in [Payloads -> Nat]
    BY <1>1 DEF ReplayInv
  <2> QED BY <1>1, <1>11, <2>1
<1>13. ReplayInv'
  <2>1. ReplaysAskForAll'
    BY <1>11 DEF ReplaysAskForAll
  <2> QED BY <1>1, <1>12, <2>1 DEF ReplayInv
<1> QED BY <1>6, <1>13 DEF ClientIndInv

(* One etch less to replay, and a count more.                              *)
LEMMA ReplayGoesOn ==
    ASSUME ReplayInv, replay.todo # <<>>,
           \/ replay' = [replay EXCEPT !.todo = Tail(@), !.replayed = @ + 1]
           \/ replay' = [replay EXCEPT !.todo = Tail(@), !.errors = @ + 1]
    PROVE  replay' \in Replaying
<1>1. PICK r \in Replaying : r = replay
  BY DEF ReplayInv
<1>2. PICK todo \in Seq(Payloads) : todo = r.todo
  BY DEF Replaying
<1>3. Tail(todo) \in Seq(Payloads)
  BY <1>1, <1>2
<1>4. r.replayed + 1 \in Nat /\ r.errors + 1 \in Nat
  BY DEF Replaying
<1> QED BY <1>1, <1>2, <1>3, <1>4 DEF Replaying

LEMMA ReplayAnsweredStep ==
    ASSUME ClientIndInv, ReplayAnswered, UNCHANGED withFallback
    PROVE  ClientIndInv'
<1>1. ClientCore /\ ReplayInv /\ Replayer \in Askers
  BY DEF Askers, ClientIndInv
<1>2. Answer(Replayer) \/ Fail(Replayer)
  BY DEF ReplayAnswered
<1>3. post[Replayer] # Resting /\ post' = [post EXCEPT ![Replayer] = Resting]
  BY <1>2 DEF Answer, Fail
<1>4. post'[Replayer] = Resting
  BY <1>1, <1>3 DEF ClientCore, ClientTyped
<1>5. ClientCore'
  BY <1>1, <1>2, AnswerKeeps, FailKeeps
<1>6. replay.todo # <<>>
  BY <1>1, <1>3 DEF ReplayInv
<1>7. \/ replay' = [replay EXCEPT !.todo = Tail(@), !.replayed = @ + 1]
      \/ replay' = [replay EXCEPT !.todo = Tail(@), !.errors = @ + 1]
  BY DEF ReplayAnswered
<1>8. replay' \in Replaying
  BY <1>1, <1>6, <1>7, ReplayGoesOn
<1>9. resent' = resent
  BY <1>2 DEF Answer, Fail
<1>10. PICK todo \in Seq(Payloads) : todo = replay.todo
  BY <1>1 DEF ReplayInv, Replaying
<1>11. replay'.todo = Tail(todo) /\ replay'.rounds = replay.rounds /\ replay'.state = replay.state
  <2>1. PICK old \in Replaying : old = replay
    BY <1>1 DEF ReplayInv
  <2> QED BY <1>7, <1>10, <2>1 DEF Replaying
<1>12. Unasked' = Unasked
  BY <1>3, <1>4, <1>10, <1>11 DEF Unasked
<1>13. \A j, k \in DOMAIN Tail(todo) : Tail(todo)[j] = Tail(todo)[k] => j = k
  <2>1. \A j, k \in DOMAIN todo : todo[j] = todo[k] => j = k
    BY <1>1, <1>10 DEF ReplayInv
  <2> QED BY <1>6, <1>10, <2>1, HeadLeaves
<1>14. ReplaysAskForAll'
  BY <1>1, <1>9, <1>11, <1>12 DEF ReplayInv, ReplaysAskForAll
<1>15. replay.state = "running"
  BY <1>1, <1>3 DEF ReplayInv
<1>16. ReplayInv'
  BY <1>1, <1>4, <1>8, <1>9, <1>11, <1>13, <1>14, <1>15 DEF ReplayInv
<1> QED BY <1>5, <1>16 DEF ClientIndInv

LEMMA ReplayEndsStep ==
    ASSUME ClientIndInv, ReplayEnds, UNCHANGED withFallback
    PROVE  ClientIndInv'
<1>1. ClientCore /\ ReplayInv /\ replay.todo = <<>> /\ replay' = [replay EXCEPT !.state = "ended"]
      /\ UNCHANGED <<stored, post, lastSource, given, verdicts, lost, asks, resent, verifies>>
  BY DEF ClientIndInv, ReplayEnds
<1>2. /\ replay' \in Replaying /\ post[Replayer] = Resting
      /\ replay'.todo = replay.todo /\ replay'.rounds = replay.rounds
  BY <1>1 DEF ReplayInv, Replaying
<1>3. ReplayInv'
  <2>1. Unasked' = Unasked
    BY <1>1, <1>2 DEF Unasked
  <2>2. ReplaysAskForAll'
    BY <1>1, <1>2, <2>1 DEF ReplayInv, ReplaysAskForAll
  <2> QED BY <1>1, <1>2, <2>2 DEF ReplayInv
<1>4. ClientTyped'
  BY <1>1 DEF ClientCore, ClientTyped
<1>5. LeavesTellWhere' /\ VerdictsAreTheIssuers' /\ ReceiptsAreWhole' /\ AnswersAreTrue'
  BY <1>1 DEF ClientCore, LeavesTellWhere, VerdictsAreTheIssuers, ReceiptsAreWhole, AnswersAreTrue
<1>6. OneLeafPerEtch'
  BY <1>1 DEF ClientCore, OneLeafPerEtch, LeavesOf, CopiesOf, InFlight, OnItsWay
<1> QED BY <1>3, <1>4, <1>5, <1>6 DEF ClientIndInv, ClientCore

LEMMA ClientIndInvStep ==
    ASSUME ClientIndInv, [LedgerClientNext]_ledgerClientVars
    PROVE  ClientIndInv'
<1>1. CASE LedgerClientNext
  <2>1. UNCHANGED withFallback
    BY <1>1 DEF LedgerClientNext
  <2>2. \/ \E c \in Posts : PostNext(c)
        \/ \E c \in Askers : CarryOut(c)
        \/ Reconcile \/ ReplayNext \/ ReplayAnswered \/ ReplayEnds
    BY <1>1 DEF LedgerClientNext, Askers
  <2> QED BY <2>1, <2>2, PostStep, CarryOutStep, ReconcileStep, ReplayNextStep,
             ReplayAnsweredStep, ReplayEndsStep
<1>2. CASE UNCHANGED ledgerClientVars
  <2>1. UNCHANGED <<withFallback, stored, post, lastSource, given, verdicts, lost, asks,
                    resent, verifies, replay>>
    BY <1>2 DEF ledgerClientVars
  <2>2. ClientTyped'
    BY <2>1 DEF ClientIndInv, ClientCore, ClientTyped
  <2>3. LeavesTellWhere' /\ VerdictsAreTheIssuers' /\ ReceiptsAreWhole' /\ AnswersAreTrue' /\ ReplayInv'
    BY <2>1 DEF ClientIndInv, ClientCore, LeavesTellWhere, VerdictsAreTheIssuers,
                ReceiptsAreWhole, AnswersAreTrue, ReplayInv, ReplaysAskForAll, Unasked
  <2>4. OneLeafPerEtch'
    BY <2>1 DEF ClientIndInv, ClientCore, OneLeafPerEtch, LeavesOf, CopiesOf, InFlight, OnItsWay
  <2> QED BY <2>2, <2>3, <2>4 DEF ClientIndInv, ClientCore
<1> QED BY <1>1, <1>2

LEMMA ClientIndInvInit ==
    ASSUME LedgerClientInit
    PROVE  ClientIndInv
<1>1. \A c \in Askers : post[c] = Resting
  BY DEF LedgerClientInit, Askers
<1>2. ClientTyped
  <2>1. post \in [Askers -> Posting(given)]
    BY DEF LedgerClientInit, Askers, Posting
  <2>2. stored \in [Where -> Seq(LeafRecord)]
    BY DEF LedgerClientInit
  <2>3. lost \in [Payloads -> Nat] /\ asks \in [Payloads -> Nat] /\ verifies \in Nat
    BY DEF LedgerClientInit
  <2> QED BY <2>1, <2>2, <2>3 DEF LedgerClientInit, ClientTyped, Where
<1>3. AnswersAreTrue
  <2>1. Resting.at = "idle"
    BY DEF Resting
  <2> QED BY <1>1, <2>1 DEF AnswersAreTrue, TrueAnswer
<1>4. LeavesTellWhere /\ VerdictsAreTheIssuers /\ ReceiptsAreWhole
  BY DEF LedgerClientInit, LeavesTellWhere, VerdictsAreTheIssuers, ReceiptsAreWhole
<1>5. OneLeafPerEtch
  <2>1. ASSUME NEW p \in Payloads PROVE LeavesOf(p) + InFlight(p) = asks[p] + lost[p]
    <3>1. stored["hosted"] = <<>> /\ stored["local-fallback"] = <<>>
      BY DEF LedgerClientInit, Where
    <3>2. {k \in DOMAIN <<>> : <<>>[k].of = p} = {}
      OBVIOUS
    <3>3. CopiesOf(p, "hosted") = 0 /\ CopiesOf(p, "local-fallback") = 0
      <4>1. {k \in DOMAIN stored["hosted"] : stored["hosted"][k].of = p} = {}
        BY <3>1
      <4>2. {k \in DOMAIN stored["local-fallback"] : stored["local-fallback"][k].of = p} = {}
        BY <3>1
      <4> QED BY <4>1, <4>2, FS_EmptySet DEF CopiesOf
    <3>4. OnItsWay(p) = {}
      BY <1>1 DEF OnItsWay, Askers
    <3>5. InFlight(p) = 0
      BY <3>4, FS_EmptySet DEF InFlight
    <3>6. asks[p] = 0 /\ lost[p] = 0
      BY DEF LedgerClientInit
    <3> QED BY <3>3, <3>5, <3>6 DEF LeavesOf
  <2> QED BY <2>1 DEF OneLeafPerEtch
<1>6. ReplayInv
  <2>1. replay \in Replaying
    BY LedgerClientAssumption DEF LedgerClientInit, Replaying
  <2>2. post[Replayer] = Resting
    BY <1>1 DEF Askers
  <2>3. replay.todo = <<>> /\ replay.rounds = 0 /\ resent = [p \in Payloads |-> 0]
    BY DEF LedgerClientInit
  <2>4. Unasked = {}
    BY <2>2, <2>3 DEF Unasked, ToSet
  <2>5. ReplaysAskForAll
    BY <2>3, <2>4 DEF ReplaysAskForAll
  <2>6. resent \in [Payloads -> Nat]
    BY <2>3
  <2>7. \A j, k \in DOMAIN replay.todo : replay.todo[j] = replay.todo[k] => j = k
    BY <2>3
  <2> QED BY <2>1, <2>2, <2>3, <2>5, <2>6, <2>7 DEF ReplayInv
<1> QED BY <1>2, <1>3, <1>4, <1>5, <1>6 DEF ClientIndInv, ClientCore

LEMMA ClientIndInvImplies ==
    ASSUME ClientIndInv
    PROVE  LedgerClientInv
<1>1. LedgerClientTypeOK
  BY DEF ClientIndInv, ClientCore, ClientTyped, ReplayInv, Askers, LedgerClientTypeOK
<1> QED BY <1>1 DEF ClientIndInv, ClientCore, ReplayInv, LedgerClientInv

(* Whichever requests are lost, late or answered after the client served   *)
(* them itself, and however replays run among them: the leaf of a receipt  *)
(* stays and tells which ledger it is in, a verdict is valid exactly when  *)
(* it comes from the ledger that issued the receipt and that has not grown *)
(* since, an etch leaves one leaf and one more for each answer that was    *)
(* lost once it had been stored, and each replay etches every local etch   *)
(* again, whatever the ledgers hold.                                       *)
THEOREM EveryEtchLeavesItsLeaf == LedgerClientSpec => []LedgerClientInv
<1> QED BY ClientIndInvInit, ClientIndInvStep, ClientIndInvImplies, PTL DEF LedgerClientSpec
-----------------------------------------------------------------------------
(* The two of them as the small instances run them: a behaviour is about   *)
(* one of the ways to a ledger, and the others' state rests.               *)
RemoteIndInv ==
    /\ focus = "redis" => RedisIndInv
    /\ focus = "client" => ClientIndInv

(* In the run of all three ways to a ledger: requests forwarded through    *)
(* Redis are lost to faults only and retried within their budget, and of   *)
(* the client's leaves each is explained by an etch, a lost answer or a    *)
(* replay.                                                                 *)
THEOREM RemoteWaysHold == LedgerRunSpec => []RemoteWaysInv
<1>1. LedgerRunInit => RemoteIndInv
  BY RedisIndInvInit, ClientIndInvInit DEF LedgerRunInit, RemoteIndInv
<1>2. RemoteIndInv /\ [LedgerRunNext]_ledgerRunVars => RemoteIndInv'
  <2> SUFFICES ASSUME RemoteIndInv, [LedgerRunNext]_ledgerRunVars PROVE RemoteIndInv'
    OBVIOUS
  <2>1. focus' = focus
    BY DEF LedgerRunNext, ledgerRunVars
  <2>2. ASSUME focus = "redis" PROVE RedisIndInv'
    <3>1. [RedisForwarderNext]_redisForwarderVars
      BY <2>2 DEF LedgerRunNext, ledgerRunVars
    <3> QED BY <2>2, <3>1, RedisIndInvStep DEF RemoteIndInv
  <2>3. ASSUME focus = "client" PROVE ClientIndInv'
    <3>1. [LedgerClientNext]_ledgerClientVars
      BY <2>3 DEF LedgerRunNext, ledgerRunVars
    <3> QED BY <2>3, <3>1, ClientIndInvStep DEF RemoteIndInv
  <2> QED BY <2>1, <2>2, <2>3 DEF RemoteIndInv
<1>3. RemoteIndInv => RemoteWaysInv
  BY ClientIndInvImplies DEF RemoteIndInv, RemoteWaysInv, RedisIndInv, RedisTyped, BudgetInv,
     RedisForwarderInv
<1> QED BY <1>1, <1>2, <1>3, PTL DEF LedgerRunSpec
=============================================================================
