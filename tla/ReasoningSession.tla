--------------------------- MODULE ReasoningSession ---------------------------
(***************************************************************************)
(* A reasoning session (src/core/reasoningReceipts.ts): claims appended to *)
(* a Merkle mountain range, and receipts that prove a claim to a reader    *)
(* who holds nothing but the root.  A claim stands for its leaf entry.     *)
(* Underneath, the RFC 6962 tree over a sequence of entries                *)
(* (src/provenance/merkleTree.ts).  A hash is the term it was computed     *)
(* from: two hashes are equal exactly if their inputs are.                 *)
(***************************************************************************)
EXTENDS Naturals, Sequences, SequencesExt, FiniteSetsExt

CONSTANTS
    Claims,
    NoReceipt,
    MaxClaims     \* bound: claims of the session

ASSUME SessionAssumption == /\ MaxClaims \in Nat
                            /\ NoReceipt \notin Claims

VARIABLES
    claims,       \* what was claimed, in order
    peaks,        \* peaks of the range, left to right: perfect trees
    receipt       \* the receipt issued last

sessionVars == <<claims, peaks, receipt>>

-----------------------------------------------------------------------------
(* The tree. *)

HashLeaf(entry) == <<"leaf", entry>>
HashNode(left, right) == <<"node", left, right>>
EmptyRoot == <<"empty">>

(* largestPowerOfTwoBelow(): k doubles as long as its double is below n. *)
LargestPowerOfTwoBelow(n) == Max({k \in 1..(n - 1) : \E e \in 0..n : k = 2^e})

(* merkleRoot() of the n leaves after the first low, a slice of the leaves. *)
HeadOf(leaves, low, n) ==
    LET root[m \in Nat] == [l \in Nat |->
            LET k == LargestPowerOfTwoBelow(m)
            IN  CASE m = 0 -> EmptyRoot
                  [] m = 1 -> HashLeaf(leaves[l + 1])
                  [] OTHER -> HashNode(root[k][l], root[m - k][l + k])]
    IN  root[n][low]
MerkleRoot(leaves) == HeadOf(leaves, 0, Len(leaves))

(* A step of a proof: the sibling's hash and its side. *)
Step(sibling, side) == [sibling |-> sibling, side |-> side]

(* inclusionProof(): the steps for leaf i (from 1 on), from the leaf up. *)
InclusionProof(leaves, i) ==
    LET path[m \in Nat] == [l \in Nat |->
            LET k == LargestPowerOfTwoBelow(m)
            IN  IF m <= 1 THEN <<>>
                ELSE IF i <= l + k
                THEN Append(path[k][l], Step(HeadOf(leaves, l + k, m - k), "right"))
                ELSE Append(path[m - k][l + k], Step(HeadOf(leaves, l, k), "left"))]
    IN  path[Len(leaves)][0]

(* verifyProof(), verifyInclusionProof(): the steps folded from the leaf. *)
Ascend(hash, step) == IF step.side = "left" THEN HashNode(step.sibling, hash)
                                            ELSE HashNode(hash, step.sibling)
Ascended(hash, proof) ==
    LET up[j \in 0..Len(proof)] == IF j = 0 THEN hash ELSE Ascend(up[j - 1], proof[j])
    IN  up[Len(proof)]
VerifyProof(entry, proof, root) == Ascended(HashLeaf(entry), proof) = root

-----------------------------------------------------------------------------
(* The session. *)

(* A mountain: its hash, its number of leaves, and what it was made of. *)
Summit(entry) == [hash |-> HashLeaf(entry), size |-> 1, sides |-> <<>>]
Joined(l, r) == [hash |-> HashNode(l.hash, r.hash), size |-> l.size + r.size,
                 sides |-> <<l, r>>]

(* Mutant of Appended: one carry at most. *)
AppendedOnce(range, m) ==
    IF range # <<>> /\ Last(range).size = m.size
    THEN Append(Front(range), Joined(Last(range), m))
    ELSE Append(range, m)

(* append(): peaks of the same height merge, carrying to the left. *)
Appended(range, m) ==
    LET carried[n \in 0..Len(range)] ==    \* m, merged with the last n peaks
            IF n = 0 THEN m ELSE Joined(range[Len(range) - n + 1], carried[n - 1])
        Rests(n) == n < Len(range) => range[Len(range) - n].size # carried[n].size
        merges == Min({n \in 0..Len(range) : Rests(n)})
    IN  Append(SubSeq(range, 1, Len(range) - merges), carried[merges])

(* bagPeaks() and its mutant that folds from the left. *)
BaggedLeft(range) ==
    IF range = <<>> THEN EmptyRoot
    ELSE FoldLeft(LAMBDA acc, m : HashNode(acc, m.hash), range[1].hash, Tail(range))
Bagged(range) ==
    LET bag[n \in 1..Len(range)] ==        \* of the last n peaks
            IF n = 1 THEN Last(range).hash
            ELSE HashNode(range[Len(range) - n + 1].hash, bag[n - 1])
    IN  IF range = <<>> THEN EmptyRoot ELSE bag[Len(range)]

(* proof(): down from the peak to the leaf, the siblings passed in reverse ... *)
Down(way) ==
    LET l == way.node.sides[1]  r == way.node.sides[2]
    IN  IF way.node.size = 1 THEN way
        ELSE IF way.index <= l.size
        THEN [node |-> l, index |-> way.index, steps |-> <<Step(r.hash, "right")>> \o way.steps]
        ELSE [node |-> r, index |-> way.index - l.size,
              steps |-> <<Step(l.hash, "left")>> \o way.steps]
Climb(m, i) ==
    LET way[d \in Nat] == IF d = 0 THEN [node |-> m, index |-> i, steps |-> <<>>]
                          ELSE Down(way[d - 1])
    IN  way[m.size].steps

(* The leaves under the first p peaks; the peak that leaf i is under. *)
SizeUpTo(range, p) ==
    LET sum[q \in 0..p] == IF q = 0 THEN 0 ELSE sum[q - 1] + range[q].size
    IN  sum[p]
PeakOf(range, i) == Min({p \in DOMAIN range : i <= SizeUpTo(range, p)})

(* ... past the peaks on its right, bagged, then those on its left; and    *)
(* the mutant that takes the peaks on the left in the order of the range.  *)
PastThePeaksInOrder(range, p) ==
    (IF p = Len(range) THEN <<>> ELSE <<Step(Bagged(SubSeq(range, p + 1, Len(range))), "right")>>)
        \o [q \in 1..(p - 1) |-> Step(range[q].hash, "left")]
PastThePeaks(range, p) ==
    (IF p = Len(range) THEN <<>> ELSE <<Step(Bagged(SubSeq(range, p + 1, Len(range))), "right")>>)
        \o [q \in 1..(p - 1) |-> Step(range[p - q].hash, "left")]
Proof(range, i) ==
    LET p == PeakOf(range, i)
    IN  Climb(range[p], i - SizeUpTo(range, p - 1)) \o PastThePeaks(range, p)

(* receiptFor() *)
ReceiptFor(i) == [claim |-> claims[i], leafIndex |-> i - 1, size |-> Len(claims),
                  proof |-> Proof(peaks, i), root |-> Bagged(peaks)]

-----------------------------------------------------------------------------
SessionInit == claims = <<>> /\ peaks = <<>> /\ receipt = NoReceipt

(* addClaim() *)
AddClaim ==
    \E c \in Claims :
        /\ Len(claims) < MaxClaims
        /\ claims' = Append(claims, c)
        /\ peaks' = Appended(peaks, Summit(c))
        /\ UNCHANGED receipt

(* A receipt is issued, and given to a reader. *)
IssueReceipt ==
    \E i \in DOMAIN claims :
        /\ receipt' = ReceiptFor(i)
        /\ UNCHANGED <<claims, peaks>>

SessionNext == AddClaim \/ IssueReceipt
SessionSpec == SessionInit /\ [][SessionNext]_sessionVars

-----------------------------------------------------------------------------
(* The peaks are the binary digits of the number of claims: sizes are      *)
(* strictly descending powers of two that add up to it.                    *)
SessionTypeOK ==
    /\ claims \in Seq(Claims)
    /\ SizeUpTo(peaks, Len(peaks)) = Len(claims)
    /\ \A p \in DOMAIN peaks : peaks[p].size \in {2^e : e \in 0..Len(claims)}
    /\ \A p, q \in DOMAIN peaks : p < q => peaks[p].size > peaks[q].size

(* The root of a session, kept incrementally and bagged from the right, is *)
(* the RFC 6962 head of its claims for every number of them (the comment   *)
(* on bagPeaks() promises it for the powers of two), and the audit paths   *)
(* of the two implementations are the same.                                *)
RootIsTreeHead ==
    /\ Bagged(peaks) = MerkleRoot(claims)
    /\ \A i \in DOMAIN claims : Proof(peaks, i) = InclusionProof(claims, i)

(* A receipt stands on its own however the session grew after it: it       *)
(* proves its claim, and no other, under the head of the claims there were *)
(* when it was issued.                                                     *)
ReceiptsStandAlone ==
    receipt # NoReceipt =>
        /\ receipt.root = MerkleRoot(SubSeq(claims, 1, receipt.size))
        /\ receipt.claim = claims[receipt.leafIndex + 1]
        /\ \A c \in Claims :
            VerifyProof(c, receipt.proof, receipt.root) <=> c = receipt.claim

(* The range is the tree of the claims, and its receipts outlive it.       *)
SessionInv == SessionTypeOK /\ RootIsTreeHead /\ ReceiptsStandAlone
=============================================================================
