------------------------------ MODULE Thought_proofs ------------------------------
(***************************************************************************)
(* Proofs about the components that think, for every value of their        *)
(* constants: the planner returns the most visited plan; the mycelial      *)
(* network ends its chains for a reason and links them across; a run of    *)
(* the reasoning engine keeps its errors, its perspectives and its best    *)
(* chain; and the last two side by side in one system.                     *)
(***************************************************************************)
EXTENDS Engines_proofs

-----------------------------------------------------------------------------
(* The planner. *)

(* Prefixes: a prefix of a prefix is one of the whole, the longest is the  *)
(* whole, and each is the one before with one element more.                *)
LEMMA PrefixIs ==
    ASSUME NEW S, NEW s \in Seq(S), NEW i \in 0..Len(s)
    PROVE  /\ SubSeq(s, 1, i) \in Seq(S) /\ Len(SubSeq(s, 1, i)) = i
           /\ \A k \in 1..i : SubSeq(s, 1, i)[k] = s[k]
<1>1. i \in Nat /\ i <= Len(s) /\ Len(s) \in Nat
    OBVIOUS
<1>2. \A k \in 1..i : s[k] \in S
    BY <1>1
<1>3. /\ SubSeq(s, 1, i) \in Seq(S)
      /\ Len(SubSeq(s, 1, i)) = (IF 1 <= i THEN i - 1 + 1 ELSE 0)
      /\ \A k \in 1..(i - 1 + 1) : SubSeq(s, 1, i)[k] = s[1 + k - 1]
    BY <1>1, <1>2, SubSeqProperties
<1> QED
    BY <1>1, <1>3

LEMMA PrefixesAre ==
    ASSUME NEW S, NEW s \in Seq(S)
    PROVE  /\ SubSeq(s, 1, Len(s)) = s
           /\ SubSeq(s, 1, 0) = <<>>
           /\ \A i \in 0..Len(s) : \A j \in 0..i : SubSeq(SubSeq(s, 1, i), 1, j) = SubSeq(s, 1, j)
           /\ \A i \in 1..Len(s) : SubSeq(s, 1, i) = Append(SubSeq(s, 1, i - 1), s[i])
           /\ \A x \in S : /\ SubSeq(Append(s, x), 1, Len(s) + 1) = Append(s, x)
                           /\ \A i \in 0..Len(s) : SubSeq(Append(s, x), 1, i) = SubSeq(s, 1, i)
<1>1. Len(s) \in Nat /\ 0 \in 0..Len(s) /\ Len(s) \in 0..Len(s)
    OBVIOUS
<1>2. ASSUME NEW t \in Seq(S), NEW i \in 0..Len(s), Len(t) = i, \A k \in 1..i : t[k] = s[k]
      PROVE  t = SubSeq(s, 1, i)
    BY <1>2, PrefixIs, SeqEqual
<1>3. SubSeq(s, 1, Len(s)) = s
    BY <1>1, <1>2
<1>4. SubSeq(s, 1, 0) = <<>>
    BY <1>1, <1>2
<1>5. ASSUME NEW i \in 0..Len(s), NEW j \in 0..i
      PROVE  SubSeq(SubSeq(s, 1, i), 1, j) = SubSeq(s, 1, j)
  <2>1. j \in 0..Len(s) /\ \A k \in 1..j : k \in 1..i
      OBVIOUS
  <2>2. SubSeq(s, 1, i) \in Seq(S) /\ Len(SubSeq(s, 1, i)) = i
        /\ \A k \in 1..i : SubSeq(s, 1, i)[k] = s[k]
      BY PrefixIs
  <2> DEFINE t == SubSeq(s, 1, i)
  <2>3. t \in Seq(S) /\ j \in 0..Len(t) /\ \A k \in 1..j : t[k] = s[k]
      BY <2>1, <2>2
  <2> HIDE DEF t
  <2>4. SubSeq(t, 1, j) \in Seq(S) /\ Len(SubSeq(t, 1, j)) = j
        /\ \A k \in 1..j : SubSeq(t, 1, j)[k] = s[k]
      BY <2>3, PrefixIs
  <2>5. SubSeq(t, 1, j) = SubSeq(s, 1, j)
      BY <1>2, <2>1, <2>4
  <2> QED
      BY <2>5 DEF t
<1>6. ASSUME NEW i \in 1..Len(s)
      PROVE  SubSeq(s, 1, i) = Append(SubSeq(s, 1, i - 1), s[i])
  <2>1. i - 1 \in 0..Len(s) /\ s[i] \in S /\ i \in 0..Len(s)
      OBVIOUS
  <2> DEFINE t == SubSeq(s, 1, i - 1)
  <2>2. t \in Seq(S) /\ Len(t) = i - 1 /\ \A k \in 1..(i - 1) : t[k] = s[k]
      BY <2>1, PrefixIs
  <2> HIDE DEF t
  <2>3. Append(t, s[i]) \in Seq(S) /\ Len(Append(t, s[i])) = i
        /\ \A k \in 1..i : Append(t, s[i])[k] = s[k]
    <3>1. /\ Append(t, s[i]) \in Seq(S) /\ Len(Append(t, s[i])) = (i - 1) + 1
          /\ \A k \in 1..(i - 1) : Append(t, s[i])[k] = t[k]
          /\ Append(t, s[i])[(i - 1) + 1] = s[i]
        BY <2>1, <2>2, AppendProperties
    <3>2. \A k \in 1..i : k \in 1..(i - 1) \/ k = (i - 1) + 1
        OBVIOUS
    <3> QED
        BY <2>2, <3>1, <3>2
  <2>4. Append(t, s[i]) = SubSeq(s, 1, i)
      BY <1>2, <2>1, <2>3
  <2> QED
      BY <2>4 DEF t
<1>7. ASSUME NEW x \in S
      PROVE  /\ SubSeq(Append(s, x), 1, Len(s) + 1) = Append(s, x)
             /\ \A i \in 0..Len(s) : SubSeq(Append(s, x), 1, i) = SubSeq(s, 1, i)
  <2> DEFINE t == Append(s, x)
  <2>1. t \in Seq(S) /\ Len(t) = Len(s) + 1 /\ \A k \in 1..Len(s) : t[k] = s[k]
      BY AppendProperties
  <2> HIDE DEF t
  <2>2. SubSeq(t, 1, Len(s) + 1) = t
    <3>1. Len(s) + 1 \in 0..Len(t)
        BY <1>1, <2>1
    <3>2. /\ SubSeq(t, 1, Len(s) + 1) \in Seq(S) /\ Len(SubSeq(t, 1, Len(s) + 1)) = Len(s) + 1
          /\ \A k \in 1..(Len(s) + 1) : SubSeq(t, 1, Len(s) + 1)[k] = t[k]
        BY <2>1, <3>1, PrefixIs
    <3> QED
        BY <2>1, <3>2, SeqEqual
  <2>3. ASSUME NEW i \in 0..Len(s)
        PROVE  SubSeq(t, 1, i) = SubSeq(s, 1, i)
    <3>1. i \in 0..Len(t) /\ \A k \in 1..i : k \in 1..Len(s)
        BY <1>1, <2>1
    <3>2. SubSeq(t, 1, i) \in Seq(S) /\ Len(SubSeq(t, 1, i)) = i
          /\ \A k \in 1..i : SubSeq(t, 1, i)[k] = s[k]
        BY <2>1, <3>1, PrefixIs
    <3> QED
        BY <1>2, <3>2
  <2> QED
      BY <2>2, <2>3 DEF t
<1> QED
    BY <1>3, <1>4, <1>5, <1>6, <1>7

LEMMA AppendTellsApart ==
    ASSUME NEW S, NEW s \in Seq(S), NEW t \in Seq(S), NEW x \in S, NEW y \in S,
           Append(s, x) = Append(t, y)
    PROVE  s = t /\ x = y
<1>1. /\ Len(Append(s, x)) = Len(s) + 1 /\ Append(s, x)[Len(s) + 1] = x
      /\ Len(Append(t, y)) = Len(t) + 1 /\ Append(t, y)[Len(t) + 1] = y
      /\ \A k \in 1..Len(s) : Append(s, x)[k] = s[k]
      /\ \A k \in 1..Len(t) : Append(t, y)[k] = t[k]
      /\ Len(s) \in Nat /\ Len(t) \in Nat
    BY AppendProperties
<1>2. Len(s) = Len(t)
    BY <1>1
<1>3. x = y
    BY <1>1, <1>2
<1>4. s = t
    BY <1>1, <1>2, SeqEqual
<1> QED
    BY <1>3, <1>4

(* Sums: what Below adds up, and what becomes of a sum when one of its     *)
(* terms grows by one.                                                     *)
IsSummed(below, terms, last) ==
    /\ below \in [0..last -> Nat] /\ below[0] = 0
    /\ \A k \in 1..last : below[k] = below[k - 1] + terms[k]

OneGrows(terms, others, last, grown) ==
    \A k \in 1..last : terms[k] \in Nat /\ others[k] = terms[k] + (IF k = grown THEN 1 ELSE 0)

LEMMA SumsCompare ==
    ASSUME NEW last \in Nat, NEW terms, NEW others, NEW sums, NEW totals,
           IsSummed(sums, terms, last), IsSummed(totals, others, last),
           NEW grown \in 0..last, OneGrows(terms, others, last, grown)
    PROVE  totals[last] = sums[last] + (IF grown = 0 THEN 0 ELSE 1)
<1> DEFINE good == {k \in 0..last :
                      totals[k] = sums[k] + (IF grown # 0 /\ grown <= k THEN 1 ELSE 0)}
<1>1. 0 \in good
    BY DEF IsSummed
<1>2. ASSUME NEW k \in 1..last, k - 1 \in good
      PROVE  k \in good
  <2>1. k - 1 \in 0..last /\ k \in 0..last
      OBVIOUS
  <2>2. /\ sums[k] = sums[k - 1] + terms[k] /\ totals[k] = totals[k - 1] + others[k]
        /\ sums[k - 1] \in Nat /\ totals[k - 1] \in Nat
      BY <2>1 DEF IsSummed
  <2>3. terms[k] \in Nat /\ others[k] = terms[k] + (IF k = grown THEN 1 ELSE 0)
      BY DEF OneGrows
  <2>4. totals[k - 1] = sums[k - 1] + (IF grown # 0 /\ grown <= k - 1 THEN 1 ELSE 0)
      BY <1>2
  <2>5. totals[k] = sums[k] + (IF grown # 0 /\ grown <= k THEN 1 ELSE 0)
      BY <2>2, <2>3, <2>4
  <2> QED
      BY <2>1, <2>5
<1> HIDE DEF good
<1>3. last \in good
    BY <1>1, <1>2, CountingUp
<1>4. last \in 0..last /\ sums[last] \in Nat
    BY DEF IsSummed
<1> QED
    BY <1>3, <1>4 DEF good

LEMMA SumOfNothing ==
    ASSUME NEW last \in Nat, NEW terms, NEW sums, IsSummed(sums, terms, last),
           \A k \in 1..last : terms[k] = 0
    PROVE  sums[last] = 0
<1> DEFINE good == {k \in 0..last : sums[k] = 0}
<1>1. 0 \in good
    BY DEF IsSummed
<1>2. ASSUME NEW k \in 1..last, k - 1 \in good
      PROVE  k \in good
  <2>1. k \in 0..last /\ sums[k - 1] = 0 /\ terms[k] = 0
      BY <1>2
  <2>2. sums[k] = sums[k - 1] + terms[k]
      BY DEF IsSummed
  <2> QED
      BY <2>1, <2>2
<1> HIDE DEF good
<1>3. last \in good
    BY <1>1, <1>2, CountingUp
<1> QED
    BY <1>3 DEF good

IsCount(f) == f \in [DOMAIN f -> Nat]
Term(f, node, k) == IF ChildBy(node, k) \in DOMAIN f THEN f[ChildBy(node, k)] ELSE 0

LEMMA ActionsAre ==
    /\ DOMAIN Actions = 1..Len(Actions) /\ Len(Actions) \in Nat /\ Len(Actions) > 0
    /\ \A k \in 1..Len(Actions) : Actions[k] \in ToSet(Actions)
    /\ \A k, l \in 1..Len(Actions) : Actions[k] = Actions[l] => k = l
    /\ \A a \in ToSet(Actions) : \E k \in 1..Len(Actions) : Actions[k] = a
<1>1. DOMAIN Actions = 1..Len(Actions) /\ Len(Actions) \in Nat /\ Len(Actions) > 0
    BY PlannerAssumption
<1> QED
    BY <1>1, PlannerAssumption DEF IsInjective, ToSet

LEMMA BelowIsASum ==
    ASSUME NEW f, IsCount(f), NEW node
    PROVE  \E sums : /\ IsSummed(sums, [k \in 1..Len(Actions) |-> Term(f, node, k)], Len(Actions))
                     /\ Below(f, node) = sums[Len(Actions)]
<1> DEFINE last == Len(Actions)
           terms == [k \in 1..last |-> Term(f, node, k)]
           Follows(below) == below = [k \in 0..Len(Actions) |->
               IF k = 0 THEN 0
               ELSE below[k - 1] + (IF ChildBy(node, k) \in DOMAIN f THEN f[ChildBy(node, k)] ELSE 0)]
           sums == CHOOSE below : Follows(below)
           move == [k \in 1..last |-> [v \in Nat |-> v + terms[k]]]
<1>1. last \in Nat
    BY ActionsAre
<1>2. Below(f, node) = sums[last]
    BY DEF Below
<1>3. \A k \in 1..last : terms[k] \in Nat /\ terms[k] = Term(f, node, k)
    BY DEF Term, IsCount
<1> HIDE DEF last, terms
<1>4. \A k \in 1..last : \A v \in Nat : move[k][v] = v + terms[k]
    OBVIOUS
<1>5. StepsStay(Nat, last, move)
    BY <1>3, <1>4 DEF StepsStay
<1> HIDE DEF move
<1>6. PICK on : IsTheWay(on, Nat, 0, last, move)
    BY <1>1, <1>5, StepsAreAFunction
<1>7. /\ on \in [0..last -> Nat] /\ on[0] = 0
      /\ \A k \in 1..last : on[k] = on[k - 1] + terms[k]
  <2>1. /\ on \in [0..last -> Nat] /\ on[0] = 0
        /\ \A k \in 1..last : on[k] = move[k][on[k - 1]]
      BY <1>6 DEF IsTheWay
  <2>2. \A k \in 1..last : k - 1 \in 0..last
      BY <1>1
  <2> QED
      BY <1>4, <2>1, <2>2
<1>8. Follows(on)
  <2>1. \A k \in 0..last : on[k] = (IF k = 0 THEN 0 ELSE on[k - 1] +
              (IF ChildBy(node, k) \in DOMAIN f THEN f[ChildBy(node, k)] ELSE 0))
    <3> SUFFICES ASSUME NEW k \in 0..last
                 PROVE  on[k] = (IF k = 0 THEN 0 ELSE on[k - 1] +
                            (IF ChildBy(node, k) \in DOMAIN f THEN f[ChildBy(node, k)] ELSE 0))
        OBVIOUS
    <3>1. CASE k = 0
        BY <1>7, <3>1
    <3>2. CASE k # 0
      <4>1. k \in 1..last
          BY <1>1, <3>2
      <4>2. on[k] = on[k - 1] + Term(f, node, k)
          BY <1>3, <1>7, <4>1
      <4> QED
          BY <3>2, <4>2 DEF Term
    <3> QED
        BY <3>1, <3>2
  <2>2. on = [k \in 0..last |-> on[k]]
      BY <1>7
  <2> QED
      BY <2>1, <2>2 DEF last
<1>9. Follows(sums)
    BY <1>8
<1> HIDE DEF sums
<1>10. \A k \in 0..last : sums[k] = (IF k = 0 THEN 0 ELSE sums[k - 1] + Term(f, node, k))
    BY <1>9 DEF last, Term
<1>11. DOMAIN sums = 0..last /\ sums = [k \in 0..last |-> sums[k]]
    BY <1>9 DEF last
<1> DEFINE good == {k \in 0..last : sums[k] = on[k]}
<1>12. 0 \in good
    BY <1>1, <1>7, <1>10
<1>13. ASSUME NEW k \in 1..last, k - 1 \in good
       PROVE  k \in good
  <2>1. k \in 0..last /\ k # 0 /\ sums[k - 1] = on[k - 1]
      BY <1>1, <1>13
  <2>2. sums[k] = sums[k - 1] + Term(f, node, k)
      BY <1>10, <2>1
  <2>3. on[k] = on[k - 1] + Term(f, node, k)
      BY <1>3, <1>7
  <2> QED
      BY <2>1, <2>2, <2>3
<1>14. \A k \in 0..last : k \in good
  <2> HIDE DEF good
  <2> QED
      BY <1>1, <1>12, <1>13, CountingUp
<1>15. IsSummed(sums, terms, last)
  <2>1. \A k \in 0..last : sums[k] \in Nat
      BY <1>7, <1>14
  <2>2. \A k \in 1..last : k \in 0..last /\ k # 0
      BY <1>1
  <2>3. \A k \in 1..last : sums[k] = sums[k - 1] + terms[k]
      BY <1>3, <1>10, <2>2
  <2>4. sums[0] = 0
      BY <1>1, <1>10
  <2>5. sums \in [0..last -> Nat]
      BY <1>11, <2>1
  <2> QED
      BY <2>3, <2>4, <2>5 DEF IsSummed
<1> QED
    BY <1>2, <1>15 DEF last, terms

Bump(grown) == IF grown = 0 THEN 0 ELSE 1
TermGrows(f, g, node, grown) ==
    \A k \in 1..Len(Actions) :
        Term(g, node, k) = Term(f, node, k) + (IF k = grown THEN 1 ELSE 0)

LEMMA SumStaysOrGrows ==
    ASSUME NEW f, NEW g, IsCount(f), IsCount(g), NEW node,
           NEW grown \in 0..Len(Actions), TermGrows(f, g, node, grown)
    PROVE  Below(g, node) = Below(f, node) + Bump(grown)
<1> DEFINE last == Len(Actions)
           terms == [k \in 1..last |-> Term(f, node, k)]
           others == [k \in 1..last |-> Term(g, node, k)]
<1>1. last \in Nat /\ grown \in 0..last
    BY ActionsAre
<1>2. PICK sums : IsSummed(sums, terms, last) /\ Below(f, node) = sums[last]
    BY BelowIsASum
<1>3. PICK totals : IsSummed(totals, others, last) /\ Below(g, node) = totals[last]
    BY BelowIsASum
<1>4. \A k \in 1..last : terms[k] = Term(f, node, k) /\ others[k] = Term(g, node, k)
    OBVIOUS
<1>5. \A k \in 1..last : Term(f, node, k) \in Nat
    BY DEF Term, IsCount
<1> HIDE DEF terms, others
<1>6. OneGrows(terms, others, last, grown)
    BY <1>4, <1>5 DEF OneGrows, TermGrows
<1> HIDE DEF last
<1>7. totals[last] = sums[last] + (IF grown = 0 THEN 0 ELSE 1)
    BY <1>1, <1>2, <1>3, <1>6, SumsCompare
<1> QED
    BY <1>2, <1>3, <1>7 DEF Bump

LEMMA NothingBelow ==
    ASSUME NEW f, IsCount(f), NEW node,
           \A k \in 1..Len(Actions) : ChildBy(node, k) \notin DOMAIN f
    PROVE  Below(f, node) = 0
<1> DEFINE last == Len(Actions)
           terms == [k \in 1..last |-> Term(f, node, k)]
<1>1. last \in Nat
    BY ActionsAre
<1>2. PICK sums : IsSummed(sums, terms, last) /\ Below(f, node) = sums[last]
    BY BelowIsASum
<1>3. \A k \in 1..last : terms[k] = 0
    BY DEF Term
<1> HIDE DEF terms, last
<1> QED
    BY <1>1, <1>2, <1>3, SumOfNothing

Nodes == Seq(ToSet(Actions))

(* The tree holds the prefixes of its nodes.                               *)
TreeGrown ==
    /\ visits \in [Tree -> Nat] /\ pulls \in [Tree -> Nat] /\ Tree \subseteq Nodes
    /\ Root \in Tree
    /\ \A n \in Tree : Len(n) <= MaxDepth /\ \A i \in 0..Len(n) : SubSeq(n, 1, i) \in Tree

PlannerIInv ==
    /\ TreeGrown /\ VisitsAddUp /\ BreadthFirst /\ PlanIsMostVisited
    /\ visits[Root] <= MctsBudget
    /\ plan # <<"none">> => visits[Root] = MctsBudget

(* What selection and expansion end at: a node at the bottom of the tree,  *)
(* or a new child of a node whose ancestors have every action tried.       *)
LEMMA ExpandedIs ==
    ASSUME TreeGrown, NEW leaf \in Selectable
    PROVE  LET new == Expanded(leaf)
           IN  /\ new \in Nodes /\ Len(new) \in 1..MaxDepth
               /\ \A i \in 0..(Len(new) - 1) : SubSeq(new, 1, i) \in Tree
               /\ \A i \in 0..(Len(new) - 2) : Untried(SubSeq(new, 1, i)) = {}
               /\ new \in Tree => Len(new) = MaxDepth
<1> DEFINE new == Expanded(leaf)
<1>1. /\ leaf \in Tree /\ ~PassedBy(leaf) /\ leaf \in Nodes /\ Len(leaf) \in Nat
      /\ Len(leaf) <= MaxDepth
      /\ \A i \in 0..(Len(leaf) - 1) : PassedBy(SubSeq(leaf, 1, i))
      /\ \A i \in 0..Len(leaf) : SubSeq(leaf, 1, i) \in Tree
      /\ MaxDepth \in Nat \ {0}
    BY PlannerAssumption DEF Selectable, TreeGrown, Nodes
<1>2. CASE Len(leaf) = MaxDepth
  <2>1. new = leaf
      BY <1>1, <1>2 DEF Expanded
  <2> HIDE DEF new
  <2> QED
      BY <1>1, <1>2, <2>1 DEF PassedBy, new
<1>3. CASE Len(leaf) < MaxDepth
  <2>1. Untried(leaf) # {}
      BY <1>1, <1>3 DEF PassedBy
  <2>2. new = ChildBy(leaf, Min(Untried(leaf)))
      BY <1>1, <1>3, <2>1 DEF Expanded
  <2>3. Min(Untried(leaf)) \in Untried(leaf)
    <3>1. Untried(leaf) \in SUBSET Nat
        BY ActionsAre DEF Untried
    <3>2. \E k \in Untried(leaf) : \A l \in Untried(leaf) : k <= l
        BY <2>1, <3>1, LeastIndex
    <3> QED
        BY <3>2 DEF Min
  <2>4. PICK k \in 1..Len(Actions) : k = Min(Untried(leaf)) /\ ChildBy(leaf, k) \notin Tree
      BY <2>3, ActionsAre DEF Untried
  <2>5. Actions[k] \in ToSet(Actions) /\ new = Append(leaf, Actions[k]) /\ new \notin Tree
      BY <2>2, <2>4, ActionsAre DEF ChildBy
  <2> HIDE DEF new
  <2>6. new \in Nodes /\ Len(new) = Len(leaf) + 1
      BY <1>1, <2>5, AppendProperties DEF Nodes
  <2>7. \A i \in 0..Len(leaf) : SubSeq(new, 1, i) = SubSeq(leaf, 1, i)
      BY <1>1, <2>5, PrefixesAre DEF Nodes
  <2>8. \A i \in 0..(Len(new) - 1) : SubSeq(new, 1, i) \in Tree
    <3>1. Len(new) - 1 = Len(leaf)
        BY <1>1, <2>6
    <3> QED
        BY <1>1, <2>7, <3>1
  <2>9. \A i \in 0..(Len(new) - 2) : Untried(SubSeq(new, 1, i)) = {}
    <3> SUFFICES ASSUME NEW i \in 0..(Len(new) - 2)
                 PROVE  Untried(SubSeq(new, 1, i)) = {}
        OBVIOUS
    <3>1. i \in 0..Len(leaf) /\ i \in 0..(Len(leaf) - 1)
        BY <1>1, <2>6
    <3> QED
        BY <1>1, <2>7, <3>1 DEF PassedBy
  <2>10. Len(new) \in 1..MaxDepth
      BY <1>1, <1>3, <2>6
  <2> QED
      BY <2>5, <2>6, <2>8, <2>9, <2>10 DEF new
<1> QED
    BY <1>1, <1>2, <1>3

(* Of a node above the new one, exactly one child is on the path; of any   *)
(* other, and of the new one itself, none.                                 *)
LEMMA OneChildOnPath ==
    ASSUME NEW new \in Nodes, NEW n \in Nodes
    PROVE  /\ n \in OnPath(new) <=> Len(n) <= Len(new) /\ n = SubSeq(new, 1, Len(n))
           /\ n \in OnPath(new) /\ Len(n) < Len(new) =>
                 \E k \in 1..Len(Actions) :
                     \A l \in 1..Len(Actions) : ChildBy(n, l) \in OnPath(new) <=> l = k
           /\ ~(n \in OnPath(new) /\ Len(n) < Len(new)) =>
                 \A l \in 1..Len(Actions) : ChildBy(n, l) \notin OnPath(new)
<1>1. /\ Len(new) \in Nat /\ Len(n) \in Nat
      /\ \A i \in 0..Len(new) : SubSeq(new, 1, i) \in Nodes /\ Len(SubSeq(new, 1, i)) = i
    BY PrefixIs DEF Nodes
<1>2. ASSUME NEW m \in Nodes
      PROVE  m \in OnPath(new) <=> Len(m) <= Len(new) /\ m = SubSeq(new, 1, Len(m))
    BY <1>1 DEF OnPath, Nodes
<1>3. ASSUME NEW l \in 1..Len(Actions)
      PROVE  /\ ChildBy(n, l) \in Nodes /\ Len(ChildBy(n, l)) = Len(n) + 1
             /\ ChildBy(n, l) = Append(n, Actions[l]) /\ Actions[l] \in ToSet(Actions)
    BY ActionsAre, AppendProperties DEF ChildBy, Nodes
<1>4. ASSUME NEW l \in 1..Len(Actions), ChildBy(n, l) \in OnPath(new)
      PROVE  /\ Len(n) < Len(new) /\ n = SubSeq(new, 1, Len(n))
             /\ Actions[l] = new[Len(n) + 1]
  <2>1. Len(n) + 1 <= Len(new) /\ ChildBy(n, l) = SubSeq(new, 1, Len(n) + 1)
      BY <1>2, <1>3, <1>4
  <2>2. Len(n) + 1 \in 1..Len(new) /\ (Len(n) + 1) - 1 = Len(n) /\ Len(n) \in 0..Len(new)
      BY <1>1, <2>1
  <2>3. SubSeq(new, 1, Len(n) + 1) = Append(SubSeq(new, 1, Len(n)), new[Len(n) + 1])
    <3> DEFINE i == Len(n) + 1
    <3>1. i \in 1..Len(new) /\ i - 1 = Len(n)
        BY <2>2
    <3> HIDE DEF i
    <3>2. SubSeq(new, 1, i) = Append(SubSeq(new, 1, i - 1), new[i])
        BY <3>1, PrefixesAre DEF Nodes
    <3> QED
        BY <3>1, <3>2 DEF i
  <2>4. new[Len(n) + 1] \in ToSet(Actions)
      BY <2>2 DEF Nodes
  <2>5. n = SubSeq(new, 1, Len(n)) /\ Actions[l] = new[Len(n) + 1]
    <3> DEFINE t == SubSeq(new, 1, Len(n))
               x == new[Len(n) + 1]
    <3>1. t \in Nodes /\ x \in ToSet(Actions) /\ Append(n, Actions[l]) = Append(t, x)
        BY <1>1, <1>3, <2>1, <2>2, <2>3, <2>4
    <3> HIDE DEF t, x
    <3>2. n = t /\ Actions[l] = x
        BY <1>3, <3>1, AppendTellsApart DEF Nodes
    <3> QED
        BY <3>2 DEF t, x
  <2> QED
      BY <1>1, <2>1, <2>5
<1>5. ASSUME n \in OnPath(new), Len(n) < Len(new)
      PROVE  \E k \in 1..Len(Actions) :
                 \A l \in 1..Len(Actions) : ChildBy(n, l) \in OnPath(new) <=> l = k
  <2> DEFINE i == Len(n) + 1
  <2>1. i \in 1..Len(new) /\ i - 1 = Len(n) /\ i \in 0..Len(new)
      BY <1>1, <1>5
  <2>2. new[i] \in ToSet(Actions)
      BY <2>1 DEF Nodes
  <2>3. PICK k \in 1..Len(Actions) : Actions[k] = new[i]
      BY <2>2, ActionsAre
  <2>4. ChildBy(n, k) \in OnPath(new)
    <3>1. SubSeq(new, 1, i) = Append(SubSeq(new, 1, i - 1), new[i])
      <4> HIDE DEF i
      <4> QED
          BY <2>1, PrefixesAre DEF Nodes
    <3>2. n = SubSeq(new, 1, i - 1)
        BY <1>2, <1>5, <2>1
    <3>3. ChildBy(n, k) = SubSeq(new, 1, i)
        BY <2>3, <3>1, <3>2 DEF ChildBy
    <3> QED
        BY <2>1, <3>3 DEF OnPath
  <2>5. \A l \in 1..Len(Actions) : ChildBy(n, l) \in OnPath(new) => l = k
      BY <1>4, <2>3, ActionsAre
  <2> QED
      BY <2>4, <2>5
<1> QED
    BY <1>2, <1>4, <1>5

(* An iteration counts a visit for every node on the path, the new one     *)
(* included, and a pull for all but the root.                              *)
LEMMA IterateKeeps ==
    ASSUME PlannerIInv, Iterate
    PROVE  PlannerIInv'
<1>1. PICK leaf \in Selectable :
          LET new == Expanded(leaf)
              counted(f, path) == [n \in Tree \cup {new} |->
                  (IF n \in Tree THEN f[n] ELSE 0) + (IF n \in path THEN 1 ELSE 0)]
          IN  /\ visits[Root] < MctsBudget
              /\ visits' = counted(visits, OnPath(new))
              /\ pulls' = counted(pulls, OnPath(new) \ {Root})
              /\ plan' = plan
    BY DEF Iterate
<1> DEFINE new == Expanded(leaf)
           Grown == Tree \cup {new}
<1>2. /\ new \in Nodes /\ Len(new) \in 1..MaxDepth
      /\ \A i \in 0..(Len(new) - 1) : SubSeq(new, 1, i) \in Tree
      /\ \A i \in 0..(Len(new) - 2) : Untried(SubSeq(new, 1, i)) = {}
      /\ new \in Tree => Len(new) = MaxDepth
    BY ExpandedIs DEF PlannerIInv
<1>3. /\ visits[Root] < MctsBudget /\ plan' = plan
      /\ visits' = [n \in Grown |->
             (IF n \in Tree THEN visits[n] ELSE 0) + (IF n \in OnPath(new) THEN 1 ELSE 0)]
      /\ pulls' = [n \in Grown |->
             (IF n \in Tree THEN pulls[n] ELSE 0) + (IF n \in OnPath(new) \ {Root} THEN 1 ELSE 0)]
    BY <1>1
<1> HIDE DEF new
<1>4. /\ visits \in [Tree -> Nat] /\ pulls \in [Tree -> Nat] /\ Tree \subseteq Nodes
      /\ Root \in Tree /\ MaxDepth \in Nat \ {0} /\ MctsBudget \in Nat \ {0}
      /\ \A n \in Tree : Len(n) <= MaxDepth /\ \A i \in 0..Len(n) : SubSeq(n, 1, i) \in Tree
    BY PlannerAssumption DEF PlannerIInv, TreeGrown
<1>5. Tree' = Grown
    BY <1>3 DEF Tree
<1>6. Grown \subseteq Nodes /\ Tree \subseteq Grown /\ new \in Grown
    BY <1>2, <1>4
<1>7. /\ visits' \in [Grown -> Nat] /\ pulls' \in [Grown -> Nat]
    BY <1>3, <1>4
<1>8. ASSUME NEW n \in OnPath(new)
      PROVE  n \in Grown
  <2>1. PICK i \in 0..Len(new) : n = SubSeq(new, 1, i)
      BY DEF OnPath
  <2>2. CASE i = Len(new)
      BY <1>2, <1>6, <2>1, <2>2, PrefixesAre DEF Nodes
  <2>3. CASE i # Len(new)
    <3>1. i \in 0..(Len(new) - 1)
        BY <1>2, <2>3
    <3> QED
        BY <1>2, <1>6, <2>1, <3>1
  <2> QED
      BY <2>2, <2>3
<1>9. /\ Root \in Nodes /\ Len(Root) = 0 /\ Root \in OnPath(new) /\ new \in OnPath(new)
      /\ new # Root
  <2>1. Root \in Nodes /\ Len(Root) = 0
      BY DEF Root, Nodes
  <2>2. SubSeq(new, 1, 0) = Root /\ SubSeq(new, 1, Len(new)) = new
      BY <1>2, PrefixesAre DEF Nodes, Root
  <2>3. 0 \in 0..Len(new) /\ Len(new) \in 0..Len(new)
      BY <1>2
  <2>4. SubSeq(new, 1, 0) \in OnPath(new)
      BY <2>3 DEF OnPath
  <2>5. SubSeq(new, 1, Len(new)) \in OnPath(new)
      BY <2>3 DEF OnPath
  <2>6. new # Root
      BY <1>2, <2>1
  <2>7. Root \in OnPath(new) /\ new \in OnPath(new)
      BY <2>2, <2>4, <2>5
  <2> QED
      BY <2>1, <2>6, <2>7
<1>10. ASSUME NEW n \in Grown
       PROVE  /\ visits'[n] = (IF n \in Tree THEN visits[n] ELSE 0) + (IF n \in OnPath(new) THEN 1 ELSE 0)
              /\ pulls'[n] = (IF n \in Tree THEN pulls[n] ELSE 0)
                             + (IF n \in OnPath(new) \ {Root} THEN 1 ELSE 0)
    BY <1>3
<1> HIDE DEF Grown
(* Above the new node a sum grows by one, elsewhere it stays.              *)
<1>11. ASSUME NEW n \in Nodes
       PROVE  Below(visits', n) = Below(visits, n)
                  + (IF n \in OnPath(new) /\ Len(n) < Len(new) THEN 1 ELSE 0)
  <2>1. ASSUME NEW k \in 1..Len(Actions)
        PROVE  Term(visits', n, k)
                   = Term(visits, n, k) + (IF ChildBy(n, k) \in OnPath(new) THEN 1 ELSE 0)
    <3>1. DOMAIN visits' = Grown /\ DOMAIN visits = Tree
        BY <1>4, <1>7
    <3>2. CASE ChildBy(n, k) \in Grown
      <4>1. CASE ChildBy(n, k) \in Tree
          BY <1>4, <1>10, <3>1, <3>2, <4>1 DEF Term
      <4>2. CASE ChildBy(n, k) \notin Tree
          BY <1>10, <3>1, <3>2, <4>2 DEF Term
      <4> QED
          BY <4>1, <4>2
    <3>3. CASE ChildBy(n, k) \notin Grown
        BY <1>6, <1>8, <3>1, <3>3 DEF Term
    <3> QED
        BY <3>2, <3>3
  <2>2. CASE n \in OnPath(new) /\ Len(n) < Len(new)
    <3>1. PICK k \in 1..Len(Actions) :
              \A l \in 1..Len(Actions) : ChildBy(n, l) \in OnPath(new) <=> l = k
        BY <1>2, <2>2, OneChildOnPath
    <3>2. TermGrows(visits, visits', n, k)
        BY <2>1, <3>1 DEF TermGrows
    <3>3. k \in 0..Len(Actions) /\ k # 0
        BY ActionsAre
    <3>4. Below(visits', n) = Below(visits, n) + (IF k = 0 THEN 0 ELSE 1)
      <4>1. PICK f : f = visits /\ IsCount(f)
          BY <1>4 DEF IsCount, Tree
      <4>2. PICK g : g = visits' /\ IsCount(g)
          BY <1>7 DEF IsCount
      <4>3. TermGrows(f, g, n, k)
          BY <3>2, <3>3, <4>1, <4>2
      <4>4. Below(g, n) = Below(f, n) + Bump(k)
          BY <3>2, <3>3, <4>1, <4>2, <4>3, SumStaysOrGrows
      <4> QED
          BY <4>1, <4>2, <4>4 DEF Bump
    <3> QED
        BY <2>2, <3>3, <3>4
  <2>3. CASE ~(n \in OnPath(new) /\ Len(n) < Len(new))
    <3>1. \A l \in 1..Len(Actions) : ChildBy(n, l) \notin OnPath(new)
        BY <1>2, <2>3, OneChildOnPath
    <3>2. 0 \in 0..Len(Actions) /\ \A l \in 1..Len(Actions) : l # 0
        BY ActionsAre
    <3>3. TermGrows(visits, visits', n, 0)
        BY <2>1, <3>1, <3>2 DEF TermGrows
    <3>4. Below(visits', n) = Below(visits, n) + (IF 0 = 0 THEN 0 ELSE 1)
      <4>1. PICK f : f = visits /\ IsCount(f)
          BY <1>4 DEF IsCount, Tree
      <4>2. PICK g : g = visits' /\ IsCount(g)
          BY <1>7 DEF IsCount
      <4>3. TermGrows(f, g, n, 0)
          BY <3>2, <3>3, <4>1, <4>2
      <4>4. Below(g, n) = Below(f, n) + Bump(0)
          BY <3>2, <3>3, <4>1, <4>2, <4>3, SumStaysOrGrows
      <4> QED
          BY <4>1, <4>2, <4>4 DEF Bump
    <3> QED
        BY <2>3, <3>4
  <2> QED
      BY <2>2, <2>3
<1>12. TreeGrown'
  <2>1. \A n \in Grown : Len(n) <= MaxDepth
      BY <1>2, <1>4 DEF Grown
  <2>2. ASSUME NEW n \in Grown, NEW i \in 0..Len(n)
        PROVE  SubSeq(n, 1, i) \in Grown
    <3>1. CASE n \in Tree
        BY <1>4, <1>6, <3>1
    <3>2. CASE n = new
        BY <1>8, <3>2 DEF OnPath
    <3> QED
        BY <3>1, <3>2 DEF Grown
  <2> QED
      BY <1>4, <1>5, <1>6, <1>7, <2>1, <2>2 DEF TreeGrown
<1>13. VisitsAddUp'
  <2>1. /\ \A n \in Tree \ {Root} : pulls[n] = visits[n]
        /\ visits[Root] = Below(visits, Root)
        /\ \A n \in Tree \ {Root} : Len(n) < MaxDepth => visits[n] = 1 + Below(visits, n)
      BY DEF PlannerIInv, VisitsAddUp
  <2>2. ASSUME NEW n \in Grown \ {Root}
        PROVE  pulls'[n] = visits'[n]
      BY <1>10, <2>1
  <2>3. visits'[Root] = Below(visits', Root)
    <3>1. visits'[Root] = visits[Root] + 1
        BY <1>4, <1>6, <1>9, <1>10
    <3>2. Below(visits', Root) = Below(visits, Root) + 1
        BY <1>2, <1>9, <1>11
    <3> QED
        BY <2>1, <3>1, <3>2
  <2>4. ASSUME NEW n \in Grown \ {Root}, Len(n) < MaxDepth
        PROVE  visits'[n] = 1 + Below(visits', n)
    <3>1. CASE n \in Tree
      <4>1. n \in OnPath(new) => Len(n) < Len(new)
        <5> SUFFICES ASSUME n \in OnPath(new), ~(Len(n) < Len(new))
                     PROVE  FALSE
            OBVIOUS
        <5>1. Len(n) <= Len(new) /\ n = SubSeq(new, 1, Len(n)) /\ Len(n) \in Nat
            BY SMTT(30), <1>2, <1>4, <3>1, OneChildOnPath DEF Nodes
        <5>2. Len(n) = Len(new)
            BY <1>2, <5>1
        <5>3. n = new
            BY <1>2, <5>1, <5>2, PrefixesAre DEF Nodes
        <5> QED
            BY <1>2, <2>4, <3>1, <5>3
      <4>2. visits[n] = 1 + Below(visits, n) /\ visits[n] \in Nat
          BY <1>4, <2>1, <2>4, <3>1
      <4>3. Below(visits', n) = Below(visits, n) + (IF n \in OnPath(new) THEN 1 ELSE 0)
          BY <1>4, <1>11, <3>1, <4>1
      <4>4. visits'[n] = visits[n] + (IF n \in OnPath(new) THEN 1 ELSE 0)
          BY <1>10, <3>1
      <4>5. Below(visits, n) \in Int
        <5>1. PICK sums : /\ IsSummed(sums, [k \in 1..Len(Actions) |-> Term(visits, n, k)], Len(Actions))
                          /\ Below(visits, n) = sums[Len(Actions)]
            BY <1>4, BelowIsASum DEF IsCount, Tree
        <5> QED
            BY <5>1, ActionsAre DEF IsSummed
      <4> QED
          BY <4>2, <4>3, <4>4, <4>5
    <3>2. CASE n \notin Tree
      <4>1. n = new
          BY <3>2 DEF Grown
      <4>2. visits'[n] = 1
          BY <1>9, <1>10, <3>2, <4>1
      <4>3. ASSUME NEW k \in 1..Len(Actions)
            PROVE  ChildBy(n, k) \notin Grown
        <5>1. Actions[k] \in ToSet(Actions)
            BY ActionsAre
        <5>2. Len(ChildBy(n, k)) = Len(n) + 1 /\ Len(n) \in Nat /\ ChildBy(n, k) \in Nodes
            BY <1>2, <4>1, <5>1, AppendProperties DEF ChildBy, Nodes
        <5>3. SubSeq(ChildBy(n, k), 1, Len(n)) = n
          <6>1. SubSeq(Append(n, Actions[k]), 1, Len(n)) = SubSeq(n, 1, Len(n))
              BY <1>2, <4>1, <5>1, <5>2, PrefixesAre DEF Nodes
          <6>2. SubSeq(n, 1, Len(n)) = n
              BY <1>2, <4>1, PrefixesAre DEF Nodes
          <6> QED
              BY <6>1, <6>2 DEF ChildBy
        <5>4. ChildBy(n, k) \notin Tree
          <6>1. Len(n) \in 0..Len(ChildBy(n, k))
              BY <5>2
          <6> QED
              BY <1>4, <3>2, <5>3, <6>1
        <5>5. ChildBy(n, k) # n
            BY <5>2
        <5> QED
            BY <4>1, <5>4, <5>5 DEF Grown
      <4>4. Below(visits', n) = 0
          BY <1>7, <4>3, NothingBelow DEF IsCount
      <4> QED
          BY <4>2, <4>4
    <3> QED
        BY <3>1, <3>2
  <2> QED
      BY <1>5, <2>2, <2>3, <2>4 DEF VisitsAddUp
<1>14. BreadthFirst'
  <2>1. ASSUME NEW n \in Grown \ {Root}, NEW k \in 1..Len(Actions), ChildBy(n, k) \in Grown
        PROVE  Untried(SubSeq(n, 1, Len(n) - 1)) = {}
    <3>1. n \in Nodes /\ Len(n) \in Nat \ {0} /\ Len(n) - 1 \in 0..Len(n)
      <4>1. n \in Nodes
          BY <1>6
      <4>2. Len(n) # 0
          BY <4>1 DEF Nodes, Root
      <4> QED
          BY <4>1, <4>2 DEF Nodes
    <3>2. /\ Actions[k] \in ToSet(Actions) /\ ChildBy(n, k) \in Nodes
          /\ Len(ChildBy(n, k)) = Len(n) + 1
          /\ \A i \in 0..Len(n) : SubSeq(ChildBy(n, k), 1, i) = SubSeq(n, 1, i)
        BY <3>1, ActionsAre, AppendProperties, PrefixesAre DEF ChildBy, Nodes
    <3>3. SubSeq(n, 1, Len(n)) = n
        BY <3>1, PrefixesAre DEF Nodes
    <3>4. CASE ChildBy(n, k) \in Tree
      <4>1. n \in Tree
        <5>1. Len(n) \in 0..Len(ChildBy(n, k))
            BY <3>1, <3>2
        <5>2. SubSeq(ChildBy(n, k), 1, Len(n)) = n
            BY <3>1, <3>2, <3>3
        <5> QED
            BY <1>4, <3>4, <5>1, <5>2
      <4>2. Children(n) # {}
          BY <3>4, ActionsAre DEF Children
      <4> QED
          BY <2>1, <4>1, <4>2 DEF PlannerIInv, BreadthFirst, Front
    <3>5. CASE ChildBy(n, k) = new
      <4>1. SubSeq(new, 1, Len(n) - 1) = SubSeq(n, 1, Len(n) - 1)
          BY <3>1, <3>2, <3>5
      <4>2. Len(n) - 1 \in 0..(Len(new) - 2)
          BY <3>1, <3>2, <3>5
      <4> QED
          BY <1>2, <4>1, <4>2
    <3> QED
        BY <2>1, <3>4, <3>5 DEF Grown
  <2>2. ASSUME NEW n, Untried(n) = {}
        PROVE  Untried(n)' = {}
      BY <1>5, <1>6, <2>2 DEF Untried
  <2>3. ASSUME NEW n \in Grown \ {Root}, Children(n)' # {}
        PROVE  Untried(Front(n))' = {}
    <3>1. PICK k \in 1..Len(Actions) : ChildBy(n, k) \in Grown
        BY <1>5, <2>3, ActionsAre DEF Children
    <3>2. Untried(Front(n)) = {}
        BY <2>1, <3>1 DEF Front
    <3> QED
        BY <2>2, <3>2 DEF Front
  <2> QED
      BY <1>5, <2>3 DEF BreadthFirst
<1>15. plan' = <<"none">> /\ PlanIsMostVisited'
    BY <1>3, <1>4 DEF PlannerIInv, PlanIsMostVisited
<1>16. visits'[Root] <= MctsBudget
  <2>1. visits'[Root] = visits[Root] + 1 /\ visits[Root] \in Nat
      BY <1>4, <1>6, <1>9, <1>10
  <2> QED
      BY <1>3, <1>4, <2>1
<1> QED
    BY <1>12, <1>13, <1>14, <1>15, <1>16 DEF PlannerIInv

(* The walk down the tree: at each depth the child visited most, and no    *)
(* sibling of a node on it was visited more often.                         *)
WalkedTo(node) ==
    \A i \in 1..Len(node) : \A c \in Children(SubSeq(node, 1, i - 1)) :
        visits[c] <= visits[SubSeq(node, 1, i)]

LEMMA BestChildIs ==
    ASSUME TreeGrown, NEW node \in Tree, Children(node) # {}
    PROVE  /\ BestChild(node) \in Children(node)
           /\ \A c \in Children(node) : visits[c] <= visits[BestChild(node)]
<1> DEFINE last == Len(Actions)
           Held(k) == ChildBy(node, k) \in Tree
<1>1. /\ visits \in [Tree -> Nat] /\ node \in Nodes /\ last \in Nat
    BY ActionsAre DEF TreeGrown
<1>2. ASSUME NEW k \in 1..last
      PROVE  Place(ChildBy(node, k)) = k
  <2>1. Last(ChildBy(node, k)) = Actions[k]
      BY <1>1, ActionsAre, AppendProperties DEF ChildBy, Nodes, Last
  <2> QED
      BY <2>1, ActionsAre DEF Place
<1>3. \A c \in Children(node) : \E k \in 1..last : c = ChildBy(node, k) /\ Held(k)
    BY ActionsAre DEF Children
<1>4. \A k \in 1..last : Held(k) => ChildBy(node, k) \in Children(node)
    BY ActionsAre DEF Children
<1> DEFINE Beats(k, l) == \/ visits[ChildBy(node, k)] > visits[ChildBy(node, l)]
                          \/ visits[ChildBy(node, k)] = visits[ChildBy(node, l)] /\ k < l
           Champion(k, upto) == /\ k \in 1..upto /\ Held(k)
                                /\ \A l \in 1..upto : Held(l) /\ l # k => Beats(k, l)
           good == {upto \in 0..last : (\E k \in 1..upto : Held(k)) => \E k : Champion(k, upto)}
<1>5. 0 \in good
    BY <1>1
<1>6. ASSUME NEW upto \in 1..last, upto - 1 \in good
      PROVE  upto \in good
  <2>0. upto \in 0..last
      OBVIOUS
  <2> HIDE DEF Held
  <2>1. CASE ~Held(upto)
    <3> SUFFICES ASSUME \E k \in 1..upto : Held(k)
                 PROVE  \E k : Champion(k, upto)
        BY <2>0
    <3>1. \A k \in 1..upto : k = upto \/ k \in 1..(upto - 1)
        OBVIOUS
    <3>2. \E k \in 1..(upto - 1) : Held(k)
        BY <2>1, <3>1
    <3>3. PICK k : Champion(k, upto - 1)
        BY <1>6, <3>2
    <3>4. k \in 1..upto
        BY <3>3
    <3>5. Champion(k, upto)
        BY <2>1, <3>1, <3>3, <3>4
    <3> QED
        BY <3>5
  <2>2. CASE Held(upto) /\ ~\E k \in 1..(upto - 1) : Held(k)
    <3>1. \A k \in 1..upto : k = upto \/ k \in 1..(upto - 1)
        OBVIOUS
    <3>2. Champion(upto, upto)
        BY <2>2, <3>1
    <3> QED
        BY <2>0, <3>2
  <2>3. CASE Held(upto) /\ \E k \in 1..(upto - 1) : Held(k)
    <3>1. \A k \in 1..upto : k = upto \/ k \in 1..(upto - 1)
        OBVIOUS
    <3>2. PICK k : Champion(k, upto - 1)
        BY <1>6, <2>3
    <3>3. k \in 1..upto /\ k # upto
        BY <3>2
    <3>4. \A l \in 1..last : Held(l) => visits[ChildBy(node, l)] \in Nat
        BY <1>1 DEF Held
    <3>5. k \in 1..last /\ upto \in 1..last /\ \A l \in 1..(upto - 1) : l \in 1..last
        BY <1>1, <3>3
    <3>6. CASE Beats(k, upto)
      <4>1. Champion(k, upto)
          BY <3>1, <3>2, <3>3, <3>6
      <4> QED
          BY <2>0, <4>1
    <3>7. CASE ~Beats(k, upto)
      <4>1. visits[ChildBy(node, upto)] > visits[ChildBy(node, k)]
          BY <2>3, <3>2, <3>3, <3>4, <3>5, <3>7
      <4>2. ASSUME NEW l \in 1..(upto - 1), Held(l)
            PROVE  Beats(upto, l)
        <5>1. visits[ChildBy(node, l)] <= visits[ChildBy(node, k)]
            BY <3>2, <3>4, <3>5, <4>2
        <5> QED
            BY <2>3, <3>2, <3>4, <3>5, <4>1, <4>2, <5>1
      <4>3. Champion(upto, upto)
          BY <2>3, <3>1, <4>2
      <4> QED
          BY <2>0, <4>3
    <3> QED
        BY <3>6, <3>7
  <2> QED
      BY <2>1, <2>2, <2>3
<1>7. last \in good
  <2> HIDE DEF good, last
  <2> QED
      BY <1>1, <1>5, <1>6, CountingUp
<1>8. PICK k : Champion(k, last)
    BY <1>3, <1>7
<1>9. \A d \in Children(node) \ {ChildBy(node, k)} : Heavier(ChildBy(node, k), d)
    BY <1>2, <1>3, <1>8 DEF Heavier
<1>10. ChildBy(node, k) \in Children(node)
    BY <1>4, <1>8
<1>11. /\ BestChild(node) \in Children(node)
       /\ \A d \in Children(node) \ {BestChild(node)} : Heavier(BestChild(node), d)
    BY <1>9, <1>10 DEF BestChild
<1>12. \A c \in Children(node) : visits[c] \in Nat
    BY <1>1, <1>3
<1> QED
    BY <1>11, <1>12 DEF Heavier

(* One step of the walk.                                                   *)
LEMMA WalkGoesOn ==
    ASSUME TreeGrown, NEW node \in Tree, WalkedTo(node), Children(node) # {}
    PROVE  /\ BestChild(node) \in Tree /\ Len(BestChild(node)) = Len(node) + 1
           /\ WalkedTo(BestChild(node))
<1> DEFINE best == BestChild(node)
<1>1. best \in Children(node) /\ \A c \in Children(node) : visits[c] <= visits[best]
    BY BestChildIs
<1>2. node \in Nodes /\ Len(node) \in Nat
    BY DEF TreeGrown, Nodes
<1>3. PICK k \in 1..Len(Actions) : best = ChildBy(node, k) /\ best \in Tree
    BY <1>1, ActionsAre DEF Children
<1> HIDE DEF best
<1>4. Actions[k] \in ToSet(Actions) /\ best = Append(node, Actions[k])
    BY <1>3, ActionsAre DEF ChildBy
<1>5. /\ best \in Nodes /\ Len(best) = Len(node) + 1
      /\ SubSeq(best, 1, Len(node) + 1) = best
      /\ \A i \in 0..Len(node) : SubSeq(best, 1, i) = SubSeq(node, 1, i)
    BY <1>2, <1>4, AppendProperties, PrefixesAre DEF Nodes
<1>6. SubSeq(node, 1, Len(node)) = node
    BY <1>2, PrefixesAre DEF Nodes
<1>7. ASSUME NEW i \in 1..Len(best), NEW c \in Children(SubSeq(best, 1, i - 1))
      PROVE  visits[c] <= visits[SubSeq(best, 1, i)]
  <2>1. CASE i = Len(node) + 1
    <3>1. i - 1 = Len(node) /\ i - 1 \in 0..Len(node)
        BY <1>2, <2>1
    <3>2. SubSeq(best, 1, i - 1) = node
        BY <1>5, <1>6, <3>1
    <3> QED
        BY <1>1, <1>5, <1>7, <2>1, <3>2 DEF best
  <2>2. CASE i # Len(node) + 1
    <3>1. i \in 1..Len(node) /\ i \in 0..Len(node) /\ i - 1 \in 0..Len(node)
        BY <1>2, <1>5, <2>2
    <3>2. SubSeq(best, 1, i - 1) = SubSeq(node, 1, i - 1) /\ SubSeq(best, 1, i) = SubSeq(node, 1, i)
        BY <1>5, <3>1
    <3> QED
        BY <1>7, <3>1, <3>2 DEF WalkedTo
  <2> QED
      BY <2>1, <2>2
<1> QED
    BY <1>3, <1>5, <1>7 DEF WalkedTo, best

(* Where the walk has come to after k steps: k deep, or at a leaf.         *)
LEMMA WalkEnds ==
    ASSUME TreeGrown
    PROVE  /\ BestFrom[MaxDepth] \in Tree /\ WalkedTo(BestFrom[MaxDepth])
           /\ Children(BestFrom[MaxDepth]) = {}
<1> DEFINE Next(node) == IF Children(node) = {} THEN node ELSE BestChild(node)
           Follows(way) == way = [k \in 0..MaxDepth |->
               IF k = 0 THEN Root
               ELSE IF Children(way[k - 1]) = {} THEN way[k - 1] ELSE BestChild(way[k - 1])]
           WalkSound(node, k) == WalkedTo(node) /\ (Len(node) = k \/ Children(node) = {})
           down == [k \in 1..MaxDepth |-> [node \in Tree |-> Next(node)]]
<1>1. MaxDepth \in Nat /\ Root \in Tree
    BY PlannerAssumption DEF TreeGrown
<1>2. \A node \in Tree : Next(node) \in Tree
    BY BestChildIs DEF Children
<1>3. \A k \in 1..MaxDepth : \A node \in Tree : down[k][node] = Next(node)
    OBVIOUS
<1> HIDE DEF Next, down
<1>4. StepsStay(Tree, MaxDepth, down)
    BY <1>2, <1>3 DEF StepsStay
<1>5. PICK way : IsTheWay(way, Tree, Root, MaxDepth, down)
    BY <1>1, <1>4, StepsAreAFunction
<1>6. /\ way \in [0..MaxDepth -> Tree] /\ way[0] = Root
      /\ \A k \in 1..MaxDepth : way[k] = Next(way[k - 1])
  <2>1. /\ way \in [0..MaxDepth -> Tree] /\ way[0] = Root
        /\ \A k \in 1..MaxDepth : way[k] = down[k][way[k - 1]]
      BY <1>5 DEF IsTheWay
  <2>2. \A k \in 1..MaxDepth : k - 1 \in 0..MaxDepth
      BY <1>1
  <2> QED
      BY <1>3, <2>1, <2>2
<1>7. Follows(way)
  <2>1. \A k \in 0..MaxDepth : way[k] = IF k = 0 THEN Root ELSE Next(way[k - 1])
      BY <1>1, <1>6
  <2>2. way = [k \in 0..MaxDepth |-> way[k]]
      BY <1>6
  <2> QED
      BY <2>1, <2>2 DEF Next
<1>8. Follows(BestFrom)
    BY <1>7 DEF BestFrom
<1>9. \A k \in 0..MaxDepth : BestFrom[k] = IF k = 0 THEN Root ELSE Next(BestFrom[k - 1])
    BY <1>8 DEF Next
<1> DEFINE good == {k \in 0..MaxDepth : BestFrom[k] \in Tree /\ WalkSound(BestFrom[k], k)}
<1>10. 0 \in good
  <2>1. WalkedTo(Root) /\ Len(Root) = 0
      BY DEF WalkedTo, Root
  <2> QED
      BY <1>1, <1>9, <2>1
<1>11. ASSUME NEW k \in 1..MaxDepth, k - 1 \in good
       PROVE  k \in good
  <2>1. k \in 0..MaxDepth /\ k # 0
      BY <1>1
  <2>2. BestFrom[k] = Next(BestFrom[k - 1])
      BY <1>9, <2>1
  <2>3. PICK node \in Tree : node = BestFrom[k - 1] /\ WalkSound(node, k - 1)
      BY <1>11
  <2>4. CASE Children(node) = {}
    <3>1. BestFrom[k] = node
        BY <2>2, <2>3, <2>4 DEF Next
    <3> QED
        BY <2>1, <2>3, <2>4, <3>1
  <2>5. CASE Children(node) # {}
    <3>1. BestFrom[k] = BestChild(node)
        BY <2>2, <2>3, <2>5 DEF Next
    <3>2. /\ BestChild(node) \in Tree /\ Len(BestChild(node)) = Len(node) + 1
          /\ WalkedTo(BestChild(node)) /\ Len(node) = k - 1
        BY <2>3, <2>5, WalkGoesOn
    <3>3. Len(BestFrom[k]) = k
        BY <1>1, <3>1, <3>2
    <3> QED
        BY <2>1, <3>1, <3>2, <3>3
  <2> QED
      BY <2>4, <2>5
<1>12. MaxDepth \in good
  <2> HIDE DEF good
  <2> QED
      BY <1>1, <1>10, <1>11, CountingUp
<1>13. PICK node \in Tree : /\ node = BestFrom[MaxDepth] /\ WalkedTo(node)
                            /\ Len(node) = MaxDepth \/ Children(node) = {}
    BY <1>12
<1>14. ASSUME Len(node) = MaxDepth
       PROVE  Children(node) = {}
  <2> SUFFICES ASSUME NEW k \in 1..Len(Actions), ChildBy(node, k) \in Tree
               PROVE  FALSE
      BY ActionsAre DEF Children
  <2>1. node \in Nodes /\ Actions[k] \in ToSet(Actions)
      BY ActionsAre DEF TreeGrown
  <2>2. Len(ChildBy(node, k)) = Len(node) + 1
      BY <2>1, AppendProperties DEF ChildBy, Nodes
  <2>3. Len(ChildBy(node, k)) <= MaxDepth
      BY DEF TreeGrown
  <2> QED
      BY <1>1, <1>14, <2>2, <2>3
<1> QED
    BY <1>13, <1>14

LEMMA ReturnPlanKeeps ==
    ASSUME PlannerIInv, ReturnPlan
    PROVE  PlannerIInv'
<1>1. visits[Root] = MctsBudget /\ visits' = visits /\ pulls' = pulls /\ plan' = BestFrom[MaxDepth]
    BY DEF ReturnPlan
<1> DEFINE end == BestFrom[MaxDepth]
<1>2. TreeGrown
    BY DEF PlannerIInv
<1>3. end \in Tree /\ WalkedTo(end) /\ Children(end) = {}
    BY <1>2, WalkEnds
<1> HIDE DEF end
<1>4. Tree' = Tree
    BY <1>1 DEF Tree
<1>5. end \in Nodes /\ DOMAIN end = 1..Len(end) /\ Len(end) \in Nat
    BY <1>2, <1>3 DEF TreeGrown, Nodes
<1>6. ASSUME NEW n \in Tree, NEW i \in DOMAIN end, Len(n) = i,
             SubSeq(n, 1, i - 1) = SubSeq(end, 1, i - 1)
      PROVE  visits[n] <= visits[SubSeq(end, 1, i)]
  <2>1. n \in Nodes /\ i \in 1..Len(n) /\ i \in 1..Len(end)
      BY <1>2, <1>5, <1>6 DEF TreeGrown, Nodes
  <2>2. SubSeq(n, 1, i) = Append(SubSeq(n, 1, i - 1), n[i]) /\ SubSeq(n, 1, Len(n)) = n
      BY <2>1, PrefixesAre DEF Nodes
  <2>3. n[i] \in ToSet(Actions)
      BY <2>1 DEF Nodes
  <2>4. PICK k \in 1..Len(Actions) : Actions[k] = n[i]
      BY <2>3, ActionsAre
  <2>5. n = ChildBy(SubSeq(end, 1, i - 1), k)
      BY <1>6, <2>2, <2>4 DEF ChildBy
  <2>6. n \in Children(SubSeq(end, 1, i - 1))
      BY <2>5, ActionsAre DEF Children
  <2> QED
      BY <1>3, <2>1, <2>6 DEF WalkedTo
<1>7. PlanIsMostVisited'
  <2>1. plan' = end
      BY <1>1 DEF end
  <2>2. \A n \in Tree, i \in DOMAIN end :
            Len(n) = i /\ SubSeq(n, 1, i - 1) = SubSeq(end, 1, i - 1)
                => visits[n] <= visits[SubSeq(end, 1, i)]
      BY <1>6
  <2>3. Children(plan)' = {}
      BY <1>4, <1>3, <2>1 DEF Children
  <2> QED
      BY <1>1, <1>3, <1>4, <2>1, <2>2, <2>3 DEF PlanIsMostVisited
<1>8. TreeGrown'
    BY <1>1, <1>4 DEF PlannerIInv, TreeGrown
<1>9. VisitsAddUp' /\ BreadthFirst'
  <2>1. VisitsAddUp'
      BY <1>1, <1>4 DEF PlannerIInv, VisitsAddUp
  <2>2. BreadthFirst'
      BY <1>4 DEF PlannerIInv, BreadthFirst, Children, Untried
  <2> QED
      BY <2>1, <2>2
<1> QED
    BY <1>1, <1>7, <1>8, <1>9 DEF PlannerIInv

LEMMA PlannerStepKeeps == PlannerIInv /\ [PlannerNext]_plannerVars => PlannerIInv'
<1> SUFFICES ASSUME PlannerIInv, [PlannerNext]_plannerVars
             PROVE  PlannerIInv'
    OBVIOUS
<1>1. CASE Iterate
    BY <1>1, IterateKeeps
<1>2. CASE ReturnPlan
    BY <1>2, ReturnPlanKeeps
<1>3. CASE UNCHANGED plannerVars
  <2>1. visits' = visits /\ pulls' = pulls /\ plan' = plan
      BY <1>3 DEF plannerVars
  <2>2. Tree' = Tree
      BY <2>1 DEF Tree
  <2>3. TreeGrown'
      BY <2>1, <2>2 DEF PlannerIInv, TreeGrown
  <2>4. VisitsAddUp'
      BY <2>1, <2>2 DEF PlannerIInv, VisitsAddUp
  <2>5. BreadthFirst'
      BY <2>2 DEF PlannerIInv, BreadthFirst, Children, Untried
  <2>6. PlanIsMostVisited'
      BY <2>1, <2>2 DEF PlannerIInv, PlanIsMostVisited, Children
  <2> QED
      BY <2>1, <2>3, <2>4, <2>5, <2>6 DEF PlannerIInv
<1> QED
    BY <1>1, <1>2, <1>3 DEF PlannerNext

LEMMA PlannerStarts == PlannerInit => PlannerIInv
<1> SUFFICES ASSUME PlannerInit PROVE PlannerIInv
    OBVIOUS
<1>1. /\ visits = [n \in {Root} |-> 0] /\ pulls = [n \in {Root} |-> 0] /\ plan = <<"none">>
      /\ MaxDepth \in Nat \ {0} /\ MctsBudget \in Nat \ {0}
    BY PlannerAssumption DEF PlannerInit
<1>2. Tree = {Root} /\ visits[Root] = 0
    BY <1>1 DEF Tree
<1>3. Root \in Nodes /\ Len(Root) = 0
    BY DEF Root, Nodes
<1>4. SubSeq(Root, 1, 0) = Root
    BY <1>3, PrefixesAre DEF Nodes, Root
<1>5. TreeGrown
  <2>1. \A i \in 0..Len(Root) : i = 0
      BY <1>3
  <2>2. visits \in [Tree -> Nat] /\ pulls \in [Tree -> Nat]
      BY <1>1, <1>2
  <2> QED
      BY <1>1, <1>2, <1>3, <1>4, <2>1, <2>2 DEF TreeGrown
<1>6. \A k \in 1..Len(Actions) : ChildBy(Root, k) \notin Tree
  <2> SUFFICES ASSUME NEW k \in 1..Len(Actions)
               PROVE  ChildBy(Root, k) # Root
      BY <1>2
  <2>1. Actions[k] \in ToSet(Actions)
      BY ActionsAre
  <2>2. Len(ChildBy(Root, k)) = Len(Root) + 1
      BY <1>3, <2>1, AppendProperties DEF ChildBy, Nodes
  <2> QED
      BY <1>3, <2>2
<1>7. VisitsAddUp
  <2>1. Below(visits, Root) = 0
      BY <1>1, <1>6, NothingBelow DEF IsCount, Tree
  <2> QED
      BY <1>2, <2>1 DEF VisitsAddUp
<1>8. BreadthFirst /\ PlanIsMostVisited
    BY <1>1, <1>2 DEF BreadthFirst, PlanIsMostVisited
<1> QED
    BY <1>1, <1>2, <1>5, <1>7, <1>8 DEF PlannerIInv

(* Whatever the bandits choose: an arm was pulled as often as its child    *)
(* was visited, and a node that can be passed by was visited once for      *)
(* itself and otherwise for its children; no action is searched in depth   *)
(* before its siblings were tried; and the plan returned ends at a leaf,   *)
(* no sibling of a node on it having been visited more often.              *)
THEOREM PlansAreMostVisited == PlannerSpec => []PlannerInv
<1>1. PlannerInit => PlannerIInv
    BY PlannerStarts
<1>2. PlannerIInv /\ [PlannerNext]_plannerVars => PlannerIInv'
    BY PlannerStepKeeps
<1>3. PlannerIInv => PlannerInv
  <2> SUFFICES ASSUME PlannerIInv PROVE PlannerInv
      OBVIOUS
  <2>1. /\ visits \in [Tree -> Nat] /\ pulls \in [Tree -> Nat] /\ Root \in Tree
        /\ Tree \subseteq Nodes /\ visits[Root] <= MctsBudget /\ MctsBudget \in Nat
        /\ \A n \in Tree : Len(n) <= MaxDepth /\ \A i \in 0..Len(n) : SubSeq(n, 1, i) \in Tree
      BY PlannerAssumption DEF PlannerIInv, TreeGrown
  <2>2. ASSUME NEW n \in Tree, n # Root
        PROVE  Front(n) \in Tree
    <3>1. n \in Nodes
        BY <2>1
    <3>2. Len(n) - 1 \in 0..Len(n)
        BY <2>2, <3>1 DEF Nodes, Root
    <3> QED
        BY <2>1, <3>2 DEF Front
  <2>3. PlannerTypeOK
      BY <2>1, <2>2 DEF PlannerTypeOK
  <2> QED
      BY <2>3 DEF PlannerIInv, PlannerInv
<1> QED
    BY <1>1, <1>2, <1>3, PTL DEF PlannerSpec

-----------------------------------------------------------------------------
(* The chains of the mycelial network. *)

NodeRecord == [parent : Nat, depth : Nat, mode : Nat, confidence : Nat,
               state : {"seed", "growing", "validated", "pruned"}]

(* A node comes after its parent. *)
Rooted(dict) ==
    /\ dict \in Seq(NodeRecord)
    /\ \A i \in 1..Len(dict) : dict[i].parent < i

LEMMA RootedIs ==
    ASSUME NEW dict, Rooted(dict)
    PROVE  /\ Len(dict) \in Nat /\ DOMAIN dict = 1..Len(dict)
           /\ \A i \in 1..Len(dict) : dict[i] \in NodeRecord /\ dict[i].parent \in Nat
                                    /\ dict[i].parent < i
<1>1. /\ Len(dict) \in Nat /\ DOMAIN dict = 1..Len(dict)
      /\ \A i \in 1..Len(dict) : dict[i] \in NodeRecord /\ dict[i].parent < i
    BY DEF Rooted
<1> QED
    BY <1>1 DEF NodeRecord

(* The ancestors of the nodes of a dict.                                   *)
AncestorsIn(dict) ==
    LET above[i \in DOMAIN dict] ==
            IF dict[i].parent = 0 THEN {} ELSE {dict[i].parent} \cup above[dict[i].parent]
    IN  above
Above(dict, above, i) ==
    IF dict[i].parent = 0 THEN {} ELSE {dict[i].parent} \cup above[dict[i].parent]

(* They are defined, node after node, and come before it.                  *)
LEMMA AncestorsAre ==
    ASSUME NEW dict, Rooted(dict)
    PROVE  \A i \in 1..Len(dict) : /\ AncestorsIn(dict)[i] = Above(dict, AncestorsIn(dict), i)
                                   /\ AncestorsIn(dict)[i] \subseteq 1..(i - 1)
<1> DEFINE last == Len(dict)
           tables == [1..last -> SUBSET (1..last)]
           Follows(above) == above = [i \in DOMAIN dict |->
               IF dict[i].parent = 0 THEN {} ELSE {dict[i].parent} \cup above[dict[i].parent]]
           table == CHOOSE above : Follows(above)
           move == [k \in 1..last |-> [v \in tables |-> [v EXCEPT ![k] = Above(dict, v, k)]]]
           first == [i \in 1..last |-> {}]
<1>1. /\ last \in Nat /\ DOMAIN dict = 1..last
      /\ \A i \in 1..last : dict[i].parent \in Nat /\ dict[i].parent < i
    BY RootedIs
<1>2. AncestorsIn(dict) = table
    BY DEF AncestorsIn
<1> HIDE DEF last
<1>3. first \in tables
    OBVIOUS
<1>4. \A k \in 1..last : \A v \in tables : move[k][v] = [v EXCEPT ![k] = Above(dict, v, k)]
    OBVIOUS
<1>5. ASSUME NEW k \in 1..last, NEW v \in tables
      PROVE  Above(dict, v, k) \subseteq 1..last
  <2>1. CASE dict[k].parent = 0
      BY <2>1 DEF Above
  <2>2. CASE dict[k].parent # 0
    <3>1. dict[k].parent \in 1..last
        BY <1>1, <2>2
    <3>2. v[dict[k].parent] \in SUBSET (1..last)
        BY <3>1
    <3> QED
        BY <2>2, <3>1, <3>2 DEF Above
  <2> QED
      BY <2>1, <2>2
<1>6. StepsStay(tables, last, move)
  <2>1. ASSUME NEW k \in 1..last, NEW v \in tables PROVE move[k][v] \in tables
    <3>1. Above(dict, v, k) \in SUBSET (1..last)
        BY <1>5
    <3>2. [v EXCEPT ![k] = Above(dict, v, k)] \in tables
        BY <3>1
    <3> QED
        BY <1>4, <3>2
  <2> HIDE DEF move, tables
  <2> QED
      BY <2>1 DEF StepsStay
<1> HIDE DEF move, first, tables
<1>7. PICK on : IsTheWay(on, tables, first, last, move)
    BY <1>1, <1>3, <1>6, StepsAreAFunction
<1>8. \A k \in 0..last : on[k] \in tables
    BY <1>7 DEF IsTheWay
<1> DEFINE good == {k \in 0..last : \A i \in 1..k : on[k][i] = Above(dict, on[k], i)}
<1>9. 0 \in good
    BY <1>1
<1>10. ASSUME NEW k \in 1..last, k - 1 \in good
       PROVE  k \in good
  <2>1. k \in 0..last /\ k - 1 \in 0..last /\ on[k - 1] \in tables
      BY <1>1, <1>8
  <2>2. on[k] = [on[k - 1] EXCEPT ![k] = Above(dict, on[k - 1], k)]
      BY <1>4, <1>7, <2>1 DEF IsTheWay
  <2>3. \A i \in 1..last : i # k => on[k][i] = on[k - 1][i]
      BY <2>1, <2>2 DEF tables
  <2>4. on[k][k] = Above(dict, on[k - 1], k)
      BY <2>1, <2>2 DEF tables
  <2>5. ASSUME NEW i \in 1..k
        PROVE  Above(dict, on[k], i) = Above(dict, on[k - 1], i)
    <3>1. CASE dict[i].parent = 0
        BY <3>1 DEF Above
    <3>2. CASE dict[i].parent # 0
      <4>1. i \in 1..last
          BY <1>1
      <4>2. dict[i].parent \in 1..last /\ dict[i].parent # k
          BY <1>1, <3>2, <4>1
      <4> QED
          BY <2>3, <4>2 DEF Above
    <3> QED
        BY <3>1, <3>2
  <2>6. ASSUME NEW i \in 1..k
        PROVE  on[k][i] = Above(dict, on[k], i)
    <3>1. CASE i = k
        BY <2>4, <2>5, <3>1
    <3>2. CASE i # k
      <4>1. i \in 1..(k - 1) /\ i \in 1..last
          BY <1>1, <3>2
      <4>2. on[k - 1][i] = Above(dict, on[k - 1], i)
          BY <1>10, <4>1
      <4> QED
          BY <2>3, <2>5, <3>2, <4>1, <4>2
    <3> QED
        BY <3>1, <3>2
  <2> QED
      BY <2>1, <2>6
<1>11. last \in good
  <2> HIDE DEF good
  <2>1. \A k \in 0..last : k \in good
      BY <1>1, <1>9, <1>10, CountingUp
  <2> QED
      BY <1>1, <2>1
<1>12. PICK above : above \in tables /\ \A i \in 1..last : above[i] = Above(dict, above, i)
    BY <1>1, <1>8, <1>11
<1>13. Follows(above)
  <2>1. above = [i \in 1..last |-> above[i]]
      BY <1>12 DEF tables
  <2>2. \A i \in 1..last : above[i] =
            (IF dict[i].parent = 0 THEN {} ELSE {dict[i].parent} \cup above[dict[i].parent])
      BY <1>12 DEF Above
  <2> QED
      BY <1>1, <2>1, <2>2
<1>14. Follows(table)
    BY <1>13
<1> HIDE DEF table
<1>15. \A i \in 1..last : table[i] = Above(dict, table, i)
    BY <1>1, <1>14 DEF Above
<1> DEFINE fine == {k \in 0..last : \A i \in 1..k : table[i] \subseteq 1..(i - 1)}
<1>16. 0 \in fine
    BY <1>1
<1>17. ASSUME NEW k \in 1..last, k - 1 \in fine
       PROVE  k \in fine
  <2>1. k \in 0..last
      BY <1>1
  <2>2. table[k] \subseteq 1..(k - 1)
    <3>1. CASE dict[k].parent = 0
        BY <1>15, <3>1 DEF Above
    <3>2. CASE dict[k].parent # 0
      <4>1. dict[k].parent \in 1..(k - 1)
          BY <1>1, <3>2
      <4>2. table[dict[k].parent] \subseteq 1..(dict[k].parent - 1)
          BY <1>17, <4>1
      <4>3. table[k] = {dict[k].parent} \cup table[dict[k].parent]
          BY <1>15, <3>2 DEF Above
      <4> QED
          BY <4>1, <4>2, <4>3
    <3> QED
        BY <3>1, <3>2
  <2>3. ASSUME NEW i \in 1..k PROVE table[i] \subseteq 1..(i - 1)
    <3>1. CASE i = k
        BY <2>2, <3>1
    <3>2. CASE i # k
      <4>1. i \in 1..(k - 1)
          BY <3>2
      <4> QED
          BY <1>17, <4>1
    <3> QED
        BY <3>1, <3>2
  <2> QED
      BY <2>1, <2>3
<1>18. last \in fine
  <2> HIDE DEF fine
  <2>1. \A k \in 0..last : k \in fine
      BY <1>1, <1>16, <1>17, CountingUp
  <2> QED
      BY <1>1, <2>1
<1> QED
    BY <1>2, <1>15, <1>18 DEF last

(* Who is above whom depends on the parents alone.                         *)
LEMMA SameParentsSameAncestors ==
    ASSUME NEW dict, NEW other, Rooted(dict), Rooted(other), Len(other) = Len(dict),
           \A i \in 1..Len(dict) : other[i].parent = dict[i].parent
    PROVE  \A i \in 1..Len(dict) : AncestorsIn(other)[i] = AncestorsIn(dict)[i]
<1> DEFINE last == Len(dict)
           here == AncestorsIn(dict)
           there == AncestorsIn(other)
           good == {k \in 0..last : \A i \in 1..k : there[i] = here[i]}
<1>1. /\ last \in Nat
      /\ \A i \in 1..last : /\ dict[i].parent \in Nat /\ dict[i].parent < i
                            /\ other[i].parent = dict[i].parent
    BY RootedIs
<1>2. \A i \in 1..last : here[i] = Above(dict, here, i) /\ there[i] = Above(other, there, i)
    BY AncestorsAre
<1> HIDE DEF here, there, last
<1>3. 0 \in good
    BY <1>1
<1>4. ASSUME NEW k \in 1..last, k - 1 \in good
      PROVE  k \in good
  <2>1. ASSUME NEW i \in 1..(k - 1) PROVE there[i] = here[i]
      BY <1>4
  <2>2. there[k] = here[k]
    <3>1. CASE dict[k].parent = 0
        BY <1>1, <1>2, <3>1 DEF Above
    <3>2. CASE dict[k].parent # 0
      <4>1. dict[k].parent \in 1..(k - 1)
          BY <1>1, <3>2
      <4>2. here[k] = {dict[k].parent} \cup here[dict[k].parent]
          BY <1>2, <3>2 DEF Above
      <4>3. other[k].parent = dict[k].parent
          BY <1>1
      <4>4. there[k] = {dict[k].parent} \cup there[dict[k].parent]
          BY <1>2, <3>2, <4>3 DEF Above
      <4> QED
          BY <2>1, <4>1, <4>2, <4>4
    <3> QED
        BY <3>1, <3>2
  <2>3. k \in 0..last /\ \A i \in 1..k : i = k \/ i \in 1..(k - 1)
      BY <1>1
  <2> QED
      BY <2>1, <2>2, <2>3
<1>5. last \in good
  <2> HIDE DEF good
  <2>1. \A k \in 0..last : k \in good
      BY <1>1, <1>3, <1>4, CountingUp
  <2> QED
      BY <1>1, <2>1
<1> QED
    BY <1>5 DEF last, here, there

(* A path is a chain: of two nodes on it the earlier is above the later.   *)
LEMMA PathsAreChains ==
    ASSUME NEW dict, Rooted(dict), NEW leaf \in 1..Len(dict),
           NEW i \in AncestorsIn(dict)[leaf] \cup {leaf},
           NEW j \in AncestorsIn(dict)[leaf] \cup {leaf}, i < j
    PROVE  i \in AncestorsIn(dict)[j]
<1> DEFINE last == Len(dict)
           above == AncestorsIn(dict)
           Chain(l) == \A x, y \in above[l] \cup {l} : x < y => x \in above[y]
           good == {k \in 0..last : \A l \in 1..k : Chain(l)}
<1>1. last \in Nat /\ \A l \in 1..last : dict[l].parent \in Nat /\ dict[l].parent < l
    BY RootedIs
<1>2. \A l \in 1..last : above[l] = Above(dict, above, l) /\ above[l] \subseteq 1..(l - 1)
    BY AncestorsAre
<1> HIDE DEF above, last
<1>3. 0 \in good
    BY <1>1
<1>4. ASSUME NEW k \in 1..last, k - 1 \in good
      PROVE  k \in good
  <2>1. ASSUME NEW l \in 1..(k - 1) PROVE Chain(l)
      BY <1>4
  <2>2. ASSUME NEW x \in above[k] \cup {k}, NEW y \in above[k] \cup {k}, x < y
        PROVE  x \in above[y]
    <3>1. above[k] \subseteq 1..(k - 1)
        BY <1>2
    <3>2. x \in above[k]
        BY <2>2, <3>1
    <3>3. CASE y = k
        BY <3>2, <3>3
    <3>4. CASE y # k
      <4>1. y \in above[k]
          BY <3>4
      <4>2. dict[k].parent # 0
          BY <1>2, <4>1 DEF Above
      <4>3. dict[k].parent \in 1..(k - 1) /\ above[k] = above[dict[k].parent] \cup {dict[k].parent}
          BY <1>1, <1>2, <4>2 DEF Above
      <4>4. Chain(dict[k].parent)
          BY <2>1, <4>3
      <4> QED
          BY <2>2, <3>2, <4>1, <4>3, <4>4
    <3> QED
        BY <3>3, <3>4
  <2>3. Chain(k)
      BY <2>2
  <2>4. k \in 0..last /\ \A l \in 1..k : l = k \/ l \in 1..(k - 1)
      BY <1>1
  <2> HIDE DEF Chain
  <2> QED
      BY <2>1, <2>3, <2>4
<1>5. last \in good
  <2> HIDE DEF good
  <2>1. \A k \in 0..last : k \in good
      BY <1>1, <1>3, <1>4, CountingUp
  <2> QED
      BY <1>1, <2>1
<1>6. Chain(leaf)
    BY <1>5 DEF last
<1> QED
    BY <1>6 DEF above

Childless(i) == \A j \in 1..Len(nodes) : nodes[j].parent # i

MycelialTyped ==
    /\ inPlace \in BOOLEAN /\ built \in BOOLEAN /\ level \in 0..DeepestLevel /\ validateAt \in Nat
    /\ Rooted(nodes)

(* No node lies beyond the level reached, and those whose turn comes are   *)
(* the leaves before it.                                                   *)
LevelsGrow ==
    /\ \A i \in 1..Len(nodes) :
          /\ nodes[i].depth <= level
          /\ nodes[i].parent # 0 => nodes[i].depth = nodes[nodes[i].parent].depth + 1
    /\ \A i \in toGrow : i \in 1..Len(nodes) /\ nodes[i].depth + 1 = level /\ Childless(i)
    /\ built => toGrow = {}

(* What was refined in place and has grown is neither validated nor weak;  *)
(* verdicts are those of the confidence.                                   *)
Judged ==
    \A i \in 1..Len(nodes) :
        /\ ~Childless(i) => nodes[i].state = "growing" /\ nodes[i].confidence >= PruneThreshold
        /\ nodes[i].state = "validated" => nodes[i].confidence >= validateAt
        /\ nodes[i].state = "pruned" => nodes[i].confidence < PruneThreshold
        /\ nodes[i].state = "growing" => nodes[i].confidence < validateAt
        /\ nodes[i].state = "seed" => nodes[i].depth = 0

(* A leaf without a verdict is still to be grown, at this level or beyond. *)
LeavesWait ==
    \A i \in 1..Len(nodes) :
        Childless(i) /\ nodes[i].state \in {"seed", "growing"} =>
            nodes[i].depth >= level \/ i \in toGrow

Unjudged == \A i \in 1..Len(nodes) : nodes[i].state # "validated"

LinksAreAcross ==
    /\ ~built => links = {}
    /\ \A link \in links : \E i, j \in 1..Len(nodes) :
          i < j /\ link = {i, j} /\ i \notin AncestorsIn(nodes)[j]

MycelialIInv ==
    /\ MycelialTyped /\ LevelsGrow
    /\ inPlace => Judged
    /\ inPlace /\ ~built => LeavesWait
    /\ ~inPlace => Unjudged
    /\ LinksAreAcross /\ GrowthEndsForAReason /\ VerdictsAreEnds

LEMMA MycelialConstants ==
    /\ ModeCount \in Nat \ {0} /\ MaxBranches \in Nat \ {0} /\ DeepestLevel \in Nat \ {0}
    /\ Estimates \subseteq Nat /\ SproutConfidence \in Nat
    /\ PruneThreshold \in Nat /\ BranchBelow \in Nat /\ Thresholds \subseteq Nat
<1>1. /\ PruneThreshold \in Nat /\ BranchBelow \in Nat /\ Thresholds \subseteq Nat
      /\ ModeCount \in Nat \ {0} /\ MaxBranches \in Nat \ {0} /\ DeepestLevel \in Nat \ {0}
    BY MycelialAssumption
<1> QED
    BY <1>1, MycelialAssumption

LEMMA LeavesAre ==
    ASSUME MycelialTyped
    PROVE  /\ DOMAIN nodes = 1..Len(nodes) /\ Len(nodes) \in Nat
           /\ \A i \in 1..Len(nodes) : nodes[i] \in NodeRecord /\ nodes[i].parent < i
           /\ \A i : i \in Leaves <=> i \in 1..Len(nodes) /\ Childless(i)
<1>1. /\ DOMAIN nodes = 1..Len(nodes) /\ Len(nodes) \in Nat
      /\ \A i \in 1..Len(nodes) : nodes[i] \in NodeRecord /\ nodes[i].parent < i
    BY DEF MycelialTyped, Rooted
<1> QED
    BY <1>1 DEF Leaves, ChildrenOf, Childless

LEMMA TurnIs ==
    ASSUME MycelialTyped, LevelsGrow, toGrow # {}
    PROVE  Turn \in toGrow
<1>1. toGrow \in SUBSET Nat
    BY LeavesAre DEF LevelsGrow
<1>2. \E i \in toGrow : \A j \in toGrow : i <= j
    BY <1>1, LeastIndex
<1> QED
    BY <1>2 DEF Turn, Min

(* A level begins with the leaves that wait for it. *)
LEMMA LevelBegins ==
    ASSUME MycelialIInv, BeginLevel
    PROVE  MycelialIInv'
<1>1. /\ level' = level + 1 /\ level < DeepestLevel /\ toGrow' = OnLevel(level) /\ toGrow = {} /\ ~built
      /\ inPlace' = inPlace /\ validateAt' = validateAt /\ nodes' = nodes /\ links' = links /\ built' = built
    BY DEF BeginLevel
<1>2. /\ MycelialTyped /\ DOMAIN nodes = 1..Len(nodes) /\ level \in Nat
      /\ \A i \in 1..Len(nodes) : nodes[i] \in NodeRecord
    BY LeavesAre DEF MycelialIInv, MycelialTyped
<1>3. MycelialTyped'
    BY <1>1, <1>2, MycelialConstants DEF MycelialTyped
<1>4. \A i : Childless(i)' <=> Childless(i)
    BY <1>1 DEF Childless
<1>5. ASSUME NEW i \in toGrow'
      PROVE  i \in 1..Len(nodes) /\ nodes[i].depth + 1 = level' /\ Childless(i)
  <2>1. i \in 1..Len(nodes) /\ nodes[i].depth = level
      BY <1>1, <1>2, <1>5 DEF OnLevel
  <2>2. Childless(i)
    <3>1. SUFFICES ASSUME NEW j \in 1..Len(nodes), nodes[j].parent = i PROVE FALSE
        BY DEF Childless
    <3>2. nodes[j].depth = level + 1 /\ nodes[j].depth <= level
        BY <2>1, <3>1 DEF MycelialIInv, LevelsGrow
    <3> QED
        BY <1>2, <3>2
  <2> QED
      BY <1>1, <2>1, <2>2
<1>6. LevelsGrow'
  <2>1. \A i \in 1..Len(nodes) :
            /\ nodes[i].depth <= level'
            /\ nodes[i].parent # 0 => nodes[i].depth = nodes[nodes[i].parent].depth + 1
      BY <1>1, <1>2 DEF MycelialIInv, LevelsGrow, NodeRecord
  <2> QED
      BY <1>1, <1>4, <1>5, <2>1 DEF LevelsGrow
<1>7. inPlace => Judged'
    BY <1>1, <1>4 DEF MycelialIInv, Judged
<1>8. inPlace => LeavesWait'
  <2> SUFFICES ASSUME inPlace, NEW i \in 1..Len(nodes), Childless(i),
                      nodes[i].state \in {"seed", "growing"}
               PROVE  nodes[i].depth >= level + 1 \/ i \in toGrow'
      BY <1>1, <1>4 DEF LeavesWait
  <2>1. nodes[i].depth >= level
      BY <1>1 DEF MycelialIInv, LeavesWait
  <2>2. CASE nodes[i].depth = level
      BY <1>1, <1>2, <2>2 DEF OnLevel
  <2>3. CASE nodes[i].depth # level
      BY <1>2, <2>1, <2>3 DEF NodeRecord
  <2> QED
      BY <2>2, <2>3
<1>9. Unjudged' = Unjudged /\ LinksAreAcross' = LinksAreAcross
    BY <1>1 DEF Unjudged, LinksAreAcross
<1>10. GrowthEndsForAReason' /\ VerdictsAreEnds'
    BY <1>1 DEF GrowthEndsForAReason, VerdictsAreEnds
<1> QED
    BY <1>1, <1>3, <1>6, <1>7, <1>8, <1>9, <1>10 DEF MycelialIInv

(* A node that has its verdict is passed over. *)
LEMMA NodeIsSkipped ==
    ASSUME MycelialIInv, SkipNode
    PROVE  MycelialIInv'
<1>1. /\ toGrow # {} /\ toGrow' = toGrow \ {Turn} /\ nodes[Turn].state \in {"validated", "pruned"}
      /\ inPlace' = inPlace /\ validateAt' = validateAt /\ nodes' = nodes /\ links' = links /\ level' = level /\ built' = built
    BY DEF SkipNode
<1>2. Turn \in toGrow /\ ~built
    BY <1>1, TurnIs DEF MycelialIInv, LevelsGrow
<1>3. \A i : Childless(i)' <=> Childless(i)
    BY <1>1 DEF Childless
<1>4. MycelialTyped' /\ LevelsGrow'
    BY <1>1, <1>2, <1>3 DEF MycelialIInv, MycelialTyped, LevelsGrow
<1>5. (inPlace => Judged') /\ Unjudged' = Unjudged /\ LinksAreAcross' = LinksAreAcross
    BY <1>1, <1>3 DEF MycelialIInv, Judged, Unjudged, LinksAreAcross
<1>6. inPlace => LeavesWait'
  <2> SUFFICES ASSUME inPlace, NEW i \in 1..Len(nodes), Childless(i),
                      nodes[i].state \in {"seed", "growing"}
               PROVE  nodes[i].depth >= level \/ i \in toGrow'
      BY <1>1, <1>3 DEF LeavesWait
  <2>1. i # Turn
      BY <1>1
  <2>2. nodes[i].depth >= level \/ i \in toGrow
      BY <1>2 DEF MycelialIInv, LeavesWait
  <2> QED
      BY <1>1, <2>1, <2>2
<1>7. GrowthEndsForAReason' /\ VerdictsAreEnds'
    BY <1>1, <1>2 DEF GrowthEndsForAReason, VerdictsAreEnds
<1> QED
    BY <1>1, <1>4, <1>5, <1>6, <1>7 DEF MycelialIInv

(* The children that grow from node i, refined and estimated at c.         *)
Kids(i, c) == SubSeq(Offspring(i, c), 1, Min({MaxBranches, Len(Offspring(i, c))}))

LEMMA LesserOfTwo ==
    ASSUME NEW x \in Nat, NEW y \in Nat
    PROVE  Min({x, y}) = IF x <= y THEN x ELSE y
<1>1. CASE x <= y
  <2>1. \E z \in {x, y} : \A w \in {x, y} : z <= w
      BY <1>1
  <2>2. \A z \in {x, y} : (\A w \in {x, y} : z <= w) => z = x
      BY <1>1
  <2> QED
      BY <1>1, <2>1, <2>2 DEF Min
<1>2. CASE ~(x <= y)
  <2>1. \E z \in {x, y} : \A w \in {x, y} : z <= w
      BY <1>2
  <2>2. \A z \in {x, y} : (\A w \in {x, y} : z <= w) => z = y
      BY <1>2
  <2> QED
      BY <1>2, <2>1, <2>2 DEF Min
<1> QED
    BY <1>1, <1>2

LEMMA KidsAre ==
    ASSUME MycelialTyped, NEW i \in 1..Len(nodes), NEW c \in Estimates
    PROVE  /\ Kids(i, c) \in Seq(NodeRecord)
           /\ Kids(i, c) = <<>> <=> StateAt(c) # "growing"
           /\ \A k \in 1..Len(Kids(i, c)) :
                /\ Kids(i, c)[k].parent = i /\ Kids(i, c)[k].depth = nodes[i].depth + 1
                /\ Kids(i, c)[k].state = "growing" /\ Kids(i, c)[k].confidence <= c
<1> DEFINE main == Node(i, nodes[i].depth + 1, nodes[i].mode, "growing", c)
           other == Alternative(i, c)
           most == Min({MaxBranches, Len(Offspring(i, c))})
<1>1. /\ nodes[i] \in NodeRecord /\ c \in Nat /\ i \in Nat
      /\ MaxBranches \in Nat \ {0} /\ ModeCount \in Nat \ {0}
    BY LeavesAre, MycelialConstants
<1>2. /\ main \in NodeRecord /\ main.parent = i /\ main.depth = nodes[i].depth + 1
      /\ main.state = "growing" /\ main.confidence <= c
    BY <1>1 DEF Node, NodeRecord
<1>3. /\ other \in NodeRecord /\ other.parent = i /\ other.depth = nodes[i].depth + 1
      /\ other.state = "growing" /\ other.confidence <= c
  <2>1. (c * 9) \div 10 \in Nat /\ (c * 9) \div 10 <= c
      BY <1>1
  <2>2. (nodes[i].mode + 1) % ModeCount \in Nat
      BY <1>1 DEF NodeRecord
  <2> QED
      BY <1>1, <2>1, <2>2 DEF Alternative, Node, NodeRecord
<1> HIDE DEF main, other
<1>4. CASE StateAt(c) # "growing"
  <2>1. Offspring(i, c) = <<>>
      BY <1>4 DEF Offspring
  <2>2. most = 0
      BY <1>1, <2>1, LesserOfTwo
  <2>3. Kids(i, c) = <<>>
      BY <2>1, <2>2 DEF Kids
  <2> QED
      BY <1>4, <2>3
<1>5. CASE StateAt(c) = "growing"
  <2>1. Offspring(i, c) = <<main, other>> \/ Offspring(i, c) = <<main>>
      BY <1>5 DEF Offspring, main, other
  <2>2. /\ Offspring(i, c) \in Seq(NodeRecord) /\ Len(Offspring(i, c)) \in 1..2
        /\ \A k \in 1..Len(Offspring(i, c)) : Offspring(i, c)[k] \in {main, other}
    <3>1. CASE Offspring(i, c) = <<main, other>>
      <4>1. <<main, other>> \in Seq(NodeRecord) /\ Len(<<main, other>>) = 2
          BY <1>2, <1>3
      <4>2. \A k \in 1..2 : <<main, other>>[k] \in {main, other}
          OBVIOUS
      <4> QED
          BY <3>1, <4>1, <4>2
    <3>2. CASE Offspring(i, c) = <<main>>
      <4>1. <<main>> \in Seq(NodeRecord) /\ Len(<<main>>) = 1
          BY <1>2
      <4>2. \A k \in 1..1 : <<main>>[k] \in {main, other}
          OBVIOUS
      <4> QED
          BY <3>2, <4>1, <4>2
    <3> QED
        BY <2>1, <3>1, <3>2
  <2>3. most \in 1..Len(Offspring(i, c))
    <3> HIDE DEF most
    <3>1. PICK size : size = Len(Offspring(i, c))
        OBVIOUS
    <3>2. size \in 1..2
        BY <2>2, <3>1
    <3>3. size \in Nat /\ size >= 1
        BY <3>2
    <3>4. MaxBranches \in Nat /\ MaxBranches >= 1
        BY <1>1
    <3>5. most = Min({MaxBranches, size})
        BY <3>1 DEF most
    <3>6. most = IF MaxBranches <= size THEN MaxBranches ELSE size
        BY <3>3, <3>4, <3>5, LesserOfTwo
    <3> QED
        BY <3>1, <3>3, <3>4, <3>6
  <2> HIDE DEF most
  <2>4. Kids(i, c) = SubSeq(Offspring(i, c), 1, most)
      BY DEF Kids, most
  <2>5. /\ Kids(i, c) \in Seq(NodeRecord) /\ Len(Kids(i, c)) = most
        /\ \A k \in 1..most : Kids(i, c)[k] = Offspring(i, c)[k]
      BY <2>2, <2>3, <2>4
  <2>6. Kids(i, c) # <<>>
      BY <2>3, <2>5
  <2>7. \A k \in 1..Len(Kids(i, c)) : Kids(i, c)[k] \in {main, other}
      BY <2>2, <2>3, <2>5
  <2> QED
      BY <1>2, <1>3, <1>5, <2>5, <2>6, <2>7
<1> QED
    BY <1>4, <1>5

LEMMA StatesAre ==
    ASSUME NEW c \in Nat, validateAt \in Nat
    PROVE  /\ StateAt(c) \in {"growing", "validated", "pruned"}
           /\ StateAt(c) = "validated" <=> c >= validateAt
           /\ StateAt(c) = "pruned" <=> c < PruneThreshold /\ ~(c >= validateAt)
<1>1. PruneThreshold \in Nat
    BY MycelialConstants
<1>2. CASE c >= validateAt
    BY <1>1, <1>2 DEF StateAt
<1>3. CASE c < PruneThreshold /\ ~(c >= validateAt)
    BY <1>1, <1>3 DEF StateAt
<1>4. CASE ~(c >= validateAt) /\ ~(c < PruneThreshold)
    BY <1>4 DEF StateAt
<1> QED
    BY <1>2, <1>3, <1>4

(* What has changed when a node is grown. *)
LEMMA GrownIs ==
    ASSUME MycelialTyped, LevelsGrow, NEW c \in Estimates, GrowNode(c)
    PROVE  /\ Turn \in toGrow /\ Turn \in 1..Len(nodes)
           /\ nodes' \in Seq(NodeRecord) /\ Len(nodes') = Len(nodes) + Len(Kids(Turn, c))
           /\ \A i \in 1..Len(nodes) :
                /\ nodes'[i].parent = nodes[i].parent /\ nodes'[i].depth = nodes[i].depth
                /\ i # Turn \/ ~inPlace => nodes'[i] = nodes[i]
           /\ inPlace => nodes'[Turn].state = StateAt(c) /\ nodes'[Turn].confidence = c
           /\ \A i \in (Len(nodes) + 1)..Len(nodes') :
                /\ nodes'[i].parent = Turn /\ nodes'[i].depth = nodes[Turn].depth + 1
                /\ nodes'[i].state = "growing" /\ nodes'[i].confidence <= c
<1> DEFINE turn == Turn
           kids == Kids(Turn, c)
           refined == RefinedAt(Turn, c)
<1>1. turn \in toGrow /\ turn \in 1..Len(nodes)
    BY TurnIs DEF GrowNode, LevelsGrow
<1>2. /\ kids \in Seq(NodeRecord)
      /\ \A k \in 1..Len(kids) :
            /\ kids[k].parent = turn /\ kids[k].depth = nodes[turn].depth + 1
            /\ kids[k].state = "growing" /\ kids[k].confidence <= c
    BY <1>1, KidsAre
<1>3. nodes' = refined \o kids
    BY DEF GrowNode, Kids
<1>4. c \in Nat /\ StateAt(c) \in {"growing", "validated", "pruned"}
    BY MycelialConstants, StatesAre DEF MycelialTyped
<1>5. /\ Len(nodes) \in Nat /\ nodes \in Seq(NodeRecord)
      /\ \A i \in 1..Len(nodes) : nodes[i] \in NodeRecord
    BY DEF MycelialTyped, Rooted
<1>6. refined = IF inPlace THEN [nodes EXCEPT ![turn].state = StateAt(c), ![turn].confidence = c]
                           ELSE nodes
    BY DEF RefinedAt
<1> HIDE DEF turn, kids, refined
<1>7. /\ refined \in Seq(NodeRecord) /\ Len(refined) = Len(nodes)
      /\ \A i \in 1..Len(nodes) :
            /\ refined[i].parent = nodes[i].parent /\ refined[i].depth = nodes[i].depth
            /\ i # turn \/ ~inPlace => refined[i] = nodes[i]
      /\ inPlace => refined[turn].state = StateAt(c) /\ refined[turn].confidence = c
  <2>1. CASE ~inPlace
      BY <1>5, <1>6, <2>1
  <2>2. CASE inPlace
    <3> DEFINE new == [nodes[turn] EXCEPT !.state = StateAt(c), !.confidence = c]
    <3>1. /\ new \in NodeRecord /\ new.parent = nodes[turn].parent
          /\ new.depth = nodes[turn].depth /\ new.state = StateAt(c) /\ new.confidence = c
        BY <1>1, <1>4, <1>5 DEF NodeRecord
    <3>2. refined = [nodes EXCEPT ![turn] = new]
        BY <1>1, <1>5, <1>6, <2>2 DEF NodeRecord
    <3> HIDE DEF new
    <3>3. /\ refined \in Seq(NodeRecord) /\ Len(refined) = Len(nodes) /\ refined[turn] = new
          /\ \A i \in 1..Len(nodes) : i # turn => refined[i] = nodes[i]
        BY <1>1, <1>5, <3>1, <3>2
    <3>4. \A i \in 1..Len(nodes) :
              refined[i].parent = nodes[i].parent /\ refined[i].depth = nodes[i].depth
        BY <3>1, <3>3
    <3> QED
        BY <2>2, <3>1, <3>3, <3>4
  <2> QED
      BY <2>1, <2>2
<1>8. /\ nodes' \in Seq(NodeRecord) /\ Len(nodes') = Len(nodes) + Len(kids)
      /\ \A i \in 1..Len(nodes) : nodes'[i] = refined[i]
      /\ \A i \in (Len(nodes) + 1)..Len(nodes') : nodes'[i] = kids[i - Len(nodes)]
  <2>1. \A i \in 1..(Len(nodes) + Len(kids)) :
            nodes'[i] = IF i <= Len(nodes) THEN refined[i] ELSE kids[i - Len(nodes)]
      BY <1>2, <1>3, <1>7, ConcatProperties
  <2>2. nodes' \in Seq(NodeRecord) /\ Len(nodes') = Len(nodes) + Len(kids)
      BY <1>2, <1>3, <1>7, ConcatProperties
  <2>3. Len(nodes) \in Nat /\ Len(kids) \in Nat
      BY <1>2, <1>5
  <2>4. /\ \A i \in 1..Len(nodes) : i \in 1..(Len(nodes) + Len(kids)) /\ i <= Len(nodes)
        /\ \A i \in (Len(nodes) + 1)..(Len(nodes) + Len(kids)) :
              i \in 1..(Len(nodes) + Len(kids)) /\ ~(i <= Len(nodes))
      BY <2>3
  <2> QED
      BY <2>1, <2>2, <2>4
<1>9. ASSUME NEW i \in (Len(nodes) + 1)..Len(nodes')
      PROVE  /\ nodes'[i].parent = turn /\ nodes'[i].depth = nodes[turn].depth + 1
             /\ nodes'[i].state = "growing" /\ nodes'[i].confidence <= c
  <2>1. i - Len(nodes) \in 1..Len(kids) /\ nodes'[i] = kids[i - Len(nodes)]
      BY <1>2, <1>5, <1>8
  <2> QED
      BY <1>2, <2>1
<1> QED
    BY <1>1, <1>7, <1>8, <1>9 DEF turn, kids

(* A node is grown: it gets its verdict, or children. *)
LEMMA NodeIsGrown ==
    ASSUME MycelialIInv, NEW c \in Estimates, GrowNode(c)
    PROVE  MycelialIInv'
<1> DEFINE kids == Len(Kids(Turn, c))
           old == Len(nodes)
<1>0. PICK turn : turn = Turn
    OBVIOUS
<1>1. /\ MycelialTyped /\ LevelsGrow /\ old \in Nat /\ c \in Nat
      /\ \A i \in 1..old : nodes[i] \in NodeRecord /\ nodes[i].parent < i
    BY LeavesAre, MycelialConstants DEF MycelialIInv
<1>2. /\ turn \in toGrow /\ turn \in 1..old
      /\ nodes' \in Seq(NodeRecord) /\ Len(nodes') = old + kids
      /\ \A i \in 1..old :
            /\ nodes'[i].parent = nodes[i].parent /\ nodes'[i].depth = nodes[i].depth
            /\ i # turn \/ ~inPlace => nodes'[i] = nodes[i]
      /\ inPlace => nodes'[turn].state = StateAt(c) /\ nodes'[turn].confidence = c
      /\ \A i \in (old + 1)..Len(nodes') :
            /\ nodes'[i].parent = turn /\ nodes'[i].depth = nodes[turn].depth + 1
            /\ nodes'[i].state = "growing" /\ nodes'[i].confidence <= c
    BY <1>0, <1>1, GrownIs
<1>3. kids \in Nat /\ (kids = 0 <=> StateAt(c) # "growing")
  <2>1. /\ Kids(Turn, c) \in Seq(NodeRecord)
        /\ Kids(Turn, c) = <<>> <=> StateAt(c) # "growing"
      BY <1>0, <1>1, <1>2, KidsAre
  <2>2. Len(Kids(Turn, c)) = 0 <=> Kids(Turn, c) = <<>>
      BY <2>1
  <2> QED
      BY <2>1, <2>2
<1>4. /\ toGrow' = toGrow \ {turn} /\ inPlace' = inPlace /\ validateAt' = validateAt /\ links' = links
      /\ level' = level /\ built' = built
    BY <1>0 DEF GrowNode
<1>5. /\ StateAt(c) = "validated" <=> c >= validateAt
      /\ StateAt(c) = "pruned" <=> c < PruneThreshold /\ ~(c >= validateAt)
      /\ StateAt(c) \in {"growing", "validated", "pruned"}
    BY <1>1, StatesAre DEF MycelialTyped
<1>6. /\ ~built /\ Childless(turn) /\ nodes[turn].depth + 1 = level
      /\ level \in 0..DeepestLevel /\ PruneThreshold \in Nat /\ validateAt \in Nat
    BY <1>1, <1>2, MycelialConstants DEF LevelsGrow, MycelialTyped
<1> HIDE DEF kids, old
<1>7. \A i \in 1..(old + kids) : i \in 1..old \/ i \in (old + 1)..Len(nodes')
    BY <1>1, <1>2, <1>3
<1>8. \A i \in 1..old : i \in 1..(old + kids) /\ i \in Nat /\ i <= old
    BY <1>1, <1>3
<1>9. Rooted(nodes)'
  <2>1. ASSUME NEW i \in 1..(old + kids) PROVE nodes'[i].parent < i
    <3>1. CASE i \in 1..old
        BY <1>1, <1>2, <3>1
    <3>2. CASE i \in (old + 1)..Len(nodes')
      <4>1. turn < i
          BY <1>1, <1>2, <1>3, <3>2
      <4> QED
          BY <1>2, <3>2, <4>1
    <3> QED
        BY <1>7, <3>1, <3>2
  <2> QED
      BY <1>2, <2>1 DEF Rooted
<1>10. MycelialTyped'
    BY <1>1, <1>4, <1>9 DEF MycelialTyped
<1>11. \A i \in 1..old : i # turn => (Childless(i)' <=> Childless(i))
  <2> SUFFICES ASSUME NEW i \in 1..old, i # turn PROVE Childless(i)' <=> Childless(i)
      OBVIOUS
  <2>1. ASSUME Childless(i) PROVE Childless(i)'
    <3>1. ASSUME NEW j \in 1..(old + kids) PROVE nodes'[j].parent # i
      <4>1. CASE j \in 1..old
          BY <1>2, <2>1, <4>1 DEF Childless, old
      <4>2. CASE j \in (old + 1)..Len(nodes')
          BY <1>2, <4>2
      <4> QED
          BY <1>7, <4>1, <4>2
    <3> QED
        BY <1>2, <3>1 DEF Childless
  <2>2. ASSUME Childless(i)' PROVE Childless(i)
    <3>1. \A j \in 1..old : nodes'[j].parent # i
        BY <1>2, <1>8, <2>2 DEF Childless
    <3> QED
        BY <1>2, <3>1 DEF Childless, old
  <2> QED
      BY <2>1, <2>2
<1>12. Childless(turn)' <=> StateAt(c) # "growing"
  <2>1. CASE kids = 0
    <3>1. \A j \in 1..old : nodes'[j].parent # turn
        BY <1>2, <1>6 DEF Childless, old
    <3>2. Len(nodes') = old
        BY <1>1, <1>2, <2>1
    <3> QED
        BY <1>3, <2>1, <3>1, <3>2 DEF Childless
  <2>2. CASE kids # 0
    <3>1. old + 1 \in (old + 1)..Len(nodes') /\ old + 1 \in 1..Len(nodes')
        BY <1>1, <1>2, <1>3, <2>2
    <3>2. nodes'[old + 1].parent = turn
        BY <1>2, <3>1
    <3> QED
        BY <1>3, <2>2, <3>1, <3>2 DEF Childless
  <2> QED
      BY <2>1, <2>2
<1>13. \A i \in (old + 1)..Len(nodes') : Childless(i)'
  <2> SUFFICES ASSUME NEW i \in (old + 1)..Len(nodes'), NEW j \in 1..(old + kids)
               PROVE  nodes'[j].parent # i
      BY <1>2 DEF Childless
  <2>1. CASE j \in 1..old
    <3>1. nodes'[j].parent < j /\ nodes'[j].parent \in Nat /\ j <= old
        BY <1>1, <1>2, <1>8, <2>1 DEF NodeRecord
    <3> QED
        BY <1>1, <3>1
  <2>2. CASE j \in (old + 1)..Len(nodes')
    <3>1. nodes'[j].parent = turn /\ turn <= old /\ turn \in Nat
        BY <1>2, <1>8, <2>2
    <3> QED
        BY <1>1, <3>1
  <2> QED
      BY <1>7, <2>1, <2>2
<1>14. LevelsGrow'
  <2>1. ASSUME NEW i \in 1..(old + kids)
        PROVE  /\ nodes'[i].depth <= level
               /\ nodes'[i].parent # 0 => nodes'[i].depth = nodes'[nodes'[i].parent].depth + 1
    <3>1. CASE i \in 1..old
      <4>1. nodes[i].depth <= level
          BY <1>1, <3>1 DEF LevelsGrow, old
      <4>2. ASSUME nodes[i].parent # 0
            PROVE  nodes'[i].depth = nodes'[nodes'[i].parent].depth + 1
        <5>1. nodes[i].parent \in 1..old
            BY <1>1, <1>8, <3>1, <4>2 DEF NodeRecord
        <5>2. nodes[i].depth = nodes[nodes[i].parent].depth + 1
            BY <1>1, <3>1, <4>2 DEF LevelsGrow, old
        <5>3. nodes'[nodes[i].parent].depth = nodes[nodes[i].parent].depth
            BY <1>2, <5>1
        <5>4. nodes'[i].parent = nodes[i].parent /\ nodes'[i].depth = nodes[i].depth
            BY <1>2, <3>1
        <5> QED
            BY <5>2, <5>3, <5>4
      <4> QED
          BY <1>2, <3>1, <4>1, <4>2
    <3>2. CASE i \in (old + 1)..Len(nodes')
      <4>1. nodes'[i].parent = turn /\ nodes'[i].depth = nodes[turn].depth + 1
            /\ nodes'[turn].depth = nodes[turn].depth
          BY <1>2, <3>2
      <4> QED
          BY <1>6, <4>1
    <3> QED
        BY <1>7, <3>1, <3>2
  <2>2. ASSUME NEW i \in toGrow'
        PROVE  i \in 1..(old + kids) /\ nodes'[i].depth + 1 = level /\ Childless(i)'
    <3>1. i \in toGrow /\ i # turn
        BY <1>4
    <3>2. i \in 1..old /\ nodes[i].depth + 1 = level /\ Childless(i)
        BY <1>1, <3>1 DEF LevelsGrow, old
    <3> QED
        BY <1>2, <1>8, <1>11, <3>1, <3>2
  <2> QED
      BY <1>2, <1>4, <1>6, <2>1, <2>2 DEF LevelsGrow
<1>15. ASSUME inPlace
       PROVE  Judged' /\ LeavesWait'
  <2>1. Judged /\ LeavesWait
      BY <1>6, <1>15 DEF MycelialIInv
  <2>2. ASSUME NEW i \in 1..(old + kids)
        PROVE  /\ ~Childless(i)' => nodes'[i].state = "growing" /\ nodes'[i].confidence >= PruneThreshold
               /\ nodes'[i].state = "validated" => nodes'[i].confidence >= validateAt
               /\ nodes'[i].state = "pruned" => nodes'[i].confidence < PruneThreshold
               /\ nodes'[i].state = "growing" => nodes'[i].confidence < validateAt
               /\ nodes'[i].state = "seed" => nodes'[i].depth = 0
    <3>1. CASE i \in 1..old /\ i # turn
      <4>1. nodes'[i] = nodes[i] /\ (Childless(i)' <=> Childless(i))
          BY <1>2, <1>11, <3>1
      <4> QED
          BY <2>1, <3>1, <4>1 DEF Judged, old
    <3>2. CASE i = turn
      <4>1. nodes'[i].state = StateAt(c) /\ nodes'[i].confidence = c
          BY <1>2, <1>15, <3>2
      <4>2. StateAt(c) = "growing" => c >= PruneThreshold /\ c < validateAt
          BY <1>1, <1>5, <1>6
      <4>3. ~Childless(i)' => StateAt(c) = "growing"
          BY <1>12, <3>2
      <4> QED
          BY <1>5, <4>1, <4>2, <4>3
    <3>3. CASE i \in (old + 1)..Len(nodes')
      <4>1. /\ nodes'[i].state = "growing" /\ nodes'[i].confidence <= c
            /\ nodes'[i].confidence \in Nat
        <5>1. nodes'[i] \in NodeRecord
            BY <1>2, <2>2
        <5> QED
            BY <1>2, <3>3, <5>1 DEF NodeRecord
      <4>2. kids # 0
          BY <1>1, <1>2, <3>3
      <4>3. c < validateAt
          BY <1>1, <1>3, <1>5, <1>6, <4>2
      <4>4. nodes'[i].confidence < validateAt
          BY <1>1, <1>6, <4>1, <4>3
      <4> QED
          BY <1>13, <3>3, <4>1, <4>4
    <3> QED
        BY <1>7, <3>1, <3>2, <3>3
  <2>3. Judged'
      BY <1>2, <1>4, <2>2 DEF Judged
  <2>4. ASSUME NEW i \in 1..(old + kids), Childless(i)', nodes'[i].state \in {"seed", "growing"}
        PROVE  nodes'[i].depth >= level \/ i \in toGrow'
    <3>1. CASE i \in 1..old /\ i # turn
      <4>1. nodes'[i] = nodes[i] /\ Childless(i)
          BY <1>2, <1>11, <2>4, <3>1
      <4>2. nodes[i].depth >= level \/ i \in toGrow
          BY <2>1, <2>4, <3>1, <4>1 DEF LeavesWait, old
      <4> QED
          BY <1>4, <3>1, <4>1, <4>2
    <3>2. CASE i = turn
        BY <1>2, <1>5, <1>12, <1>15, <2>4, <3>2
    <3>3. CASE i \in (old + 1)..Len(nodes')
        BY <1>2, <1>6, <3>3
    <3> QED
        BY <1>7, <3>1, <3>2, <3>3
  <2>5. LeavesWait'
      BY <1>2, <1>4, <2>4 DEF LeavesWait
  <2> QED
      BY <2>3, <2>5
<1>16. ASSUME ~inPlace
       PROVE  Unjudged'
  <2>1. ASSUME NEW i \in 1..(old + kids) PROVE nodes'[i].state # "validated"
    <3>1. CASE i \in 1..old
        BY <1>2, <1>16, <3>1 DEF MycelialIInv, Unjudged, old
    <3>2. CASE i \in (old + 1)..Len(nodes')
        BY <1>2, <3>2
    <3> QED
        BY <1>7, <3>1, <3>2
  <2> QED
      BY <1>2, <2>1 DEF Unjudged
<1>17. LinksAreAcross'
    BY <1>4, <1>6 DEF MycelialIInv, LinksAreAcross
<1>18. GrowthEndsForAReason' /\ VerdictsAreEnds'
    BY <1>4, <1>6 DEF GrowthEndsForAReason, VerdictsAreEnds
<1> QED
    BY <1>4, <1>10, <1>14, <1>15, <1>16, <1>17, <1>18 DEF MycelialIInv

(* The build ends: links across the chains, and what is weak is pruned. *)
LEMMA BuildFinishes ==
    ASSUME MycelialIInv, FinishBuild
    PROVE  MycelialIInv'
<1> DEFINE size == Len(nodes)
<1>1. /\ ~built /\ built' = TRUE /\ toGrow = {} /\ toGrow' = {}
      /\ inPlace' = inPlace /\ validateAt' = validateAt /\ level' = level
      /\ level = DeepestLevel \/ OnLevel(level) = {}
      /\ nodes' = PruneBelowThreshold
    BY DEF FinishBuild
<1>2. /\ MycelialTyped /\ DOMAIN nodes = 1..size /\ size \in Nat /\ level \in 0..DeepestLevel
      /\ \A i \in 1..size : nodes[i] \in NodeRecord /\ nodes[i].parent < i
    BY LeavesAre DEF MycelialIInv, MycelialTyped
<1>3. DeepestLevel \in Nat \ {0} /\ PruneThreshold \in Nat /\ validateAt \in Nat
    BY <1>2, MycelialConstants DEF MycelialTyped
<1>4. \A i \in 1..size :
        nodes'[i] = IF nodes[i].confidence < PruneThreshold THEN [nodes[i] EXCEPT !.state = "pruned"]
                                                            ELSE nodes[i]
    BY <1>1, <1>2 DEF PruneBelowThreshold
<1>5. ASSUME NEW i \in 1..size
      PROVE  /\ nodes'[i] \in NodeRecord /\ nodes'[i].parent = nodes[i].parent
             /\ nodes'[i].depth = nodes[i].depth /\ nodes'[i].confidence = nodes[i].confidence
             /\ nodes'[i].state = IF nodes[i].confidence < PruneThreshold THEN "pruned"
                                                                          ELSE nodes[i].state
  <2>1. nodes[i] \in NodeRecord
      BY <1>2
  <2> QED
      BY <1>4, <2>1 DEF NodeRecord
<1>6. nodes' \in Seq(NodeRecord) /\ Len(nodes') = size /\ DOMAIN nodes' = 1..size
  <2> DEFINE value(i) == IF nodes[i].confidence < PruneThreshold
                         THEN [nodes[i] EXCEPT !.state = "pruned"] ELSE nodes[i]
  <2>1. nodes' = [i \in 1..size |-> value(i)]
      BY <1>1, <1>2 DEF PruneBelowThreshold
  <2>2. \A i \in 1..size : value(i) \in NodeRecord
      BY <1>4, <1>5
  <2> HIDE DEF value
  <2> QED
      BY <1>2, <2>1, <2>2
<1> HIDE DEF size
<1>7. Rooted(nodes)'
    BY <1>2, <1>5, <1>6 DEF Rooted
<1>8. MycelialTyped'
    BY <1>1, <1>2, <1>7 DEF MycelialTyped
<1>9. \A i : Childless(i)' <=> Childless(i)
    BY <1>5, <1>6 DEF Childless, size
<1>10. LevelsGrow'
  <2>1. ASSUME NEW i \in 1..size
        PROVE  /\ nodes'[i].depth <= level
               /\ nodes'[i].parent # 0 => nodes'[i].depth = nodes'[nodes'[i].parent].depth + 1
    <3>1. nodes[i].depth <= level
        BY DEF MycelialIInv, LevelsGrow, size
    <3>2. ASSUME nodes[i].parent # 0
          PROVE  nodes'[i].depth = nodes'[nodes[i].parent].depth + 1
      <4>1. nodes[i].depth = nodes[nodes[i].parent].depth + 1
          BY <3>2 DEF MycelialIInv, LevelsGrow, size
      <4>2. nodes[i] \in NodeRecord /\ nodes[i].parent < i
          BY <1>2
      <4>3. nodes[i].parent \in 1..size
        <5>1. nodes[i].parent \in Nat /\ i \in Nat /\ i <= size
            BY <1>2, <4>2 DEF NodeRecord
        <5> QED
            BY <1>2, <3>2, <4>2, <5>1
      <4> QED
          BY <1>5, <4>1, <4>3
    <3> QED
        BY <1>5, <3>1, <3>2
  <2> QED
      BY <1>1, <1>6, <2>1 DEF LevelsGrow
<1>11. inPlace => Judged'
  <2> SUFFICES ASSUME inPlace, NEW i \in 1..size
               PROVE  /\ ~Childless(i) => nodes'[i].state = "growing" /\ nodes'[i].confidence >= PruneThreshold
                      /\ nodes'[i].state = "validated" => nodes'[i].confidence >= validateAt
                      /\ nodes'[i].state = "pruned" => nodes'[i].confidence < PruneThreshold
                      /\ nodes'[i].state = "growing" => nodes'[i].confidence < validateAt
                      /\ nodes'[i].state = "seed" => nodes'[i].depth = 0
      BY <1>1, <1>6, <1>9 DEF Judged
  <2>1. /\ ~Childless(i) => nodes[i].state = "growing" /\ nodes[i].confidence >= PruneThreshold
        /\ nodes[i].state = "validated" => nodes[i].confidence >= validateAt
        /\ nodes[i].state = "pruned" => nodes[i].confidence < PruneThreshold
        /\ nodes[i].state = "growing" => nodes[i].confidence < validateAt
        /\ nodes[i].state = "seed" => nodes[i].depth = 0
      BY DEF MycelialIInv, Judged, size
  <2>2. nodes[i].confidence \in Nat
      BY <1>2 DEF NodeRecord
  <2>3. CASE nodes[i].confidence < PruneThreshold
      BY <1>3, <1>5, <2>1, <2>2, <2>3
  <2>4. CASE ~(nodes[i].confidence < PruneThreshold)
      BY <1>5, <2>1, <2>4
  <2> QED
      BY <2>3, <2>4
<1>12. \A i : i \in Leaves' <=> i \in 1..size /\ Childless(i)
  <2>1. \A i : i \in Leaves' <=> i \in 1..size /\ Childless(i)'
      BY <1>6 DEF Leaves, ChildrenOf, Childless
  <2> QED
      BY <1>9, <2>1
<1>13. ASSUME inPlace, NEW i \in 1..size, Childless(i), nodes'[i].state \in {"seed", "growing"}
       PROVE  nodes[i].depth = DeepestLevel /\ nodes'[i].state = nodes[i].state
  <2>1. nodes'[i].state = nodes[i].state
      BY <1>5, <1>13
  <2>2. nodes[i].depth >= level /\ nodes[i].depth <= level /\ nodes[i].depth \in Nat
    <3>1. nodes[i].depth >= level
        BY <1>1, <1>13, <2>1 DEF MycelialIInv, LeavesWait, size
    <3>2. nodes[i].depth <= level
        BY DEF MycelialIInv, LevelsGrow, size
    <3> QED
        BY <1>2, <3>1, <3>2 DEF NodeRecord
  <2>3. i \in OnLevel(level)
      BY <1>2, <1>13, <2>1, <2>2 DEF OnLevel
  <2> QED
      BY <1>1, <1>2, <2>1, <2>2, <2>3
<1>14. GrowthEndsForAReason'
  <2>1. ASSUME inPlace, NEW i \in Leaves', nodes'[i].state = "growing"
        PROVE  nodes'[i].depth = DeepestLevel
    <3>1. i \in 1..size /\ Childless(i)
        BY <1>12, <2>1
    <3> QED
        BY <1>5, <1>13, <2>1, <3>1
  <2> QED
      BY <1>1, <2>1 DEF GrowthEndsForAReason
<1>15. VerdictsAreEnds'
  <2>1. ASSUME inPlace, NEW i \in 1..size
        PROVE  /\ nodes'[i].state \in {"validated", "pruned"} => i \in Leaves'
               /\ nodes'[i].state = "validated" <=>
                     nodes'[i].confidence >= validateAt /\ nodes'[i].confidence >= PruneThreshold
               /\ nodes'[i].state = "pruned" <=> nodes'[i].confidence < PruneThreshold
    <3>1. /\ ~Childless(i) => nodes'[i].state = "growing"
          /\ nodes'[i].state = "validated" => nodes'[i].confidence >= validateAt
          /\ nodes'[i].state = "pruned" => nodes'[i].confidence < PruneThreshold
          /\ nodes'[i].state = "growing" => nodes'[i].confidence < validateAt
          /\ nodes'[i].state = "seed" => nodes'[i].depth = 0
        BY <1>1, <1>6, <1>9, <1>11, <2>1 DEF Judged
    <3>2. nodes'[i].confidence \in Nat
          /\ nodes'[i].state \in {"seed", "growing", "validated", "pruned"}
        BY <1>5 DEF NodeRecord
    <3>3. nodes'[i].state # "seed"
      <4>1. SUFFICES ASSUME nodes'[i].state = "seed" PROVE FALSE
          OBVIOUS
      <4>2. Childless(i)
          BY <3>1, <4>1
      <4>3. nodes[i].depth = DeepestLevel /\ nodes[i].depth = 0
          BY <1>5, <1>13, <2>1, <3>1, <4>1, <4>2
      <4> QED
          BY <1>3, <4>3
    <3>4. nodes'[i].confidence < PruneThreshold => nodes'[i].state = "pruned"
        BY <1>5
    <3>5. nodes'[i].state = "validated" <=>
              nodes'[i].confidence >= validateAt /\ nodes'[i].confidence >= PruneThreshold
      <4>1. nodes'[i].state = "validated" => ~(nodes'[i].confidence < PruneThreshold)
          BY <1>5
      <4> QED
          BY <1>3, <3>1, <3>2, <3>3, <4>1
    <3>6. nodes'[i].state \in {"validated", "pruned"} => i \in Leaves'
        BY <1>12, <3>1
    <3> QED
        BY <3>1, <3>4, <3>5, <3>6
  <2> QED
      BY <1>1, <1>6, <2>1 DEF VerdictsAreEnds
<1>16. ~inPlace => Unjudged'
  <2>1. ASSUME ~inPlace, NEW i \in 1..size PROVE nodes'[i].state # "validated"
    <3>1. nodes[i].state # "validated"
        BY <2>1 DEF MycelialIInv, Unjudged, size
    <3> QED
        BY <1>5, <3>1
  <2> QED
      BY <1>6, <2>1 DEF Unjudged
<1>17. LinksAreAcross'
  <2>1. ASSUME NEW link \in links'
        PROVE  \E i, j \in 1..size : i < j /\ link = {i, j} /\ i \notin AncestorsIn(nodes')[j]
    <3>1. PICK byMode \in BOOLEAN : links' = Connections(byMode)
        BY DEF FinishBuild
    <3>2. PICK i \in 1..size, j \in 1..size : i < j /\ link = {i, j} /\ ~Related(i, j)
      <4>1. \A i \in 1..size : i \in Nat /\ (i + 1)..size \subseteq 1..size
          BY <1>2
      <4>2. \A i \in 1..size : \A j \in (i + 1)..size : j \in 1..size /\ i < j
          BY <1>2, <4>1
      <4> QED
          BY <1>2, <2>1, <3>1, <4>2 DEF Connections, size
    <3>3. i \notin AncestorsIn(nodes)[j]
        BY <3>2 DEF Related, Ancestors, AncestorsIn
    <3>4. AncestorsIn(nodes')[j] = AncestorsIn(nodes)[j]
      <4>1. Rooted(nodes) /\ Rooted(nodes')
          BY <1>2, <1>7 DEF MycelialTyped, Rooted
      <4>2. Len(nodes') = Len(nodes) /\ \A k \in 1..Len(nodes) : nodes'[k].parent = nodes[k].parent
          BY <1>5, <1>6 DEF size
      <4> QED
          BY <3>2, <4>1, <4>2, SameParentsSameAncestors DEF size
    <3> QED
        BY <3>2, <3>3, <3>4
  <2> QED
      BY <1>1, <1>6, <2>1 DEF LinksAreAcross
<1> QED
    BY <1>1, <1>8, <1>10, <1>11, <1>14, <1>15, <1>16, <1>17 DEF MycelialIInv

(* Another build begins with the roots as the last one left them. *)
LEMMA BuildBeginsAgain ==
    ASSUME MycelialIInv, BuildAgain
    PROVE  MycelialIInv'
<1> DEFINE roots == {i \in DOMAIN nodes : nodes[i].parent = 0}
           size == Cardinality(roots)
<1>1. /\ built /\ ~built' /\ built' = FALSE /\ links' = {} /\ level' = 0
      /\ inPlace' = inPlace /\ validateAt' = validateAt /\ toGrow' = toGrow /\ toGrow = {}
      /\ nodes' = [i \in 1..size |-> RootNode(nodes[i])]
    BY DEF BuildAgain, MycelialIInv, LevelsGrow
<1>2. /\ MycelialTyped /\ DOMAIN nodes = 1..Len(nodes) /\ Len(nodes) \in Nat
      /\ \A i \in 1..Len(nodes) : nodes[i] \in NodeRecord
    BY LeavesAre DEF MycelialIInv
<1>3. size \in Nat /\ size <= Len(nodes)
  <2>1. IsFiniteSet(1..Len(nodes)) /\ Cardinality(1..Len(nodes)) = Len(nodes)
    <3>1. PICK grown \in Nat : grown = Len(nodes)
        BY <1>2
    <3>2. IsFiniteSet(1..grown) /\ Cardinality(1..grown) = IF 1 > grown THEN 0 ELSE grown - 1 + 1
        BY FS_Interval
    <3>3. Cardinality(1..grown) = grown
        BY <3>2
    <3> QED
        BY <3>1, <3>2, <3>3
  <2>2. roots \subseteq 1..Len(nodes)
      BY <1>2
  <2>3. size <= Cardinality(1..Len(nodes)) /\ IsFiniteSet(roots)
      BY <2>1, <2>2, FS_Subset
  <2> HIDE DEF roots
  <2> QED
      BY <2>1, <2>3, FS_CardinalityType
<1> HIDE DEF roots, size
<1>4. \A i \in 1..size : i \in 1..Len(nodes) /\ i \in Nat /\ i > 0
    BY <1>2, <1>3
<1>5. ASSUME NEW i \in 1..size
      PROVE  /\ nodes'[i] \in NodeRecord /\ nodes'[i].parent = 0 /\ nodes'[i].depth = 0
             /\ nodes'[i].state = nodes[i].state /\ nodes'[i].confidence = nodes[i].confidence
             /\ RootNode(nodes[i]) \in NodeRecord
  <2>1. nodes'[i] = RootNode(nodes[i]) /\ nodes[i] \in NodeRecord
      BY <1>1, <1>2, <1>4
  <2> QED
      BY <2>1 DEF RootNode, Node, NodeRecord
<1>6. nodes' \in Seq(NodeRecord) /\ Len(nodes') = size
  <2>1. \A i \in 1..size : RootNode(nodes[i]) \in NodeRecord
      BY <1>5
  <2> QED
      BY <1>1, <1>3, <2>1
<1>7. Rooted(nodes)'
    BY <1>4, <1>5, <1>6 DEF Rooted
<1>8. MycelialTyped'
  <2>1. 0 \in 0..DeepestLevel
      BY MycelialConstants
  <2> QED
      BY <1>1, <1>2, <1>7, <2>1 DEF MycelialTyped
<1>9. \A i \in 1..size : Childless(i)'
    BY <1>4, <1>5, <1>6 DEF Childless
<1>10. LevelsGrow'
  <2>1. 0 <= 0 /\ 0 >= 0
      OBVIOUS
  <2>2. \A i \in 1..size : nodes'[i].depth <= 0 /\ nodes'[i].parent = 0
      BY <1>5, <2>1
  <2> QED
      BY <1>1, <1>6, <2>2 DEF LevelsGrow
<1>11. inPlace => Judged'
  <2> SUFFICES ASSUME inPlace, NEW i \in 1..size
               PROVE  /\ nodes'[i].state = "validated" => nodes'[i].confidence >= validateAt
                      /\ nodes'[i].state = "pruned" => nodes'[i].confidence < PruneThreshold
                      /\ nodes'[i].state = "growing" => nodes'[i].confidence < validateAt
      BY <1>1, <1>5, <1>6, <1>9 DEF Judged
  <2>1. i \in 1..Len(nodes)
      BY <1>4
  <2>2. /\ nodes[i].state = "validated" => nodes[i].confidence >= validateAt
        /\ nodes[i].state = "pruned" => nodes[i].confidence < PruneThreshold
        /\ nodes[i].state = "growing" => nodes[i].confidence < validateAt
      BY <2>1 DEF MycelialIInv, Judged
  <2> QED
      BY <1>5, <2>2
<1>12. LeavesWait'
  <2>1. \A i \in 1..size : nodes'[i].depth >= 0
      BY <1>5
  <2> QED
      BY <1>1, <1>6, <2>1 DEF LeavesWait
<1>13. ~inPlace => Unjudged'
    BY <1>4, <1>5, <1>6 DEF MycelialIInv, Unjudged
<1>14. LinksAreAcross' /\ GrowthEndsForAReason' /\ VerdictsAreEnds'
    BY <1>1 DEF LinksAreAcross, GrowthEndsForAReason, VerdictsAreEnds
<1> QED
    BY <1>1, <1>8, <1>10, <1>11, <1>12, <1>13, <1>14 DEF MycelialIInv

LEMMA MycelialStarts == MycelialInit => MycelialIInv
<1> SUFFICES ASSUME MycelialInit PROVE MycelialIInv
    OBVIOUS
<1>1. /\ inPlace \in BOOLEAN /\ links = {} /\ level = 0 /\ toGrow = {} /\ built = FALSE
      /\ validateAt \in Nat
    BY MycelialConstants DEF MycelialInit
<1>2. PICK r \in 1..MaxRoots : \E modes \in [1..r -> 0..(ModeCount - 1)] :
          nodes = [i \in DOMAIN modes |-> Node(0, 0, modes[i], "seed", SproutConfidence)]
    BY DEF MycelialInit
<1>3. PICK modes \in [1..r -> 0..(ModeCount - 1)] :
          nodes = [i \in DOMAIN modes |-> Node(0, 0, modes[i], "seed", SproutConfidence)]
    BY <1>2
<1>4. r \in Nat /\ SproutConfidence \in Nat /\ \A i \in 1..r : modes[i] \in Nat
  <2>1. MaxRoots \in Nat /\ ModeCount \in Nat
      BY MycelialConstants, MycelialAssumption
  <2> QED
      BY <2>1, MycelialConstants
<1>5. \A i \in 1..r : /\ nodes[i] \in NodeRecord /\ nodes[i].parent = 0 /\ nodes[i].depth = 0
                      /\ nodes[i].state = "seed" /\ nodes[i] = Node(0, 0, modes[i], "seed", SproutConfidence)
  <2>1. \A i \in 1..r : nodes[i] = Node(0, 0, modes[i], "seed", SproutConfidence)
      BY <1>3
  <2> QED
      BY <1>4, <2>1 DEF Node, NodeRecord
<1>6. nodes \in Seq(NodeRecord) /\ Len(nodes) = r
  <2>1. nodes = [i \in 1..r |-> Node(0, 0, modes[i], "seed", SproutConfidence)]
      BY <1>3
  <2>2. \A i \in 1..r : Node(0, 0, modes[i], "seed", SproutConfidence) \in NodeRecord
      BY <1>5
  <2> QED
      BY <1>4, <2>1, <2>2
<1>7. \A i \in 1..r : i \in Nat /\ i > 0
    BY <1>4
<1>8. MycelialTyped
  <2>1. 0 \in 0..DeepestLevel
      BY MycelialConstants
  <2>2. Rooted(nodes)
      BY <1>5, <1>6, <1>7 DEF Rooted
  <2> QED
      BY <1>1, <2>1, <2>2 DEF MycelialTyped
<1>9. \A i \in 1..r : Childless(i)
    BY <1>5, <1>6, <1>7 DEF Childless
<1>10. LevelsGrow /\ Judged /\ LeavesWait /\ Unjudged
  <2>1. LevelsGrow
      BY <1>1, <1>5, <1>6 DEF LevelsGrow
  <2>2. Judged
      BY <1>5, <1>6, <1>9 DEF Judged
  <2>3. LeavesWait
      BY <1>1, <1>5, <1>6 DEF LeavesWait
  <2> QED
      BY <1>5, <1>6, <2>1, <2>2, <2>3 DEF Unjudged
<1>11. LinksAreAcross /\ GrowthEndsForAReason /\ VerdictsAreEnds
    BY <1>1 DEF LinksAreAcross, GrowthEndsForAReason, VerdictsAreEnds
<1> QED
    BY <1>8, <1>10, <1>11 DEF MycelialIInv

LEMMA MycelialStepKeeps == MycelialIInv /\ [MycelialNext]_mycelialVars => MycelialIInv'
<1> SUFFICES ASSUME MycelialIInv, [MycelialNext]_mycelialVars PROVE MycelialIInv'
    OBVIOUS
<1>1. CASE UNCHANGED mycelialVars
    BY <1>1 DEF mycelialVars, MycelialIInv, MycelialTyped, LevelsGrow, Childless, Judged, LeavesWait,
                Unjudged, LinksAreAcross, GrowthEndsForAReason, VerdictsAreEnds, Leaves, ChildrenOf
<1> QED
    BY <1>1, LevelBegins, NodeIsSkipped, NodeIsGrown, BuildFinishes, BuildBeginsAgain
    DEF MycelialNext

(* A path ends at its leaf; what completes a chain is the verdict on it.   *)
LEMMA MycelialIInvImplies == MycelialIInv => MycelialInv
<1> SUFFICES ASSUME MycelialIInv PROVE MycelialInv
    OBVIOUS
<1>1. /\ Rooted(nodes) /\ Len(nodes) \in Nat /\ inPlace \in BOOLEAN
      /\ \A i : i \in Leaves <=> i \in 1..Len(nodes) /\ Childless(i)
    BY LeavesAre DEF MycelialIInv, MycelialTyped
<1>2. ASSUME NEW leaf \in Leaves
      PROVE  Max(PathTo(leaf)) = leaf
  <2>1. leaf \in 1..Len(nodes)
      BY <1>1
  <2>2. AncestorsIn(nodes)[leaf] \subseteq 1..(leaf - 1)
      BY <1>1, <2>1, AncestorsAre
  <2>3. PathTo(leaf) = AncestorsIn(nodes)[leaf] \cup {leaf}
      BY DEF PathTo, Ancestors, AncestorsIn
  <2>4. \A i \in PathTo(leaf) : (i = leaf \/ i < leaf) /\ i \in Int
      BY <1>1, <2>1, <2>2, <2>3
  <2>5. leaf \in PathTo(leaf) /\ \A i \in PathTo(leaf) : leaf >= i
      BY <2>1, <2>3, <2>4
  <2>6. \A x \in PathTo(leaf) : (\A i \in PathTo(leaf) : x >= i) => x = leaf
      BY <2>4, <2>5
  <2> QED
      BY <2>5, <2>6 DEF Max
<1>3. OnlyInPlaceCompletes
  <2> SUFFICES ASSUME NEW leaf \in Leaves, Complete(PathTo(leaf)), ~inPlace
               PROVE  FALSE
      BY DEF OnlyInPlaceCompletes, Paths
  <2>1. nodes[leaf].state = "validated"
      BY <1>2 DEF Complete
  <2> QED
      BY <1>1, <2>1 DEF MycelialIInv, Unjudged
<1>4. LinksRunAcrossChains
  <2> SUFFICES ASSUME NEW leaf \in Leaves, NEW link \in links, link \subseteq PathTo(leaf)
               PROVE  FALSE
      BY DEF LinksRunAcrossChains, Paths
  <2>1. PICK i \in 1..Len(nodes), j \in 1..Len(nodes) :
            i < j /\ link = {i, j} /\ i \notin AncestorsIn(nodes)[j]
      BY DEF MycelialIInv, LinksAreAcross
  <2>2. PathTo(leaf) = AncestorsIn(nodes)[leaf] \cup {leaf} /\ leaf \in 1..Len(nodes)
      BY <1>1 DEF PathTo, Ancestors, AncestorsIn
  <2>3. i \in AncestorsIn(nodes)[leaf] \cup {leaf} /\ j \in AncestorsIn(nodes)[leaf] \cup {leaf}
      BY <2>1, <2>2
  <2> QED
      BY <1>1, <2>1, <2>2, <2>3, PathsAreChains
<1> QED
    BY <1>3, <1>4 DEF MycelialInv, MycelialIInv

(* Whatever the thresholds of the builder and of its context, and however  *)
(* often the network is built: growth in place ends at a verdict or at the *)
(* deepest level, a verdict is an end and is the confidence's, a chain     *)
(* grown of copies is never complete, for no verdict is carried back to    *)
(* it, and no hyphal link runs along one chain (build_network).            *)
THEOREM ChainsEndForAReason == MycelialSpec => []MycelialInv
<1>1. MycelialIInv /\ [MycelialNext]_mycelialVars => MycelialIInv'
    BY MycelialStepKeeps
<1> QED
    BY <1>1, MycelialStarts, MycelialIInvImplies, PTL DEF MycelialSpec

-----------------------------------------------------------------------------
(* The reasoning engine. *)

(* Groundings compare as fractions do. *)
Worth == Nat \X (Nat \ {0})

LEMMA WorthIs ==
    ASSUME NEW g \in Worth
    PROVE  g[1] \in Nat /\ g[2] \in Nat /\ g[2] > 0
BY DEF Worth

LEMMA FactorGoes ==
    ASSUME NEW a \in Nat, NEW b \in Nat, NEW c \in Nat, c > 0, a * c >= b * c
    PROVE  a >= b
<1>1. SUFFICES ASSUME b >= a + 1 PROVE FALSE
    OBVIOUS
<1>2. PICK d \in Nat : b = a + 1 + d
  <2>1. b - a - 1 \in Nat /\ b = a + 1 + (b - a - 1)
      BY <1>1
  <2> QED
      BY <2>1
<1>3. b * c = a * c + c + d * c
    BY <1>2
<1>4. d * c \in Nat /\ a * c \in Nat
    OBVIOUS
<1> QED
    BY <1>3, <1>4

LEMMA FactorComes ==
    ASSUME NEW a \in Nat, NEW b \in Nat, NEW c \in Nat, a >= b
    PROVE  a * c >= b * c
<1>1. PICK d \in Nat : a = b + d
  <2>1. a - b \in Nat /\ a = b + (a - b)
      OBVIOUS
  <2> QED
      BY <2>1
<1>2. a * c = b * c + d * c
    BY <1>1
<1>3. d * c \in Nat /\ b * c \in Nat
    OBVIOUS
<1> QED
    BY <1>2, <1>3

LEMMA AtLeastAsIsAnOrder ==
    ASSUME NEW g \in Worth, NEW h \in Worth
    PROVE  /\ AtLeastAs(g, h) \/ AtLeastAs(h, g)
           /\ AtLeastAs(g, g)
           /\ \A k \in Worth : AtLeastAs(g, h) /\ AtLeastAs(h, k) => AtLeastAs(g, k)
<1>1. ASSUME NEW x \in Worth, NEW y \in Worth PROVE x[1] * y[2] \in Nat
  <2>1. x[1] \in Nat /\ y[2] \in Nat
      BY WorthIs
  <2> QED
      BY <2>1
<1>2. AtLeastAs(g, h) \/ AtLeastAs(h, g)
  <2>1. g[1] * h[2] \in Nat /\ h[1] * g[2] \in Nat
      BY <1>1
  <2> QED
      BY <2>1 DEF AtLeastAs
<1>3. AtLeastAs(g, g)
  <2>1. g[1] * g[2] \in Nat
      BY <1>1
  <2> QED
      BY <2>1 DEF AtLeastAs
<1>4. ASSUME NEW k \in Worth, AtLeastAs(g, h), AtLeastAs(h, k)
      PROVE  AtLeastAs(g, k)
  <2>1. /\ g[1] \in Nat /\ g[2] \in Nat /\ h[1] \in Nat /\ h[2] \in Nat /\ h[2] > 0
        /\ k[1] \in Nat /\ k[2] \in Nat
      BY WorthIs
  <2>2. g[1] * h[2] >= h[1] * g[2] /\ h[1] * k[2] >= k[1] * h[2]
      BY <1>4 DEF AtLeastAs
  <2>3. g[1] * h[2] \in Nat /\ h[1] * g[2] \in Nat /\ h[1] * k[2] \in Nat /\ k[1] * h[2] \in Nat
        /\ g[1] * k[2] \in Nat /\ k[1] * g[2] \in Nat
      BY <1>1
  <2>4. (g[1] * h[2]) * k[2] >= (h[1] * g[2]) * k[2]
      BY <2>1, <2>2, <2>3, FactorComes
  <2>5. (h[1] * k[2]) * g[2] >= (k[1] * h[2]) * g[2]
      BY <2>1, <2>2, <2>3, FactorComes
  <2>6. /\ (g[1] * h[2]) * k[2] = (g[1] * k[2]) * h[2]
        /\ (h[1] * g[2]) * k[2] = (h[1] * k[2]) * g[2]
        /\ (k[1] * h[2]) * g[2] = (k[1] * g[2]) * h[2]
      BY <2>1
  <2>7. (g[1] * k[2]) * h[2] >= (k[1] * g[2]) * h[2]
    <3>1. ((g[1] * k[2]) * h[2]) \in Nat /\ ((h[1] * k[2]) * g[2]) \in Nat
          /\ ((k[1] * g[2]) * h[2]) \in Nat
        BY <2>1, <2>3
    <3> QED
        BY <2>4, <2>5, <2>6, <3>1
  <2>8. g[1] * k[2] >= k[1] * g[2]
      BY <2>1, <2>3, <2>7, FactorGoes
  <2> QED
      BY <2>8 DEF AtLeastAs
<1> QED
    BY <1>2, <1>3, <1>4

(* The first of the best, of any places to choose from.                    *)
FirstBest(S, worth, i) ==
    i \in S /\ \A j \in S : /\ AtLeastAs(worth[i], worth[j])
                            /\ AtLeastAs(worth[j], worth[i]) => i <= j

LEMMA SomethingIsBest ==
    ASSUME NEW last \in Nat, NEW worth, \A i \in 1..last : worth[i] \in Worth,
           NEW S \in SUBSET (1..last), S # {}
    PROVE  \E i \in S : FirstBest(S, worth, i)
<1> DEFINE Upto(k) == {i \in S : i <= k}
           good == {k \in 0..last : Upto(k) # {} => \E i \in Upto(k) : FirstBest(Upto(k), worth, i)}
<1>0. \A i \in S : i \in Nat /\ ~(i <= 0) /\ i <= last
    OBVIOUS
<1>1. 0 \in good
  <2>1. Upto(0) = {}
      BY <1>0
  <2> QED
      BY <2>1
<1>2. ASSUME NEW k \in 1..last, k - 1 \in good
      PROVE  k \in good
  <2>1. k \in 0..last /\ worth[k] \in Worth /\ k \in Nat
      OBVIOUS
  <2>2. CASE k \notin S
    <3>1. \A i \in S : i <= k <=> i <= k - 1
        BY <1>0, <2>1, <2>2
    <3>2. Upto(k) = Upto(k - 1)
        BY <3>1
    <3> QED
        BY <1>2, <2>1, <3>2
  <2>3. CASE k \in S
    <3>1. Upto(k) = Upto(k - 1) \cup {k} /\ \A j \in Upto(k - 1) : j < k /\ worth[j] \in Worth
      <4>1. \A i \in S : i <= k <=> i <= k - 1 \/ i = k
          BY <1>0, <2>1
      <4>2. Upto(k) = Upto(k - 1) \cup {k}
          BY <2>3, <4>1
      <4>3. \A i \in S : i <= k - 1 => i < k
          BY <1>0, <2>1
      <4> QED
          BY <4>2, <4>3
    <3>2. CASE Upto(k - 1) = {}
      <4>1. Upto(k) = {k}
          BY <3>1, <3>2
      <4>2. FirstBest({k}, worth, k)
          BY <2>1, AtLeastAsIsAnOrder DEF FirstBest
      <4> QED
          BY <2>1, <4>1, <4>2
    <3>3. CASE Upto(k - 1) # {}
      <4>1. PICK i \in Upto(k - 1) : FirstBest(Upto(k - 1), worth, i)
          BY <1>2, <3>3
      <4>2. i < k /\ worth[i] \in Worth /\ i \in Int /\ k \in Int
          BY <3>1, <2>1
      <4> HIDE DEF Upto
      <4>3. CASE AtLeastAs(worth[i], worth[k])
        <5>1. \A j \in Upto(k) : /\ AtLeastAs(worth[i], worth[j])
                                 /\ AtLeastAs(worth[j], worth[i]) => i <= j
            BY <3>1, <4>1, <4>2, <4>3 DEF FirstBest
        <5> QED
            BY <2>1, <3>1, <5>1 DEF FirstBest
      <4>4. CASE ~AtLeastAs(worth[i], worth[k])
        <5>1. AtLeastAs(worth[k], worth[i])
            BY <2>1, <4>2, <4>4, AtLeastAsIsAnOrder
        <5>2. ASSUME NEW j \in Upto(k)
              PROVE  /\ AtLeastAs(worth[k], worth[j])
                     /\ AtLeastAs(worth[j], worth[k]) => k <= j
          <6>1. CASE j = k
              BY <2>1, <4>2, <6>1, AtLeastAsIsAnOrder
          <6>2. CASE j # k
            <7>1. j \in Upto(k - 1) /\ worth[j] \in Worth
                BY <3>1, <6>2
            <7>2. AtLeastAs(worth[i], worth[j])
                BY <4>1, <7>1 DEF FirstBest
            <7>3. AtLeastAs(worth[k], worth[j])
                BY <2>1, <4>2, <5>1, <7>1, <7>2, AtLeastAsIsAnOrder
            <7>4. ~AtLeastAs(worth[j], worth[k])
                BY <2>1, <4>2, <4>4, <7>1, <7>2, AtLeastAsIsAnOrder
            <7> QED
                BY <7>3, <7>4
          <6> QED
              BY <6>1, <6>2
        <5> QED
            BY <2>1, <3>1, <5>2 DEF FirstBest
      <4> QED
          BY <4>3, <4>4
    <3> QED
        BY <3>2, <3>3
  <2> QED
      BY <2>2, <2>3
<1>3. \A k \in 0..last : k \in good
  <2> HIDE DEF good
  <2> QED
      BY <1>1, <1>2, CountingUp
<1>4. last \in 0..last /\ Upto(last) = S
  <2>1. Upto(last) = S
      BY <1>0
  <2> QED
      BY <2>1
<1>5. last \in good
    BY <1>3, <1>4
<1> QED
    BY <1>4, <1>5

(* Min picks the least. *)
LEMMA LeastIs ==
    ASSUME NEW S \in SUBSET Nat, S # {}
    PROVE  Min(S) \in S /\ \A i \in S : Min(S) <= i
<1>1. \E i \in S : \A j \in S : i <= j
    BY LeastIndex
<1> QED
    BY <1>1 DEF Min

HypothesisRecord ==
    [mode : Modes, state : {"seed", "growing", "validated", "pruned", "error"},
     grounding : Nat, confidence : Nat, iteration : Nat]
GrownChain == {chain \in Seq(HypothesisRecord) : Len(chain) > 0}

LEMMA ChainIs ==
    ASSUME NEW chain \in GrownChain
    PROVE  /\ Len(chain) \in Nat /\ Len(chain) > 0 /\ DOMAIN chain = 1..Len(chain)
           /\ Len(chain) \in 1..Len(chain)
           /\ \A i \in 1..Len(chain) : chain[i] \in HypothesisRecord
           /\ Last(chain) = chain[Len(chain)] /\ Last(chain) \in HypothesisRecord
<1>1. /\ Len(chain) \in Nat /\ Len(chain) > 0 /\ DOMAIN chain = 1..Len(chain)
      /\ \A i \in 1..Len(chain) : chain[i] \in HypothesisRecord
    BY DEF GrownChain
<1>2. Len(chain) \in 1..Len(chain)
    BY <1>1
<1> QED
    BY <1>1, <1>2 DEF Last

LEMMA ActiveAre ==
    ASSUME NEW chain \in GrownChain
    PROVE  /\ ActiveIn(chain) \subseteq 1..Len(chain)
           /\ \A i \in 1..Len(chain) : i \in ActiveIn(chain) <=> chain[i].state \notin {"pruned", "error"}
           /\ IsFiniteSet(ActiveIn(chain)) /\ Cardinality(ActiveIn(chain)) \in Nat
           /\ ActiveIn(chain) # {} => Cardinality(ActiveIn(chain)) > 0
<1>1. /\ ActiveIn(chain) \subseteq 1..Len(chain)
      /\ \A i \in 1..Len(chain) : i \in ActiveIn(chain) <=> chain[i].state \notin {"pruned", "error"}
    BY ChainIs DEF ActiveIn, Inactive
<1>2. IsFiniteSet(ActiveIn(chain)) /\ Cardinality(ActiveIn(chain)) \in Nat
  <2>1. IsFiniteSet(1..Len(chain))
      BY ChainIs, FS_Interval
  <2>2. IsFiniteSet(ActiveIn(chain))
      BY <1>1, <2>1, FS_Subset
  <2> QED
      BY <2>2, FS_CardinalityType
<1>3. ActiveIn(chain) # {} => Cardinality(ActiveIn(chain)) # 0
    BY <1>2, FS_EmptySet
<1> QED
    BY <1>1, <1>2, <1>3

(* The grounding of a chain is a fraction: a sum over at least one.        *)
LEMMA TotalGroundingIs ==
    ASSUME NEW chain \in GrownChain
    PROVE  TotalGrounding(chain) \in Worth
<1> DEFINE last == Len(chain)
           active == ActiveIn(chain)
           Worthy(i) == IF i \in ActiveIn(chain) THEN chain[i].grounding ELSE 0
           Follows(sum) == sum = [i \in 0..Len(chain) |->
               IF i = 0 THEN 0
               ELSE sum[i - 1] + (IF i \in ActiveIn(chain) THEN chain[i].grounding ELSE 0)]
           total == CHOOSE sum : Follows(sum)
           move == [k \in 1..last |-> [v \in Nat |-> v + Worthy(k)]]
<1>1. /\ last \in Nat /\ active \subseteq 1..last /\ Cardinality(active) \in Nat
      /\ active # {} => Cardinality(active) > 0
    BY ChainIs, ActiveAre
<1>2. \A i \in 1..last : Worthy(i) \in Nat
  <2>1. \A i \in 1..last : chain[i].grounding \in Nat
      BY ChainIs DEF HypothesisRecord
  <2> QED
      BY <2>1
<1>3. TotalGrounding(chain) = IF active = {} THEN <<0, 1>> ELSE <<total[last], Cardinality(active)>>
    BY DEF TotalGrounding
<1> HIDE DEF last, active, Worthy
<1>4. \A k \in 1..last : \A v \in Nat : move[k][v] = v + Worthy(k)
    OBVIOUS
<1>5. StepsStay(Nat, last, move)
    BY <1>2, <1>4 DEF StepsStay
<1> HIDE DEF move
<1>6. PICK on : IsTheWay(on, Nat, 0, last, move)
    BY <1>1, <1>5, StepsAreAFunction
<1>7. on \in [0..last -> Nat] /\ on[0] = 0 /\ \A k \in 1..last : on[k] = move[k][on[k - 1]]
    BY <1>6 DEF IsTheWay
<1>8. \A k \in 1..last : k - 1 \in 0..last
    BY <1>1
<1>9. Follows(on)
  <2>1. \A k \in 0..last : on[k] = (IF k = 0 THEN 0 ELSE on[k - 1] +
              (IF k \in ActiveIn(chain) THEN chain[k].grounding ELSE 0))
    <3> SUFFICES ASSUME NEW k \in 0..last
                 PROVE  on[k] = (IF k = 0 THEN 0 ELSE on[k - 1] +
                            (IF k \in ActiveIn(chain) THEN chain[k].grounding ELSE 0))
        OBVIOUS
    <3>1. CASE k = 0
        BY <1>7, <3>1
    <3>2. CASE k # 0
      <4>1. k \in 1..last
          BY <1>1, <3>2
      <4>2. on[k] = on[k - 1] + Worthy(k)
          BY <1>4, <1>7, <1>8, <4>1
      <4> QED
          BY <3>2, <4>2 DEF Worthy
    <3> QED
        BY <3>1, <3>2
  <2>2. on = [k \in 0..last |-> on[k]]
      BY <1>7
  <2> QED
      BY <2>1, <2>2 DEF last
<1>10. Follows(total)
    BY <1>9
<1> HIDE DEF total
<1>11. \A k \in 0..last : total[k] = (IF k = 0 THEN 0 ELSE total[k - 1] + Worthy(k))
    BY <1>10 DEF last, Worthy
<1> DEFINE good == {k \in 0..last : total[k] \in Nat}
<1>12. 0 \in good
    BY <1>1, <1>11
<1>13. ASSUME NEW k \in 1..last, k - 1 \in good
       PROVE  k \in good
  <2>1. k \in 0..last /\ k # 0 /\ total[k - 1] \in Nat
      BY <1>1, <1>13
  <2>2. total[k] = total[k - 1] + Worthy(k) /\ Worthy(k) \in Nat
      BY <1>2, <1>11, <2>1
  <2> QED
      BY <2>1, <2>2
<1>14. total[last] \in Nat
  <2> HIDE DEF good
  <2>1. \A k \in 0..last : k \in good
      BY <1>1, <1>12, <1>13, CountingUp
  <2>2. last \in 0..last
      BY <1>1
  <2> QED
      BY <2>1, <2>2 DEF good
<1> QED
  <2>1. CASE active = {}
      BY <1>3, <2>1 DEF Worth
  <2>2. CASE active # {}
      BY <1>1, <1>3, <1>14, <2>2 DEF Worth
  <2> QED
      BY <2>1, <2>2

(* The most confident hypothesis is an active one.                         *)
LEMMA MostConfidentIs ==
    ASSUME NEW chain \in GrownChain, ActiveIn(chain) # {}
    PROVE  MostConfident(chain) \in ActiveIn(chain)
<1> DEFINE worth == [i \in 1..Len(chain) |-> <<chain[i].confidence, 1>>]
           tops == {i \in ActiveIn(chain) :
                       \A j \in ActiveIn(chain) : chain[j].confidence <= chain[i].confidence}
<1>1. /\ Len(chain) \in Nat /\ ActiveIn(chain) \subseteq 1..Len(chain)
      /\ \A i \in 1..Len(chain) : chain[i].confidence \in Nat
    BY ChainIs, ActiveAre DEF HypothesisRecord
<1>2. \A i \in 1..Len(chain) : worth[i] = <<chain[i].confidence, 1>> /\ worth[i] \in Worth
    BY <1>1 DEF Worth
<1> HIDE DEF worth
<1>3. PICK i \in ActiveIn(chain) : FirstBest(ActiveIn(chain), worth, i)
    BY <1>1, <1>2, SomethingIsBest
<1>4. ASSUME NEW j \in ActiveIn(chain) PROVE chain[j].confidence <= chain[i].confidence
  <2>1. AtLeastAs(<<chain[i].confidence, 1>>, <<chain[j].confidence, 1>>)
      BY <1>1, <1>2, <1>3 DEF FirstBest
  <2>2. chain[i].confidence * 1 >= chain[j].confidence * 1
      BY <2>1 DEF AtLeastAs
  <2> QED
      BY <1>1, <2>2
<1>5. i \in tops
    BY <1>4
<1>6. tops \in SUBSET Nat /\ tops # {}
    BY SMTT(30), <1>1, <1>5
<1>7. MostConfident(chain) = Min(tops)
    BY DEF MostConfident
<1> HIDE DEF tops
<1>8. MostConfident(chain) \in tops
    BY <1>6, <1>7, LeastIs
<1> QED
    BY <1>8 DEF tops

(* A chain without confidence at its end has an inactive one there.        *)
EndIsSound(chain) == Last(chain).confidence = 0 => Last(chain).state \in {"error", "pruned"}

SolvePhases == {"seeds", "chains", "diversity", "synthesis", "guardian", "done"}

ReasoningTyped ==
    /\ phase \in SolvePhases /\ modesLeft \in Seq(Modes)
    /\ chains \in Seq(GrownChain) /\ Len(chains) <= MaxSeeds
    /\ growing \in Nat \ {0} /\ iterations \in Nat
    /\ reviews \subseteq 1..Len(chains) /\ preserved \in Seq(1..Len(chains))
    /\ solution \in [best : Nat, grounding : Worth, alternatives : SUBSET Nat,
                     badges : SUBSET {"no hypotheses", "alone", "anchored", "contested", "errors"}]

GroundingOf(i) == TotalGrounding(chains[i])

(* What is preserved: every chain once at most, of every mode one, modes   *)
(* repeating only within the quota; all of them, or the best first.        *)
SoundSelection(kept) ==
    /\ kept \in Seq(1..Len(chains))
    /\ \A k, l \in 1..Len(kept) : kept[k] = kept[l] => k = l
    /\ \A i \in 1..Len(chains) : \E k \in 1..Len(kept) : ModeOf(kept[k]) = ModeOf(i)
    /\ \A k, l \in 1..Len(kept) :
          (k < l /\ l > MinAlternatives) => ModeOf(kept[k]) # ModeOf(kept[l])
    /\ IF Len(chains) <= MinAlternatives
       THEN Len(kept) = Len(chains) /\ \A i \in 1..Len(chains) : kept[i] = i
       ELSE Len(kept) > 0 /\ \A i \in 1..Len(chains) : AtLeastAs(GroundingOf(kept[1]), GroundingOf(i))

ReasoningIInv ==
    /\ ReasoningTyped
    /\ phase \in {"seeds", "chains", "diversity"} => preserved = <<>>
    /\ phase \in {"seeds", "chains"} => reviews = {}
    /\ \A i \in 1..Len(chains) : EndIsSound(chains[i])
    /\ phase \notin {"seeds", "chains"} =>
          \A i \in 1..Len(chains) : Errored(chains[i]) => i \in reviews
    /\ phase \in {"synthesis", "guardian", "done"} => SoundSelection(preserved)
    /\ phase \in {"guardian", "done"} => SolutionIsTheBest
    /\ phase = "done" =>
          ((\E i \in ToSet(preserved) : Errored(chains[i])) => "errors" \in solution.badges)

LEMMA ReasoningConstants ==
    /\ ModeOrder \in Seq(Modes) /\ MaxSeeds \in Nat /\ MinAlternatives \in Nat
    /\ Weights \subseteq Nat /\ Confidences \subseteq Nat
    /\ SeedConfidence \in Nat \ {0} /\ PruneBelow \in Nat \ {0}
    /\ ConfidenceThreshold \in Nat \ {0}
BY ReasoningAssumption DEF Modes

LEMMA ChainsAre ==
    ASSUME ReasoningTyped
    PROVE  /\ Len(chains) \in Nat /\ DOMAIN chains = 1..Len(chains)
           /\ \A i \in 1..Len(chains) : chains[i] \in GrownChain /\ GroundingOf(i) \in Worth
<1>1. chains \in Seq(GrownChain)
    BY DEF ReasoningTyped
<1>2. /\ Len(chains) \in Nat /\ DOMAIN chains = 1..Len(chains)
      /\ \A i \in 1..Len(chains) : chains[i] \in GrownChain
    BY <1>1
<1> QED
    BY <1>2, TotalGroundingIs DEF GroundingOf

(* A chain with another end.                                               *)
LEMMA OtherEnd ==
    ASSUME NEW chain \in GrownChain, NEW x \in HypothesisRecord, NEW y \in HypothesisRecord
    PROVE  /\ Front(chain) \o <<x>> \in GrownChain /\ Last(Front(chain) \o <<x>>) = x
           /\ Front(chain) \o <<x, y>> \in GrownChain /\ Last(Front(chain) \o <<x, y>>) = y
<1>1. chain \in Seq(HypothesisRecord) /\ Len(chain) \in Nat /\ Len(chain) > 0
    BY DEF GrownChain
<1>2. PICK front \in Seq(HypothesisRecord) : front = Front(chain)
  <2>1. Front(chain) = SubSeq(chain, 1, Len(chain) - 1)
      BY DEF Front
  <2>2. \A i \in 1..(Len(chain) - 1) : chain[i] \in HypothesisRecord
      BY <1>1
  <2>3. SubSeq(chain, 1, Len(chain) - 1) \in Seq(HypothesisRecord)
      BY <1>1, <2>2
  <2> QED
      BY <2>1, <2>3
<1>3. Len(front) \in Nat
    OBVIOUS
<1>4. /\ <<x>> \in Seq(HypothesisRecord) /\ Len(<<x>>) = 1 /\ <<x>>[1] = x
      /\ <<x, y>> \in Seq(HypothesisRecord) /\ Len(<<x, y>>) = 2 /\ <<x, y>>[2] = y
    OBVIOUS
<1>5. ASSUME NEW ending \in Seq(HypothesisRecord), Len(ending) \in {1, 2}
      PROVE  /\ front \o ending \in GrownChain
             /\ Last(front \o ending) = ending[Len(ending)]
  <2>1. front \o ending \in Seq(HypothesisRecord) /\ Len(front \o ending) = Len(front) + Len(ending)
      BY ConcatProperties
  <2>2. PICK old \in Nat, new \in 1..2 : old = Len(front) /\ new = Len(ending)
      BY <1>3, <1>5
  <2>3. /\ old + new > 0 /\ old + new \in 1..(old + new) /\ ~(old + new <= old)
        /\ (old + new) - old = new
      BY <2>2
  <2>4. \A i \in 1..(Len(front) + Len(ending)) :
            (front \o ending)[i] = IF i <= Len(front) THEN front[i] ELSE ending[i - Len(front)]
      BY ConcatProperties
  <2>5. (front \o ending)[old + new] = ending[new]
      BY <2>2, <2>3, <2>4
  <2> QED
      BY <2>1, <2>2, <2>3, <2>5 DEF GrownChain, Last
<1> QED
    BY <1>2, <1>4, <1>5

(* A mode has a next one. *)
LEMMA ModeAfterIs ==
    ASSUME NEW mode \in Modes
    PROVE  ModeAfter(mode) \in Modes
<1> DEFINE place == CHOOSE j \in DOMAIN ModeOrder : ModeOrder[j] = mode
<1>1. /\ Len(ModeOrder) \in Nat /\ DOMAIN ModeOrder = 1..Len(ModeOrder)
      /\ \A j \in 1..Len(ModeOrder) : ModeOrder[j] \in Modes
    BY ReasoningConstants
<1>2. \E j \in DOMAIN ModeOrder : ModeOrder[j] = mode
    BY DEF Modes, ToSet
<1>3. place \in 1..Len(ModeOrder)
    BY <1>1, <1>2
<1>4. ModeAfter(mode) = ModeOrder[(place % Len(ModeOrder)) + 1]
    BY DEF ModeAfter
<1> HIDE DEF place
<1>5. (place % Len(ModeOrder)) + 1 \in 1..Len(ModeOrder)
    BY <1>1, <1>3
<1> QED
    BY <1>1, <1>4, <1>5

(* Seeds are generated, or the modes are through. *)
LEMMA SeedsGrow ==
    ASSUME ReasoningIInv, GenerateSeeds \/ SeedsDone
    PROVE  ReasoningIInv'
<1>1. ReasoningTyped /\ phase = "seeds"
    BY DEF ReasoningIInv, GenerateSeeds, SeedsDone
<1>2. preserved = <<>> /\ reviews = {}
    BY <1>1 DEF ReasoningIInv
<1>3. CASE SeedsDone
  <2>1. ReasoningTyped'
      BY <1>1, <1>3 DEF SeedsDone, ReasoningTyped, SolvePhases
  <2> QED
      BY <1>1, <1>2, <1>3, <2>1 DEF SeedsDone, ReasoningIInv
<1>4. CASE GenerateSeeds
  <2>1. PICK n \in 0..MaxSeeds :
            /\ modesLeft # <<>> /\ Len(chains) + n <= MaxSeeds
            /\ chains' = chains \o [i \in 1..n |-> <<Hypothesis(Head(modesLeft), SeedConfidence, 0)>>]
            /\ modesLeft' = Tail(modesLeft)
            /\ UNCHANGED <<phase, growing, iterations, reviews, preserved, solution>>
      BY <1>4 DEF GenerateSeeds
  <2> DEFINE seed == Hypothesis(Head(modesLeft), SeedConfidence, 0)
             new == [i \in 1..n |-> <<seed>>]
  <2>2. n \in Nat
      BY ReasoningConstants
  <2>3. Head(modesLeft) \in Modes /\ Tail(modesLeft) \in Seq(Modes)
      BY <1>1, <2>1, HeadTailProperties DEF ReasoningTyped
  <2>4. seed \in HypothesisRecord /\ seed.confidence = SeedConfidence
      BY <2>3, ReasoningConstants DEF Hypothesis, HypothesisRecord
  <2> HIDE DEF seed
  <2>5. <<seed>> \in GrownChain /\ Last(<<seed>>) = seed
    <3>1. <<seed>> \in Seq(HypothesisRecord) /\ Len(<<seed>>) = 1 /\ <<seed>>[1] = seed
        BY <2>4
    <3> QED
        BY <3>1 DEF GrownChain, Last
  <2>6. EndIsSound(<<seed>>)
      BY <2>4, <2>5, ReasoningConstants DEF EndIsSound
  <2>7. new \in Seq(GrownChain) /\ Len(new) = n /\ \A i \in 1..n : new[i] = <<seed>>
      BY <2>2, <2>5
  <2>8. chains' = chains \o new
      BY <2>1 DEF seed
  <2> HIDE DEF new
  <2>9. chains \in Seq(GrownChain) /\ Len(chains) \in Nat
      BY <1>1, ChainsAre DEF ReasoningTyped
  <2>10. /\ chains' \in Seq(GrownChain) /\ Len(chains') = Len(chains) + n
         /\ \A i \in 1..(Len(chains) + n) :
               chains'[i] = IF i <= Len(chains) THEN chains[i] ELSE new[i - Len(chains)]
      BY <2>7, <2>8, <2>9, ConcatProperties
  <2>11. \A i \in 1..Len(chains') : EndIsSound(chains'[i])
    <3> SUFFICES ASSUME NEW i \in 1..(Len(chains) + n)
                 PROVE  EndIsSound(chains'[i])
        BY <2>10
    <3>1. CASE i <= Len(chains)
      <4>1. i \in 1..Len(chains) /\ chains'[i] = chains[i]
          BY <2>2, <2>9, <2>10, <3>1
      <4> QED
          BY <4>1 DEF ReasoningIInv
    <3>2. CASE ~(i <= Len(chains))
      <4>1. i - Len(chains) \in 1..n /\ chains'[i] = new[i - Len(chains)]
          BY <2>2, <2>9, <2>10, <3>2
      <4> QED
          BY <2>6, <2>7, <4>1
    <3> QED
        BY <3>1, <3>2
  <2>12. ReasoningTyped'
    <3>1. <<>> \in Seq(1..Len(chains'))
        OBVIOUS
    <3> QED
        BY <1>1, <1>2, <2>1, <2>3, <2>10, <3>1 DEF ReasoningTyped
  <2> QED
      BY <1>1, <1>2, <2>1, <2>11, <2>12 DEF ReasoningIInv
<1> QED
    BY <1>3, <1>4

(* A chain that grows has another end. *)
LEMMA ChainGrows ==
    ASSUME ReasoningIInv, phase = "chains", growing <= Len(chains), NEW chain \in GrownChain,
           EndIsSound(chain), chains' = [chains EXCEPT ![growing] = chain],
           growing' \in Nat \ {0}, iterations' \in Nat,
           UNCHANGED <<phase, modesLeft, reviews, preserved, solution>>
    PROVE  ReasoningIInv'
<1>0. ReasoningTyped /\ preserved = <<>> /\ reviews = {}
    BY DEF ReasoningIInv
<1>1. chains \in Seq(GrownChain) /\ Len(chains) \in Nat /\ growing \in 1..Len(chains)
  <2>1. growing \in Nat \ {0} /\ chains \in Seq(GrownChain)
      BY <1>0 DEF ReasoningTyped
  <2>2. Len(chains) \in Nat
      BY <1>0, ChainsAre
  <2> QED
      BY <2>1, <2>2
<1>2. /\ chains' \in Seq(GrownChain) /\ Len(chains') = Len(chains)
      /\ \A i \in 1..Len(chains) : chains'[i] = IF i = growing THEN chain ELSE chains[i]
    BY <1>1
<1>3. ReasoningTyped'
    BY <1>0, <1>1, <1>2 DEF ReasoningTyped
<1>4. \A i \in 1..Len(chains') : EndIsSound(chains'[i])
    BY <1>2 DEF ReasoningIInv
<1> QED
    BY <1>0, <1>1, <1>3, <1>4 DEF ReasoningIInv

(* An iteration refines the last hypothesis of the chain, or fails at it,  *)
(* or there are no more iterations.                                        *)
LEMMA IterationsGrow ==
    ASSUME ReasoningIInv, IterateChain \/ IterationFails \/ IterationsOver
    PROVE  ReasoningIInv'
<1>1. /\ phase = "chains" /\ growing <= Len(chains) /\ growing \in 1..Len(chains)
      /\ chains[growing] \in GrownChain /\ EndIsSound(chains[growing])
      /\ growing + 1 \in Nat \ {0} /\ 0 \in Nat /\ iterations + 1 \in Nat
      /\ growing \in Nat \ {0}
  <2>1. phase = "chains" /\ growing <= Len(chains)
      BY DEF IterateChain, IterationFails, IterationsOver, Growing
  <2>2. growing \in Nat \ {0} /\ iterations \in Nat /\ Len(chains) \in Nat
      BY ChainsAre DEF ReasoningIInv, ReasoningTyped
  <2>3. growing \in 1..Len(chains)
      BY <2>1, <2>2
  <2> QED
      BY <2>1, <2>2, <2>3, ChainsAre DEF ReasoningIInv
<1> DEFINE chain == chains[growing]
<1>2. Last(chain) \in HypothesisRecord
    BY <1>1, ChainIs
<1>3. ASSUME NEW g \in Nat, NEW c \in Nat, NEW s \in {"growing", "validated", "pruned", "error"}
      PROVE  /\ Refined(g, c, s) \in HypothesisRecord
             /\ Refined(g, c, s).confidence = c /\ Refined(g, c, s).state = s
             /\ Refined(g, c, s).iteration \in Nat
    BY <1>2 DEF Refined, HypothesisRecord
<1> HIDE DEF chain
<1>4. ASSUME NEW new \in GrownChain, EndIsSound(new), CloseChain(new)
      PROVE  ReasoningIInv'
    BY <1>1, <1>4, ChainGrows DEF CloseChain
<1>5. ASSUME NEW x \in HypothesisRecord, x.confidence # 0 \/ x.state \in {"error", "pruned"},
             CloseChain(Front(chain) \o <<x>>)
      PROVE  ReasoningIInv'
  <2>1. Front(chain) \o <<x>> \in GrownChain /\ Last(Front(chain) \o <<x>>) = x
      BY <1>1, OtherEnd DEF chain
  <2> QED
      BY <1>4, <1>5, <2>1 DEF EndIsSound
<1>6. CASE IterationsOver
    BY <1>1, <1>4, <1>6 DEF IterationsOver
<1>7. CASE IterationFails
  <2>1. CloseChain(Front(chain) \o <<Refined(0, 0, "error")>>)
      BY <1>7 DEF IterationFails, Ended, chain
  <2>2. Refined(0, 0, "error") \in HypothesisRecord /\ Refined(0, 0, "error").state = "error"
      BY <1>3
  <2> QED
      BY <1>5, <2>1, <2>2
<1>8. CASE IterateChain
  <2>1. PICK g \in Weights, c \in Confidences :
            IF c < PruneBelow
            THEN CloseChain(Front(chain) \o <<Ended(c, "pruned")>>)
            ELSE IF c >= ConfidenceThreshold
            THEN CloseChain(Front(chain) \o <<Refined(g, c, "validated")>>)
            ELSE /\ chains' = [chains EXCEPT ![growing] =
                        Front(chain) \o <<Refined(g, c, "growing"), Child(Refined(g, c, "growing"))>>]
                 /\ iterations' = iterations + 1
                 /\ UNCHANGED <<phase, modesLeft, growing, reviews, preserved, solution>>
      BY <1>1, <1>8, ChainsAre DEF IterateChain, chain, ReasoningIInv
  <2>2. g \in Nat /\ c \in Nat /\ PruneBelow \in Nat \ {0}
      BY ReasoningConstants
  <2>3. CASE c < PruneBelow
    <3>1. CloseChain(Front(chain) \o <<Refined(0, c, "pruned")>>)
        BY <2>1, <2>3 DEF Ended
    <3>2. Refined(0, c, "pruned") \in HypothesisRecord /\ Refined(0, c, "pruned").state = "pruned"
        BY <1>3, <2>2
    <3> QED
        BY <1>5, <3>1, <3>2
  <2>4. CASE ~(c < PruneBelow) /\ c >= ConfidenceThreshold
    <3>1. c # 0
        BY <2>2, <2>4
    <3>2. CloseChain(Front(chain) \o <<Refined(g, c, "validated")>>)
        BY <2>1, <2>4
    <3>3. Refined(g, c, "validated") \in HypothesisRecord /\ Refined(g, c, "validated").confidence = c
        BY <1>3, <2>2
    <3> QED
        BY <1>5, <3>1, <3>2, <3>3
  <2>5. CASE ~(c < PruneBelow) /\ ~(c >= ConfidenceThreshold)
    <3> DEFINE refined == Refined(g, c, "growing")
    <3>1. c # 0
        BY <2>2, <2>5
    <3>2. refined \in HypothesisRecord /\ refined.confidence = c
        BY <1>3, <2>2
    <3> HIDE DEF refined
    <3>3. Child(refined) \in HypothesisRecord /\ Child(refined).confidence = c
      <4>1. refined.mode \in Modes /\ ModeAfter(refined.mode) \in Modes /\ refined.iteration + 1 \in Nat
          BY <3>2, ModeAfterIs DEF HypothesisRecord
      <4> QED
          BY <2>2, <3>2, <4>1 DEF Child, Hypothesis, HypothesisRecord
    <3>4. /\ Front(chain) \o <<refined, Child(refined)>> \in GrownChain
          /\ Last(Front(chain) \o <<refined, Child(refined)>>) = Child(refined)
      <4>1. chain \in GrownChain
          BY <1>1 DEF chain
      <4>2. PICK child \in HypothesisRecord : child = Child(refined)
          BY <3>3
      <4>3. /\ Front(chain) \o <<refined, child>> \in GrownChain
            /\ Last(Front(chain) \o <<refined, child>>) = child
        <5>1. PICK parent \in HypothesisRecord : parent = refined
            BY <3>2
        <5>2. /\ Front(chain) \o <<parent, child>> \in GrownChain
              /\ Last(Front(chain) \o <<parent, child>>) = child
            BY ZenonT(30), <4>1, OtherEnd
        <5> QED
            BY <5>1, <5>2
      <4> QED
          BY <4>2, <4>3
    <3>5. EndIsSound(Front(chain) \o <<refined, Child(refined)>>)
        BY <3>1, <3>3, <3>4 DEF EndIsSound
    <3>6. /\ chains' = [chains EXCEPT ![growing] = Front(chain) \o <<refined, Child(refined)>>]
          /\ iterations' = iterations + 1
          /\ UNCHANGED <<phase, modesLeft, growing, reviews, preserved, solution>>
        BY <2>1, <2>5 DEF refined
    <3> QED
        BY <1>1, <3>4, <3>5, <3>6, ChainGrows
  <2> QED
      BY <2>3, <2>4, <2>5
<1> QED
    BY <1>6, <1>7, <1>8

(* Validation touches active hypotheses only. *)
LEMMA ValidatedIs ==
    ASSUME NEW chain \in GrownChain, EndIsSound(chain)
    PROVE  Validated(chain) \in GrownChain /\ EndIsSound(Validated(chain))
<1> DEFINE top == MostConfident(chain)
           other == [chain EXCEPT ![top].state = "validated"]
<1>1. CASE Validated(chain) = chain
    BY <1>1
<1>2. CASE ActiveIn(chain) # {} /\ Validated(chain) = other
  <2>1. top \in ActiveIn(chain) /\ top \in 1..Len(chain) /\ chain[top].state \notin {"error", "pruned"}
      BY <1>2, MostConfidentIs, ActiveAre
  <2>2. /\ chain \in Seq(HypothesisRecord) /\ Len(chain) \in Nat /\ Len(chain) > 0
        /\ chain[top] \in HypothesisRecord /\ Last(chain) = chain[Len(chain)]
        /\ Len(chain) \in 1..Len(chain)
      BY <2>1, ChainIs DEF GrownChain
  <2> HIDE DEF top
  <2> DEFINE better == [chain[top] EXCEPT !.state = "validated"]
  <2>3. better \in HypothesisRecord /\ better.confidence = chain[top].confidence
      BY <2>2 DEF HypothesisRecord
  <2>4. other = [chain EXCEPT ![top] = better]
      BY <2>1, <2>2 DEF HypothesisRecord
  <2> HIDE DEF better, other
  <2>5. /\ other \in Seq(HypothesisRecord) /\ Len(other) = Len(chain)
        /\ other[Len(chain)] = IF Len(chain) = top THEN better ELSE chain[Len(chain)]
      BY <2>1, <2>2, <2>3, <2>4
  <2>6. other \in GrownChain /\ Last(other) = other[Len(chain)]
      BY <2>2, <2>5 DEF GrownChain, Last
  <2>7. EndIsSound(other)
    <3>1. CASE Len(chain) = top
        BY <2>1, <2>2, <2>3, <2>5, <2>6, <3>1 DEF EndIsSound
    <3>2. CASE Len(chain) # top
        BY <2>2, <2>5, <2>6, <3>2 DEF EndIsSound
    <3> QED
        BY <3>1, <3>2
  <2> QED
      BY <1>2, <2>6, <2>7
<1>3. Validated(chain) = chain \/ (ActiveIn(chain) # {} /\ Validated(chain) = other)
    BY DEF Validated
<1> QED
    BY <1>1, <1>2, <1>3

LEMMA ChainsAreValidated ==
    ASSUME ReasoningIInv, ValidateChains
    PROVE  ReasoningIInv'
<1>1. /\ phase = "chains" /\ phase' = "diversity" /\ preserved = <<>>
      /\ chains' = [i \in DOMAIN chains |-> Validated(chains[i])]
      /\ reviews' = {i \in DOMAIN chains : WantsReview(Validated(chains[i]))}
      /\ UNCHANGED <<modesLeft, growing, iterations, preserved, solution>>
    BY DEF ValidateChains, ReasoningIInv
<1>2. /\ ReasoningTyped /\ Len(chains) \in Nat /\ DOMAIN chains = 1..Len(chains)
      /\ \A i \in 1..Len(chains) : chains[i] \in GrownChain /\ EndIsSound(chains[i])
    BY ChainsAre DEF ReasoningIInv
<1>3. \A i \in 1..Len(chains) : Validated(chains[i]) \in GrownChain /\ EndIsSound(Validated(chains[i]))
    BY <1>2, ValidatedIs
<1>4. /\ chains' \in Seq(GrownChain) /\ Len(chains') = Len(chains)
      /\ \A i \in 1..Len(chains) : chains'[i] = Validated(chains[i])
    BY <1>1, <1>2, <1>3
<1>5. reviews' \subseteq 1..Len(chains') /\ <<>> \in Seq(1..Len(chains'))
    BY <1>1, <1>2, <1>4
<1>6. ReasoningTyped'
    BY <1>1, <1>2, <1>4, <1>5 DEF ReasoningTyped, SolvePhases
<1>7. \A i \in 1..Len(chains') : EndIsSound(chains'[i]) /\ (Errored(chains'[i]) => i \in reviews')
    BY <1>1, <1>2, <1>3, <1>4 DEF WantsReview
<1> QED
    BY <1>1, <1>6, <1>7 DEF ReasoningIInv

(* The best chain left is at least as well grounded as every one left.     *)
LEMMA BestOfIs ==
    ASSUME ReasoningTyped, NEW left \in SUBSET (1..Len(chains)), left # {}
    PROVE  /\ BestOf(left) \in left
           /\ \A j \in left : AtLeastAs(GroundingOf(BestOf(left)), GroundingOf(j))
<1> DEFINE worth == [i \in 1..Len(chains) |-> GroundingOf(i)]
<1>1. Len(chains) \in Nat /\ \A i \in 1..Len(chains) : GroundingOf(i) \in Worth
    BY ChainsAre
<1>2. \A i \in 1..Len(chains) : worth[i] = GroundingOf(i) /\ worth[i] \in Worth
    BY <1>1
<1> HIDE DEF worth
<1>3. PICK i \in left : FirstBest(left, worth, i)
    BY <1>1, <1>2, SomethingIsBest
<1>4. ASSUME NEW j \in left \ {i} PROVE Before(i, j)
  <2>1. /\ AtLeastAs(GroundingOf(i), GroundingOf(j))
        /\ AtLeastAs(GroundingOf(j), GroundingOf(i)) => i <= j
      BY <1>2, <1>3 DEF FirstBest
  <2>2. i <= j => i < j
      BY <1>1
  <2> QED
      BY <2>1, <2>2 DEF Before, GroundingOf
<1>5. BestOf(left) \in left /\ \A j \in left \ {BestOf(left)} : Before(BestOf(left), j)
    BY <1>4 DEF BestOf
<1>6. AtLeastAs(GroundingOf(BestOf(left)), GroundingOf(BestOf(left)))
    BY <1>1, <1>5, AtLeastAsIsAnOrder
<1>7. \A j \in left \ {BestOf(left)} : AtLeastAs(GroundingOf(BestOf(left)), GroundingOf(j))
    BY <1>5 DEF Before, GroundingOf
<1> QED
    BY <1>5, <1>6, <1>7

(* The sieve of phase 4 after n of the chains.                             *)
Sieve == [left : SUBSET (1..Len(chains)), kept : Seq(1..Len(chains))]
OfAllTheBest(kept) ==
    Len(kept) > 0 /\ \A i \in 1..Len(chains) : AtLeastAs(GroundingOf(kept[1]), GroundingOf(i))
SiftSound(n, at) ==
    /\ IsFiniteSet(at.left) /\ Cardinality(at.left) = Len(chains) - n
    /\ \A k \in 1..Len(at.kept) : at.kept[k] \notin at.left
    /\ \A k, l \in 1..Len(at.kept) : at.kept[k] = at.kept[l] => k = l
    /\ \A i \in 1..Len(chains) : i \notin at.left =>
          \E k \in 1..Len(at.kept) : ModeOf(at.kept[k]) = ModeOf(i)
    /\ \A k, l \in 1..Len(at.kept) :
          (k < l /\ l > MinAlternatives) => ModeOf(at.kept[k]) # ModeOf(at.kept[l])
    /\ IF n = 0 THEN at.left = 1..Len(chains) /\ at.kept = <<>> ELSE OfAllTheBest(at.kept)

LEMMA SiftKeeps ==
    ASSUME ReasoningTyped, NEW n \in 1..Len(chains), NEW at \in Sieve, SiftSound(n - 1, at)
    PROVE  Sift(at) \in Sieve /\ SiftSound(n, Sift(at))
<1> DEFINE i == BestOf(at.left)
           after == Sift(at)
<1>1. /\ at.left \in SUBSET (1..Len(chains)) /\ at.kept \in Seq(1..Len(chains))
      /\ Len(chains) \in Nat /\ n \in Nat /\ n > 0 /\ n <= Len(chains)
      /\ IsFiniteSet(at.left) /\ Cardinality(at.left) = Len(chains) - (n - 1)
    BY ChainsAre DEF Sieve, SiftSound
<1>2. at.left # {}
  <2>1. Cardinality(at.left) # 0
      BY <1>1
  <2> QED
      BY <2>1, FS_EmptySet
<1>3. /\ i \in at.left /\ i \in 1..Len(chains)
      /\ \A j \in at.left : AtLeastAs(GroundingOf(i), GroundingOf(j))
    BY <1>1, <1>2, BestOfIs
<1>4. /\ after.left = at.left \ {i}
      /\ after.kept = IF Admits(at.kept, i) THEN Append(at.kept, i) ELSE at.kept
    BY DEF Sift
<1>5. after = [left |-> after.left, kept |-> after.kept]
    BY DEF Sift
<1> HIDE DEF i, after
<1>6. IsFiniteSet(after.left) /\ Cardinality(after.left) = Len(chains) - n
  <2>1. IsFiniteSet(after.left) /\ Cardinality(after.left) = Cardinality(at.left) - 1
      BY <1>1, <1>3, <1>4, FS_RemoveElement
  <2>2. Len(chains) - (n - 1) - 1 = Len(chains) - n
      BY <1>1
  <2> QED
      BY <1>1, <2>1, <2>2
<1>7. PICK size \in Nat : size = Len(at.kept)
    BY <1>1
<1>8. CASE ~Admits(at.kept, i)
  <2>1. after.kept = at.kept
      BY <1>4, <1>8
  <2>2. after \in Sieve
      BY <1>1, <1>4, <1>5, <2>1 DEF Sieve
  <2>3. \E k \in 1..size : ModeOf(at.kept[k]) = ModeOf(i)
    <3>1. ModeOf(i) \in ModesSeen(at.kept)
        BY <1>8 DEF Admits
    <3>2. DOMAIN at.kept = 1..size
        BY <1>1, <1>7
    <3> QED
        BY <3>1, <3>2 DEF ModesSeen
  <2>4. \A j \in 1..Len(chains) : j \notin after.left =>
            \E k \in 1..size : ModeOf(at.kept[k]) = ModeOf(j)
    <3> SUFFICES ASSUME NEW j \in 1..Len(chains), j \notin after.left
                 PROVE  \E k \in 1..size : ModeOf(at.kept[k]) = ModeOf(j)
        OBVIOUS
    <3>1. CASE j = i
        BY <2>3, <3>1
    <3>2. CASE j # i
        BY <1>4, <1>7, <3>2 DEF SiftSound
    <3> QED
        BY <3>1, <3>2
  <2>5. n # 0 /\ n - 1 # 0 /\ OfAllTheBest(at.kept)
    <3>1. CASE n - 1 = 0
      <4>1. at.kept = <<>>
          BY <3>1 DEF SiftSound
      <4>2. ModesSeen(<<>>) = {}
          BY DEF ModesSeen
      <4> QED
          BY <1>8, <4>1, <4>2 DEF Admits
    <3>2. CASE n - 1 # 0
        BY <1>1, <3>2 DEF SiftSound
    <3> QED
        BY <3>1, <3>2
  <2>6. \A k \in 1..Len(after.kept) : after.kept[k] \notin after.left
      BY <1>4, <2>1 DEF SiftSound
  <2> QED
      BY SMTT(30), <1>6, <1>7, <2>1, <2>2, <2>4, <2>5, <2>6 DEF SiftSound, after
<1>9. CASE Admits(at.kept, i)
  <2>1. /\ after.kept \in Seq(1..Len(chains)) /\ Len(after.kept) = size + 1
        /\ \A k \in 1..size : after.kept[k] = at.kept[k]
        /\ after.kept[size + 1] = i
      BY <1>1, <1>3, <1>4, <1>7, <1>9, AppendProperties
  <2>2. after \in Sieve
      BY <1>1, <1>4, <1>5, <2>1 DEF Sieve
  <2>3. /\ \A k \in 1..(size + 1) : k \in 1..size \/ k = size + 1
        /\ \A k \in 1..size : k \in 1..(size + 1) /\ k # size + 1 /\ ~(size + 1 < k)
        /\ size + 1 \in 1..(size + 1) /\ ~(size + 1 < size + 1) /\ size + 1 > 0
        /\ size < MinAlternatives => ~(size + 1 > MinAlternatives)
      BY ReasoningConstants
  <2>4. \A k \in 1..size : after.kept[k] \notin at.left
      BY <1>7, <2>1 DEF SiftSound
  <2>5. \A k \in 1..(size + 1) : after.kept[k] \notin after.left
      BY <1>4, <2>1, <2>3, <2>4
  <2>6. \A k, l \in 1..(size + 1) : after.kept[k] = after.kept[l] => k = l
    <3> SUFFICES ASSUME NEW k \in 1..(size + 1), NEW l \in 1..(size + 1),
                        after.kept[k] = after.kept[l]
                 PROVE  k = l
        OBVIOUS
    <3>1. CASE k \in 1..size /\ l \in 1..size
        BY <1>7, <2>1, <3>1 DEF SiftSound
    <3>2. CASE k = size + 1 \/ l = size + 1
        BY <1>3, <2>1, <2>3, <2>4, <3>2
    <3> QED
        BY <2>3, <3>1, <3>2
  <2>7. \A j \in 1..Len(chains) : j \notin after.left =>
            \E k \in 1..(size + 1) : ModeOf(after.kept[k]) = ModeOf(j)
    <3> SUFFICES ASSUME NEW j \in 1..Len(chains), j \notin after.left
                 PROVE  \E k \in 1..(size + 1) : ModeOf(after.kept[k]) = ModeOf(j)
        OBVIOUS
    <3>1. CASE j = i
        BY <2>1, <2>3, <3>1
    <3>2. CASE j # i
      <4>1. PICK k \in 1..size : ModeOf(at.kept[k]) = ModeOf(j)
          BY <1>4, <1>7, <3>2 DEF SiftSound
      <4>2. ModeOf(after.kept[k]) = ModeOf(j)
          BY <2>1, <4>1
      <4> QED
          BY <2>3, <4>2
    <3> QED
        BY <3>1, <3>2
  <2>8. \A k, l \in 1..(size + 1) :
            (k < l /\ l > MinAlternatives) => ModeOf(after.kept[k]) # ModeOf(after.kept[l])
    <3> SUFFICES ASSUME NEW k \in 1..(size + 1), NEW l \in 1..(size + 1),
                        k < l, l > MinAlternatives
                 PROVE  ModeOf(after.kept[k]) # ModeOf(after.kept[l])
        OBVIOUS
    <3>1. k \in 1..size
        BY <2>3
    <3>2. CASE l \in 1..size
      <4>1. ModeOf(at.kept[k]) # ModeOf(at.kept[l])
          BY <1>7, <3>1, <3>2 DEF SiftSound
      <4>2. after.kept[k] = at.kept[k] /\ after.kept[l] = at.kept[l]
          BY <2>1, <3>1, <3>2
      <4> QED
          BY <4>1, <4>2
    <3>3. CASE l = size + 1
      <4>1. ~(size < MinAlternatives)
          BY <2>3, <3>3
      <4>2. ModeOf(i) \notin ModesSeen(at.kept) /\ DOMAIN at.kept = 1..size
          BY <1>1, <1>7, <1>9, <4>1 DEF Admits
      <4>3. ModeOf(at.kept[k]) # ModeOf(i)
          BY <3>1, <4>2 DEF ModesSeen
      <4>4. after.kept[k] = at.kept[k] /\ after.kept[l] = i
          BY <2>1, <3>1, <3>3
      <4> QED
          BY <4>3, <4>4
    <3> QED
        BY <2>3, <3>2, <3>3
  <2>9. OfAllTheBest(after.kept)
    <3>1. CASE n - 1 = 0
      <4>1. at.left = 1..Len(chains) /\ at.kept = <<>>
          BY <3>1 DEF SiftSound
      <4>2. size = 0
          BY <1>7, <4>1
      <4>3. after.kept[1] = i /\ Len(after.kept) > 0
          BY <2>1, <4>2
      <4> QED
          BY <1>3, <4>1, <4>3 DEF OfAllTheBest
    <3>2. CASE n - 1 # 0
      <4>1. OfAllTheBest(at.kept)
          BY <3>2 DEF SiftSound
      <4>2. 1 \in 1..size
          BY <1>7, <4>1 DEF OfAllTheBest
      <4>3. after.kept[1] = at.kept[1] /\ Len(after.kept) > 0
          BY <2>1, <4>2
      <4> QED
          BY <4>1, <4>3 DEF OfAllTheBest
    <3> QED
        BY <3>1, <3>2
  <2>10. n # 0 /\ Len(after.kept) = size + 1
      BY <1>1, <2>1
  <2> QED
      BY <1>6, <2>2, <2>5, <2>6, <2>7, <2>8, <2>9, <2>10 DEF SiftSound, after
<1> QED
    BY <1>8, <1>9

LEMMA SiftStarts ==
    ASSUME ReasoningTyped, NEW at, at = [left |-> DOMAIN chains, kept |-> <<>>]
    PROVE  at \in Sieve /\ SiftSound(0, at)
<1>1. /\ at.left = 1..Len(chains) /\ at.kept = <<>> /\ Len(at.kept) = 0 /\ Len(chains) \in Nat
      /\ at.kept \in Seq(1..Len(chains))
    BY ChainsAre
<1>2. at \in Sieve
    BY <1>1 DEF Sieve
<1>3. IsFiniteSet(1..Len(chains)) /\ Cardinality(1..Len(chains)) = Len(chains)
  <2>1. PICK size \in Nat : size = Len(chains)
      BY <1>1
  <2>2. IsFiniteSet(1..size) /\ Cardinality(1..size) = IF 1 > size THEN 0 ELSE size - 1 + 1
      BY FS_Interval
  <2>3. Cardinality(1..size) = size
      BY <2>2
  <2> QED
      BY <2>1, <2>2, <2>3
<1>4. Len(chains) - 0 = Len(chains) /\ 1..Len(at.kept) = {}
    BY <1>1
<1> QED
    BY <1>1, <1>2, <1>3, <1>4 DEF SiftSound

(* What the sieve keeps. *)
LEMMA SiftedIs ==
    ASSUME ReasoningTyped, Len(chains) > MinAlternatives
    PROVE  SoundSelection(Sifted)
<1> DEFINE last == Len(chains)
           start == [left |-> DOMAIN chains, kept |-> <<>>]
           Follows(on) == on = [n \in 0..last |-> IF n = 0 THEN start ELSE Sift(on[n - 1])]
           after == CHOOSE on : Follows(on)
           moved == [n \in 1..last |-> [at \in Sieve |->
                        IF SiftSound(n - 1, at) THEN Sift(at) ELSE start]]
<1>1. last \in Nat /\ last > 0
    BY ChainsAre, ReasoningConstants
<1>2. start \in Sieve /\ SiftSound(0, start)
    BY SiftStarts
<1>3. Sifted = after[last].kept
    BY DEF Sifted
<1> HIDE DEF start
<1>4. \A n \in 1..last : \A at \in Sieve : moved[n][at] \in Sieve
  <2>1. ASSUME NEW n \in 1..last, NEW at \in Sieve, SiftSound(n - 1, at)
        PROVE  Sift(at) \in Sieve
      BY <2>1, SiftKeeps
  <2> QED
      BY <1>2, <2>1
<1>5. \A n \in 1..last, at \in Sieve :
          moved[n][at] = IF SiftSound(n - 1, at) THEN Sift(at) ELSE start
    OBVIOUS
<1> HIDE DEF moved
<1>6. StepsStay(Sieve, last, moved)
    BY <1>4 DEF StepsStay
<1>7. PICK on : IsTheWay(on, Sieve, start, last, moved)
    BY <1>1, <1>2, <1>6, StepsAreAFunction
<1>8. /\ on \in [0..last -> Sieve] /\ on[0] = start
      /\ \A n \in 1..last : on[n] = moved[n][on[n - 1]]
    BY <1>7 DEF IsTheWay
<1> DEFINE good == {n \in 0..last : SiftSound(n, on[n])}
<1>9. 0 \in good
    BY <1>1, <1>2, <1>8
<1>10. ASSUME NEW n \in 1..last, n - 1 \in good
       PROVE  n \in good /\ on[n] = Sift(on[n - 1])
  <2>1. n \in 0..last /\ n - 1 \in 0..last
      BY <1>1
  <2>2. on[n - 1] \in Sieve /\ SiftSound(n - 1, on[n - 1])
      BY <1>8, <1>10, <2>1
  <2>3. on[n] = Sift(on[n - 1])
      BY <1>5, <1>8, <2>2
  <2>4. SiftSound(n, on[n])
      BY <2>2, <2>3, SiftKeeps
  <2> QED
      BY <2>1, <2>3, <2>4
<1>11. \A n \in 0..last : n \in good
  <2> HIDE DEF good
  <2> QED
      BY <1>1, <1>9, <1>10, CountingUp
<1>12. Follows(on)
  <2>1. \A n \in 0..last : on[n] = IF n = 0 THEN start ELSE Sift(on[n - 1])
    <3> SUFFICES ASSUME NEW n \in 0..last
                 PROVE  on[n] = IF n = 0 THEN start ELSE Sift(on[n - 1])
        OBVIOUS
    <3>1. CASE n = 0
        BY <1>8, <3>1
    <3>2. CASE n # 0
      <4>1. n \in 1..last /\ n - 1 \in 0..last
          BY <1>1, <3>2
      <4>2. n - 1 \in good
          BY <1>11, <4>1
      <4> QED
          BY <1>10, <3>2, <4>1, <4>2
    <3> QED
        BY <3>1, <3>2
  <2>2. on = [n \in 0..last |-> on[n]]
      BY <1>8
  <2> HIDE DEF good
  <2> QED
      BY <2>1, <2>2
<1> HIDE DEF good
<1>13. Follows(after)
    BY <1>12
<1> HIDE DEF after
<1>14. \A n \in 0..last : after[n] = IF n = 0 THEN start ELSE Sift(after[n - 1])
    BY <1>13
<1> DEFINE same == {n \in 0..last : after[n] = on[n]}
<1>15. 0 \in same
    BY <1>1, <1>8, <1>14
<1>16. ASSUME NEW n \in 1..last, n - 1 \in same
       PROVE  n \in same
  <2>1. n \in 0..last /\ n # 0 /\ n - 1 \in 0..last
      BY <1>1
  <2>2. after[n] = Sift(after[n - 1]) /\ on[n] = Sift(on[n - 1])
      BY <1>10, <1>11, <1>14, <2>1
  <2>3. after[n - 1] = on[n - 1]
      BY <1>16
  <2> QED
      BY <2>1, <2>2, <2>3
<1>17. \A n \in 0..last : n \in same
  <2> HIDE DEF same
  <2> QED
      BY <1>1, <1>15, <1>16, CountingUp
<1>18. last \in 0..last
    BY <1>1
<1>19. PICK at \in Sieve : at = after[last] /\ SiftSound(last, at)
  <2>1. after[last] = on[last] /\ last \in good /\ on[last] \in Sieve
      BY <1>8, <1>11, <1>17, <1>18
  <2> QED
      BY <2>1 DEF good
<1>20. at.left = {} /\ last # 0 /\ at.kept \in Seq(1..last)
  <2>1. IsFiniteSet(at.left) /\ Cardinality(at.left) = Len(chains) - last
      BY <1>19 DEF SiftSound
  <2>2. Cardinality(at.left) = 0
      BY <1>1, <2>1
  <2> QED
      BY <1>1, <2>1, <2>2, FS_EmptySet DEF Sieve
<1>21. ~(Len(chains) <= MinAlternatives)
    BY <1>1, ReasoningConstants
<1>22. SoundSelection(at.kept)
    BY <1>19, <1>20, <1>21 DEF SiftSound, SoundSelection, OfAllTheBest
<1> QED
    BY <1>3, <1>19, <1>22

(* Up to the quota every chain is kept as it stands. *)
LEMMA AllAreKept ==
    ASSUME ReasoningTyped, Len(chains) <= MinAlternatives
    PROVE  SoundSelection([i \in DOMAIN chains |-> i])
<1> DEFINE kept == [i \in DOMAIN chains |-> i]
<1>1. Len(chains) \in Nat /\ DOMAIN chains = 1..Len(chains)
    BY ChainsAre
<1>2. kept \in Seq(1..Len(chains)) /\ Len(kept) = Len(chains) /\ \A i \in 1..Len(chains) : kept[i] = i
    BY <1>1
<1> HIDE DEF kept
<1>3. \A l \in 1..Len(kept) : ~(l > MinAlternatives)
    BY <1>1, <1>2, ReasoningConstants
<1>4. SoundSelection(kept)
    BY <1>2, <1>3 DEF SoundSelection
<1> QED
    BY <1>4 DEF kept

LEMMA DiversityIsPreserved ==
    ASSUME ReasoningIInv, PreserveDiversity
    PROVE  ReasoningIInv'
<1>1. /\ ReasoningTyped /\ phase = "diversity" /\ phase' = "synthesis"
      /\ preserved' = IF Len(chains) <= MinAlternatives THEN [i \in DOMAIN chains |-> i] ELSE Sifted
      /\ UNCHANGED <<modesLeft, chains, growing, iterations, reviews, solution>>
    BY DEF ReasoningIInv, PreserveDiversity
<1>2. SoundSelection(preserved')
  <2>1. CASE Len(chains) <= MinAlternatives
      BY <1>1, <2>1, AllAreKept
  <2>2. CASE ~(Len(chains) <= MinAlternatives)
    <3>1. Len(chains) > MinAlternatives
        BY <1>1, <2>2, ChainsAre, ReasoningConstants
    <3> QED
        BY <1>1, <2>2, <3>1, SiftedIs
  <2> QED
      BY <2>1, <2>2
<1>3. SoundSelection(preserved)'
  <2>1. PICK kept : kept = preserved' /\ SoundSelection(kept)
      BY <1>2
  <2>0. chains' = chains
      BY <1>1
  <2>2. SoundSelection(kept)' <=> SoundSelection(kept)
      BY <2>0 DEF SoundSelection, ModeOf, GroundingOf
  <2>3. SoundSelection(preserved)' <=> SoundSelection(kept)'
      BY <2>1 DEF SoundSelection
  <2> QED
      BY <2>1, <2>2, <2>3
<1>4. preserved' \in Seq(1..Len(chains))
    BY <1>2 DEF SoundSelection
<1>5. ReasoningTyped'
    BY <1>1, <1>4 DEF ReasoningTyped, SolvePhases
<1> QED
    BY <1>1, <1>3, <1>5 DEF ReasoningIInv

(* The chain a solution stands on, and where others were sifted out, the   *)
(* alternatives it is not among.                                           *)
LEMMA BestChainIs ==
    ASSUME ReasoningTyped, SoundSelection(preserved), preserved # <<>>
    PROVE  /\ BestChain \in 1..Len(chains)
           /\ \A i \in 1..Len(chains) : AtLeastAs(GroundingOf(BestChain), GroundingOf(i))
           /\ Alternatives \in SUBSET (1..Len(chains))
           /\ Len(chains) > MinAlternatives => BestChain \notin Alternatives
<1> DEFINE worth == [k \in 1..Len(preserved) |-> GroundingOf(preserved[k])]
           tops == {k \in DOMAIN preserved : \A l \in DOMAIN preserved :
                       AtLeastAs(TotalGrounding(chains[preserved[k]]),
                                 TotalGrounding(chains[preserved[l]]))}
<1>1. /\ preserved \in Seq(1..Len(chains)) /\ Len(chains) \in Nat
      /\ \A i \in 1..Len(chains) : GroundingOf(i) \in Worth
    BY ChainsAre DEF SoundSelection
<1>2. /\ Len(preserved) \in Nat /\ Len(preserved) > 0 /\ DOMAIN preserved = 1..Len(preserved)
      /\ 1 \in 1..Len(preserved)
      /\ \A k \in 1..Len(preserved) : preserved[k] \in 1..Len(chains)
  <2>1. /\ Len(preserved) \in Nat /\ Len(preserved) # 0 /\ DOMAIN preserved = 1..Len(preserved)
        /\ \A k \in 1..Len(preserved) : preserved[k] \in 1..Len(chains)
      BY <1>1, EmptySeq
  <2> QED
      BY <2>1
<1>3. \A k \in 1..Len(preserved) :
          worth[k] = GroundingOf(preserved[k]) /\ worth[k] \in Worth
    BY <1>1, <1>2
<1>4. tops = {k \in 1..Len(preserved) : \A l \in 1..Len(preserved) :
                 AtLeastAs(GroundingOf(preserved[k]), GroundingOf(preserved[l]))}
    BY <1>2 DEF GroundingOf
<1>5. BestChain = preserved[Min(tops)]
    BY DEF BestChain
<1> HIDE DEF worth, tops
<1>6. tops # {}
  <2>1. PICK k \in 1..Len(preserved) : FirstBest(1..Len(preserved), worth, k)
      BY <1>2, <1>3, SomethingIsBest
  <2>2. k \in tops
      BY <1>3, <1>4, <2>1 DEF FirstBest
  <2> QED
      BY <2>2
<1>7. PICK top \in tops : top = Min(tops) /\ \A k \in tops : top <= k
  <2>1. tops \in SUBSET Nat
      BY <1>4
  <2> QED
      BY <1>6, <2>1, LeastIs
<1>8. /\ top \in 1..Len(preserved) /\ BestChain = preserved[top] /\ BestChain \in 1..Len(chains)
      /\ \A l \in 1..Len(preserved) : AtLeastAs(GroundingOf(BestChain), GroundingOf(preserved[l]))
    BY <1>2, <1>4, <1>5, <1>7
<1>9. Alternatives \subseteq {preserved[k] : k \in 2..Len(preserved)}
    BY DEF Alternatives
<1>10. \A k \in 2..Len(preserved) : k \in 1..Len(preserved) /\ k # 1
    BY <1>2
<1>11. Alternatives \in SUBSET (1..Len(chains))
    BY <1>2, <1>9, <1>10
<1>12. CASE Len(chains) <= MinAlternatives
  <2>1. Len(preserved) = Len(chains) /\ \A i \in 1..Len(chains) : preserved[i] = i
      BY <1>12 DEF SoundSelection
  <2>2. ~(Len(chains) > MinAlternatives)
      BY <1>1, <1>12, ReasoningConstants
  <2> QED
      BY <1>8, <1>11, <2>1, <2>2
<1>13. CASE ~(Len(chains) <= MinAlternatives)
  <2>1. \A i \in 1..Len(chains) : AtLeastAs(GroundingOf(preserved[1]), GroundingOf(i))
      BY <1>13 DEF SoundSelection
  <2>2. 1 \in tops
      BY <1>2, <1>4, <2>1
  <2>3. top = 1
    <3>1. top \in Nat /\ top >= 1 /\ top <= 1
        BY <1>2, <1>7, <1>8, <2>2
    <3> QED
        BY <3>1
  <2>4. BestChain \notin Alternatives
    <3> SUFFICES ASSUME NEW k \in 2..Len(preserved), preserved[1] = preserved[k]
                 PROVE  FALSE
        BY <1>8, <1>9, <2>3
    <3> QED
        BY <1>2, <1>10 DEF SoundSelection
  <2> QED
      BY <1>8, <1>11, <2>1, <2>3, <2>4
<1> QED
    BY <1>12, <1>13

LEMMA SolutionIsSynthesized ==
    ASSUME ReasoningIInv, SynthesizeSolution
    PROVE  ReasoningIInv'
<1>1. /\ ReasoningTyped /\ phase = "synthesis" /\ phase' = "guardian" /\ SoundSelection(preserved)
      /\ UNCHANGED <<modesLeft, chains, growing, iterations, reviews, preserved>>
      /\ Len(chains) \in Nat /\ DOMAIN chains = 1..Len(chains)
      /\ MinAlternatives \in Nat
    BY ChainsAre, ReasoningConstants DEF ReasoningIInv, SynthesizeSolution
<1>2. /\ solution' \in [best : Nat, grounding : Worth, alternatives : SUBSET Nat,
              badges : SUBSET {"no hypotheses", "alone", "anchored", "contested", "errors"}]
      /\ chains # <<>> =>
            /\ \A i \in 1..Len(chains) : AtLeastAs(solution'.grounding, GroundingOf(i))
            /\ Len(chains) > MinAlternatives => solution'.best \notin solution'.alternatives
  <2>1. CASE preserved = <<>>
    <3>1. solution' = [best |-> 0, grounding |-> <<0, 1>>, alternatives |-> {},
                       badges |-> {"no hypotheses", "alone"}]
        BY <2>1 DEF SynthesizeSolution, NoSolution
    <3>2. <<0, 1>> \in Worth
        BY DEF Worth
    <3>3. Len(preserved) = 0
        BY <2>1
    <3>4. Len(chains) = 0
      <4>1. CASE Len(chains) <= MinAlternatives
          BY <1>1, <3>3, <4>1 DEF SoundSelection
      <4>2. CASE ~(Len(chains) <= MinAlternatives)
          BY <1>1, <3>3, <4>2 DEF SoundSelection
      <4> QED
          BY <4>1, <4>2
    <3>5. chains = <<>>
      <4>1. chains \in Seq(GrownChain)
          BY <1>1 DEF ReasoningTyped
      <4> QED
          BY <3>4, <4>1, EmptySeq
    <3> QED
        BY <3>1, <3>2, <3>5
  <2>2. CASE preserved # <<>>
    <3>1. PICK marks \in SUBSET {"anchored", "alone"} :
              solution' = [best |-> BestChain, grounding |-> TotalGrounding(chains[BestChain]),
                           alternatives |-> Alternatives, badges |-> marks]
      <4> DEFINE some == (IF Cardinality(ModesSeen(preserved)) < 2 THEN {"anchored"} ELSE {})
                         \cup (IF Alternatives = {} THEN {"alone"} ELSE {})
      <4>1. some \in SUBSET {"anchored", "alone"}
          OBVIOUS
      <4>2. solution' = [best |-> BestChain, grounding |-> TotalGrounding(chains[BestChain]),
                         alternatives |-> Alternatives, badges |-> some]
          BY <2>2 DEF SynthesizeSolution
      <4> HIDE DEF some
      <4> QED
          BY <4>1, <4>2
    <3>2. /\ BestChain \in 1..Len(chains)
          /\ \A i \in 1..Len(chains) : AtLeastAs(GroundingOf(BestChain), GroundingOf(i))
          /\ Alternatives \in SUBSET (1..Len(chains))
          /\ Len(chains) > MinAlternatives => BestChain \notin Alternatives
        BY <1>1, <2>2, BestChainIs
    <3>3. PICK best \in 1..Len(chains), others \in SUBSET (1..Len(chains)), worth \in Worth :
              best = BestChain /\ others = Alternatives /\ worth = GroundingOf(BestChain)
        BY <1>1, <3>2, ChainsAre
    <3>4. solution' = [best |-> best, grounding |-> worth, alternatives |-> others, badges |-> marks]
        BY <3>1, <3>3 DEF GroundingOf
    <3>5. best \in Nat /\ others \in SUBSET Nat
        BY <1>1
    <3>6. \A i \in 1..Len(chains) : AtLeastAs(worth, GroundingOf(i))
        BY <3>2, <3>3
    <3> QED
        BY <3>2, <3>3, <3>4, <3>5, <3>6
  <2> QED
      BY <2>1, <2>2
<1>3. ReasoningTyped'
    BY <1>1, <1>2 DEF ReasoningTyped, SolvePhases
<1>4. SolutionIsTheBest'
    BY <1>1, <1>2 DEF SolutionIsTheBest, GroundingOf
<1>5. SoundSelection(preserved)'
  <2>1. chains' = chains /\ preserved' = preserved
      BY <1>1
  <2>2. SoundSelection(preserved)' <=> SoundSelection(preserved)
      BY <2>1 DEF SoundSelection, ModeOf, GroundingOf
  <2> QED
      BY <1>1, <2>2
<1> QED
    BY <1>1, <1>3, <1>4, <1>5 DEF ReasoningIInv

LEMMA GuardianSweeps ==
    ASSUME ReasoningIInv, GuardianSweep
    PROVE  ReasoningIInv'
<1>1. /\ ReasoningTyped /\ phase = "guardian" /\ phase' = "done" /\ SoundSelection(preserved)
      /\ SolutionIsTheBest
      /\ UNCHANGED <<modesLeft, chains, growing, iterations, reviews, preserved>>
    BY DEF ReasoningIInv, GuardianSweep
<1> DEFINE marks == (IF AtLeastAs(solution.grounding, <<GroundingThreshold, 1>>) THEN {} ELSE {"contested"})
                    \cup (IF Escalated # {} THEN {"errors"} ELSE {})
<1>2. solution' = [solution EXCEPT !.badges = @ \cup marks]
    BY DEF GuardianSweep
<1>3. marks \subseteq {"contested", "errors"} /\ (Escalated # {} => "errors" \in marks)
    OBVIOUS
<1> HIDE DEF marks
<1>4. solution \in [best : Nat, grounding : Worth, alternatives : SUBSET Nat,
              badges : SUBSET {"no hypotheses", "alone", "anchored", "contested", "errors"}]
    BY <1>1 DEF ReasoningTyped
<1>5. /\ solution'.best = solution.best /\ solution'.grounding = solution.grounding
      /\ solution'.alternatives = solution.alternatives
      /\ solution'.badges = solution.badges \cup marks
      /\ solution' \in [best : Nat, grounding : Worth, alternatives : SUBSET Nat,
              badges : SUBSET {"no hypotheses", "alone", "anchored", "contested", "errors"}]
    BY <1>2, <1>3, <1>4
<1>6. ReasoningTyped'
    BY <1>1, <1>5 DEF ReasoningTyped, SolvePhases
<1>7. SolutionIsTheBest'
    BY <1>1, <1>5 DEF SolutionIsTheBest
<1>8. SoundSelection(preserved)'
    BY <1>1 DEF SoundSelection, ModeOf, GroundingOf
<1>9. (\E i \in ToSet(preserved) : Errored(chains[i])) => "errors" \in solution'.badges
    BY <1>3, <1>5 DEF Escalated
<1> QED
    BY <1>1, <1>6, <1>7, <1>8, <1>9 DEF ReasoningIInv

LEMMA ReasoningStarts == ReasoningInit => ReasoningIInv
<1> SUFFICES ASSUME ReasoningInit PROVE ReasoningIInv
    OBVIOUS
<1>1. /\ phase = "seeds" /\ modesLeft = ModeOrder /\ chains = <<>> /\ growing = 1
      /\ iterations = 0 /\ reviews = {} /\ preserved = <<>> /\ solution = NoSolution
    BY DEF ReasoningInit
<1>2. <<0, 1>> \in Worth
    BY DEF Worth
<1>3. solution \in [best : Nat, grounding : Worth, alternatives : SUBSET Nat,
              badges : SUBSET {"no hypotheses", "alone", "anchored", "contested", "errors"}]
    BY <1>1, <1>2 DEF NoSolution
<1>4. /\ <<>> \in Seq(GrownChain) /\ Len(<<>>) = 0 /\ <<>> \in Seq(1..0)
      /\ 1 \in Nat \ {0} /\ 0 \in Nat /\ 0 <= MaxSeeds
    BY ReasoningConstants
<1>5. ReasoningTyped
    BY <1>1, <1>3, <1>4, ReasoningConstants DEF ReasoningTyped, SolvePhases
<1> QED
    BY <1>1, <1>5 DEF ReasoningIInv

LEMMA ReasoningStepKeeps == ReasoningIInv /\ [ReasoningNext]_reasoningVars => ReasoningIInv'
<1> SUFFICES ASSUME ReasoningIInv, [ReasoningNext]_reasoningVars PROVE ReasoningIInv'
    OBVIOUS
<1>1. CASE GenerateSeeds \/ SeedsDone
    BY <1>1, SeedsGrow
<1>2. CASE IterateChain \/ IterationFails \/ IterationsOver
    BY <1>2, IterationsGrow
<1>3. CASE ValidateChains
    BY <1>3, ChainsAreValidated
<1>4. CASE PreserveDiversity
    BY <1>4, DiversityIsPreserved
<1>5. CASE SynthesizeSolution
    BY <1>5, SolutionIsSynthesized
<1>6. CASE GuardianSweep
    BY <1>6, GuardianSweeps
<1>7. CASE UNCHANGED reasoningVars
  <2>1. UNCHANGED <<phase, modesLeft, chains, growing, iterations, reviews, preserved, solution>>
      BY <1>7 DEF reasoningVars
  <2>2. ReasoningTyped'
      BY <2>1 DEF ReasoningIInv, ReasoningTyped
  <2>3. SolutionIsTheBest' <=> SolutionIsTheBest
      BY <2>1 DEF SolutionIsTheBest
  <2>4. SoundSelection(preserved)' <=> SoundSelection(preserved)
      BY <2>1 DEF SoundSelection, ModeOf, GroundingOf
  <2> QED
      BY <2>1, <2>2, <2>3, <2>4 DEF ReasoningIInv
<1> QED
    BY <1>1, <1>2, <1>3, <1>4, <1>5, <1>6, <1>7 DEF ReasoningNext

LEMMA ReasoningIInvImplies == ReasoningIInv => ReasoningInv
<1> SUFFICES ASSUME ReasoningIInv PROVE ReasoningInv
    OBVIOUS
<1>1. /\ ReasoningTyped /\ Len(chains) \in Nat /\ DOMAIN chains = 1..Len(chains)
      /\ \A i \in 1..Len(chains) : chains[i] \in GrownChain
    BY ChainsAre DEF ReasoningIInv
<1>2. preserved \in Seq(1..Len(chains)) /\ DOMAIN preserved = 1..Len(preserved)
  <2>1. preserved \in Seq(1..Len(chains))
      BY <1>1 DEF ReasoningTyped
  <2> QED
      BY <2>1
<1>3. ReasoningTypeOK
  <2>1. ASSUME NEW c \in DOMAIN chains, NEW h \in DOMAIN chains[c]
        PROVE  /\ chains[c][h].mode \in Modes
               /\ chains[c][h].state \in {"seed", "growing", "validated", "pruned", "error"}
    <3>1. chains[c][h] \in HypothesisRecord
        BY <1>1, ChainIs
    <3> QED
        BY <3>1 DEF HypothesisRecord
  <2>2. ToSet(preserved) \subseteq DOMAIN chains
      BY <1>1, <1>2 DEF ToSet
  <2> QED
      BY <1>1, <2>1, <2>2 DEF ReasoningTyped, SolvePhases, ReasoningTypeOK
<1>4. ErrorsStayVisible
    BY <1>1 DEF ReasoningIInv, ErrorsStayVisible, EndIsSound
<1>5. PerspectivesSurvive
    BY <1>1, <1>2 DEF ReasoningIInv, SoundSelection, PerspectivesSurvive
<1>6. SolutionIsTheBest
    BY DEF ReasoningIInv, SolutionIsTheBest
<1> QED
    BY <1>3, <1>4, <1>5, <1>6 DEF ReasoningInv

(* A run of solve() keeps its errors visible up to the verdict, one chain  *)
(* of every mode that grew one, and stands on the best grounded of all the *)
(* chains (MCOPEngine.solve).                                              *)
THEOREM SolutionsAreTheBest == ReasoningSpec => []ReasoningInv
<1>1. ReasoningInit => ReasoningIInv
    BY ReasoningStarts
<1>2. ReasoningIInv /\ [ReasoningNext]_reasoningVars => ReasoningIInv'
    BY ReasoningStepKeeps
<1>3. ReasoningIInv => ReasoningInv
    BY ReasoningIInvImplies
<1> QED
    BY <1>1, <1>2, <1>3, PTL DEF ReasoningSpec

-----------------------------------------------------------------------------
(* The engine and its network side by side.                                *)

ThoughtIInv == ReasoningIInv /\ MycelialIInv

(* What solve() returns, and where a chain of the network ends, has its    *)
(* reason in what was evaluated (MCOPEngine.solve, build_mycelial_network).*)
THEOREM ThoughtsKeepTheirWord == EngineSpec => []ThoughtInv
<1>1. EngineInit => ThoughtIInv
    BY ReasoningStarts, MycelialStarts DEF EngineInit, ThoughtIInv
<1>2. ThoughtIInv /\ [EngineNext]_engineVars => ThoughtIInv'
  <2> SUFFICES ASSUME ThoughtIInv, [EngineNext]_engineVars PROVE ThoughtIInv'
      OBVIOUS
  <2>1. [ReasoningNext]_reasoningVars /\ [MycelialNext]_mycelialVars
    <3>1. CASE EngineNext
        BY <3>1 DEF EngineNext
    <3>2. CASE UNCHANGED engineVars
        BY <3>2 DEF engineVars
    <3> QED
        BY <3>1, <3>2
  <2> QED
      BY <2>1, ReasoningStepKeeps, MycelialStepKeeps DEF ThoughtIInv
<1>3. ThoughtIInv => ThoughtInv
    BY ReasoningIInvImplies, MycelialIInvImplies DEF ThoughtIInv, ThoughtInv
<1> QED
    BY <1>1, <1>2, <1>3, PTL DEF EngineSpec
=============================================================================
