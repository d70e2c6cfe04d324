------------------------------ MODULE Memory_proofs ------------------------------
(***************************************************************************)
(* Proofs about components that keep records, for every value of their     *)
(* constants: the panel of layout shifts leaves no shift out, whoever      *)
(* mounts it when, and previews what it shows; a session's Merkle range    *)
(* and its receipts are those of the RFC 6962 tree over its claims.        *)
(***************************************************************************)
EXTENDS MCMemory, SequenceTheorems, FiniteSetTheorems, WellFoundedInduction,
        NaturalsInduction, TLAPS

-----------------------------------------------------------------------------
(* Numbers. *)

(* A set of numbers that is not empty has a least element ...              *)
LEMMA LeastIs ==
    ASSUME NEW S \in SUBSET Nat, S # {}
    PROVE  /\ Min(S) \in S /\ \A i \in S : Min(S) <= i
           /\ \E i \in S : \A j \in S : i <= j
<1>1. IsWellFoundedOn(OpToRel(<, Nat), Nat)
    BY NatLessThanWellFounded
<1>2. PICK i \in S : \A j \in S : ~(<<j, i>> \in OpToRel(<, Nat))
    BY <1>1, WFMin
<1>3. \A j \in S : ~(j < i)
    BY <1>2 DEF OpToRel
<1>4. \A j \in S : i \in Nat /\ j \in Nat
    OBVIOUS
<1>5. \E x \in S : \A j \in S : x <= j
    BY <1>3, <1>4
<1> QED
    BY <1>5 DEF Min

(* ... and a bounded one a greatest.                                       *)
LEMMA GreatestIs ==
    ASSUME NEW bound \in Nat, NEW S \in SUBSET (0..bound), S # {}
    PROVE  Max(S) \in S /\ \A i \in S : i <= Max(S)
<1> DEFINE fromAbove == {bound - i : i \in S}
<1>1. fromAbove \in SUBSET Nat /\ fromAbove # {}
  <2>1. \A i \in S : i \in 0..bound /\ bound - i \in Nat
      OBVIOUS
  <2> QED
      BY <2>1
<1>2. PICK d \in fromAbove : \A e \in fromAbove : d <= e
    BY <1>1, LeastIs
<1>3. PICK top \in S : d = bound - top
    BY <1>2
<1>4. \A i \in S : bound - top <= bound - i
    BY <1>2, <1>3
<1>5. \A i \in S : top >= i
    BY <1>4
<1> QED
    BY <1>5 DEF Max

(* What holds at 0 and passes from each number to the next holds of every  *)
(* number up to the last.                                                  *)
LEMMA CountingUp ==
    ASSUME NEW last \in Nat, NEW holds, 0 \in holds,
           \A n \in 1..last : n - 1 \in holds => n \in holds
    PROVE  \A n \in 0..last : n \in holds
<1> SUFFICES ASSUME NEW bad \in 0..last, bad \notin holds
             PROVE  FALSE
    OBVIOUS
<1> DEFINE bads == {n \in 0..last : n \notin holds}
<1>1. bads \in SUBSET Nat /\ bads # {}
    OBVIOUS
<1>2. PICK least \in bads : \A n \in bads : least <= n
    BY <1>1, LeastIs
<1>3. least \in 1..last
    OBVIOUS
<1>4. least - 1 \in 0..last /\ ~(least <= least - 1)
    BY <1>3
<1>5. least - 1 \in holds
    BY <1>2, <1>4
<1> QED
    BY <1>2, <1>3, <1>5

(* A value computed in steps from a first one, each from the one before:   *)
(* if step n leads from values of one set to values of the next, there is  *)
(* a function of all the values on the way.                                *)
IsFunctionOn(f, D) == f = [x \in D |-> f[x]]
IsTheWay(on, values, first, last, move) ==
    /\ IsFunctionOn(on, 0..last) /\ on[0] = first
    /\ \A n \in 0..last : on[n] \in values[n]
    /\ \A n \in 1..last : on[n] = move[n][on[n - 1]]
(* A value computed step by step from the one before it exists.            *)
LEMMA StepsAreAFunction ==
    ASSUME NEW values, NEW first \in values[0], NEW last \in Nat, NEW move,
           \A n \in 1..last : \A v \in values[n - 1] : move[n][v] \in values[n]
    PROVE  \E on : IsTheWay(on, values, first, last, move)
<1> DEFINE Follows(on, upto) ==
              /\ IsFunctionOn(on, 0..upto) /\ on[0] = first
              /\ \A n \in 0..upto : on[n] \in values[n]
              /\ \A n \in 1..upto : on[n] = move[n][on[n - 1]]
           holds == {upto \in 0..last : \E on : Follows(on, upto)}
<1>1. 0 \in holds
  <2> DEFINE start == [n \in 0..0 |-> first]
  <2>1. Follows(start, 0)
      BY DEF IsFunctionOn
  <2> HIDE DEF start
  <2> QED
      BY <2>1
<1>2. ASSUME NEW upto \in 1..last, upto - 1 \in holds
      PROVE  upto \in holds
  <2>1. PICK on : Follows(on, upto - 1)
      BY <1>2
  <2> DEFINE next == [n \in 0..upto |-> IF n = upto THEN move[upto][on[upto - 1]] ELSE on[n]]
  <2>2. on[upto - 1] \in values[upto - 1]
      BY <2>1
  <2>3. move[upto][on[upto - 1]] \in values[upto]
      BY <2>2
  <2>4. \A n \in 0..upto : next[n] = IF n = upto THEN move[upto][on[upto - 1]] ELSE on[n]
      OBVIOUS
  <2>5. IsFunctionOn(next, 0..upto)
      BY DEF IsFunctionOn
  <2> HIDE DEF next
  <2>6. next[0] = first
      BY <2>1, <2>4
  <2>7. \A n \in 0..upto : next[n] \in values[n]
    <3> TAKE n \in 0..upto
    <3>1. CASE n = upto
        BY <2>3, <2>4, <3>1
    <3>2. CASE n # upto
      <4>1. n \in 0..(upto - 1) /\ next[n] = on[n]
          BY <2>4, <3>2
      <4> QED
          BY <2>1, <4>1
    <3> QED
        BY <3>1, <3>2
  <2>8. \A n \in 1..upto : next[n] = move[n][next[n - 1]]
    <3> TAKE n \in 1..upto
    <3>1. n - 1 \in 0..upto /\ n - 1 # upto /\ n \in 0..upto
        OBVIOUS
    <3>2. next[n - 1] = on[n - 1]
        BY <2>4, <3>1
    <3>3. CASE n = upto
        BY <2>4, <3>1, <3>2, <3>3
    <3>4. CASE n # upto
      <4>1. n \in 1..(upto - 1) /\ next[n] = on[n]
          BY <2>4, <3>1, <3>4
      <4> QED
          BY <2>1, <3>2, <4>1
    <3> QED
        BY <3>3, <3>4
  <2>9. Follows(next, upto)
      BY <2>5, <2>6, <2>7, <2>8
  <2> QED
      BY <2>9
<1> HIDE DEF holds
<1>3. last \in holds
    BY <1>1, <1>2, CountingUp
<1>4. PICK on : Follows(on, last)
    BY <1>3 DEF holds
<1> QED
    BY <1>4 DEF IsTheWay

-----------------------------------------------------------------------------
(* The visual-stability panel. *)

(* One list is the end of another.                                         *)
Ends(s, t) == /\ Len(s) <= Len(t)
              /\ \A i \in 1..Len(s) : s[i] = t[Len(t) - Len(s) + i]

(* That is what IsSuffix says of it.                                       *)
LEMMA SuffixMeansEnds ==
    ASSUME NEW T, NEW s \in Seq(T), NEW t \in Seq(T), Ends(s, t)
    PROVE  IsSuffix(s, t)
<1>1. Len(s) \in Nat /\ Len(t) \in Nat /\ Len(s) <= Len(t)
    BY DEF Ends
<1> DEFINE u == [i \in 1..Len(s) |-> s[(Len(s) - i) + 1]]
           v == [i \in 1..Len(t) |-> t[(Len(t) - i) + 1]]
<1>2. Reverse(s) = u /\ Reverse(t) = v
    BY DEF Reverse
<1>3. u \in Seq(T) /\ Len(u) = Len(s)
  <2>1. \A i \in 1..Len(s) : (Len(s) - i) + 1 \in 1..Len(s)
      BY <1>1
  <2> QED
      BY <1>1, <2>1
<1>4. v \in Seq(T) /\ Len(v) = Len(t)
  <2>1. \A i \in 1..Len(t) : (Len(t) - i) + 1 \in 1..Len(t)
      BY <1>1
  <2> QED
      BY <1>1, <2>1
<1>5. \A i \in 1..Len(s) : u[i] = s[(Len(s) - i) + 1]
    OBVIOUS
<1>6. \A i \in 1..Len(t) : v[i] = t[(Len(t) - i) + 1]
    OBVIOUS
<1> HIDE DEF u, v
<1>7. \A i \in 1..Len(s) : u[i] = v[i]
  <2> TAKE i \in 1..Len(s)
  <2>1. (Len(s) - i) + 1 \in 1..Len(s) /\ i \in 1..Len(t)
      BY <1>1
  <2>2. s[(Len(s) - i) + 1] = t[Len(t) - Len(s) + ((Len(s) - i) + 1)]
      BY <2>1 DEF Ends
  <2>3. Len(t) - Len(s) + ((Len(s) - i) + 1) = (Len(t) - i) + 1
      BY <1>1
  <2> QED
      BY <1>5, <1>6, <2>1, <2>2, <2>3
<1>8. SubSeq(u, 1, Len(s)) = SubSeq(v, 1, Len(s))
    BY <1>1, <1>3, <1>4, <1>7
<1> QED
    BY <1>1, <1>2, <1>3, <1>4, <1>8 DEF IsSuffix, IsPrefix

(* The end of an end is an end.                                            *)
LEMMA EndsOfEnds ==
    ASSUME NEW T, NEW s \in Seq(T), NEW t \in Seq(T), NEW u \in Seq(T), Ends(s, t), Ends(t, u)
    PROVE  Ends(s, u)
<1>1. Len(s) \in Nat /\ Len(t) \in Nat /\ Len(u) \in Nat /\ Len(s) <= Len(t) /\ Len(t) <= Len(u)
    BY DEF Ends
<1>2. ASSUME NEW i \in 1..Len(s)
      PROVE  s[i] = u[Len(u) - Len(s) + i]
  <2>1. Len(t) - Len(s) + i \in 1..Len(t)
      BY <1>1
  <2>2. s[i] = t[Len(t) - Len(s) + i]
      BY DEF Ends
  <2>3. t[Len(t) - Len(s) + i] = u[Len(u) - Len(t) + (Len(t) - Len(s) + i)]
      BY <2>1 DEF Ends
  <2>4. Len(u) - Len(t) + (Len(t) - Len(s) + i) = Len(u) - Len(s) + i
      BY <1>1
  <2> QED
      BY <2>2, <2>3, <2>4
<1> QED
    BY <1>1, <1>2 DEF Ends

(* With one more item both lists end alike.                                *)
LEMMA EndsWithOneMore ==
    ASSUME NEW T, NEW s \in Seq(T), NEW t \in Seq(T), NEW x \in T, Ends(s, t)
    PROVE  Ends(Append(s, x), Append(t, x))
<1>1. Len(s) \in Nat /\ Len(t) \in Nat /\ Len(s) <= Len(t)
    BY DEF Ends
<1>2. Len(Append(s, x)) = Len(s) + 1 /\ Len(Append(t, x)) = Len(t) + 1
    OBVIOUS
<1>3. ASSUME NEW i \in 1..(Len(s) + 1)
      PROVE  Append(s, x)[i] = Append(t, x)[Len(t) - Len(s) + i]
  <2>1. CASE i = Len(s) + 1
      BY <1>1, <2>1
  <2>2. CASE i # Len(s) + 1
    <3>1. i \in 1..Len(s) /\ Len(t) - Len(s) + i \in 1..Len(t)
        BY <1>1, <2>2
    <3>2. s[i] = t[Len(t) - Len(s) + i]
        BY <3>1 DEF Ends
    <3> QED
        BY <3>1, <3>2
  <2> QED
      BY <2>1, <2>2
<1>4. Len(Append(t, x)) - Len(Append(s, x)) = Len(t) - Len(s)
    BY <1>1, <1>2
<1>5. \A i \in 1..Len(Append(s, x)) :
          Append(s, x)[i] = Append(t, x)[Len(Append(t, x)) - Len(Append(s, x)) + i]
    BY <1>2, <1>3, <1>4
<1>6. Len(Append(s, x)) <= Len(Append(t, x))
    BY <1>1, <1>2
<1> QED
    BY <1>5, <1>6 DEF Ends

(* Nothing ends any list, and a list itself.                               *)
LEMMA NothingEnds ==
    ASSUME NEW T, NEW t \in Seq(T)
    PROVE  Ends(<<>>, t) /\ Ends(t, t)
BY DEF Ends

(* What is among a list is found from its first item to its last.          *)
AmongUpTo(kept, list, wanted) ==
    /\ DOMAIN kept = 0..Len(list) /\ kept[0] = <<>>
    /\ \A n \in 1..Len(list) :
          kept[n] = IF list[n] \in wanted THEN Append(kept[n - 1], list[n]) ELSE kept[n - 1]

(* What Among() returns is what is found up to the last item.             *)
LEMMA AmongIs ==
    ASSUME NEW T, NEW list \in Seq(T), NEW wanted
    PROVE  \E kept : /\ AmongUpTo(kept, list, wanted)
                     /\ Among(list, wanted) = kept[Len(list)]
                     /\ \A n \in 0..Len(list) : kept[n] \in Seq(T)
<1> DEFINE Follows(f) == f = [n \in 0..Len(list) |->
                IF n = 0 THEN <<>>
                ELSE IF list[n] \in wanted THEN Append(f[n - 1], list[n]) ELSE f[n - 1]]
           kept == CHOOSE f : Follows(f)
           values == [n \in 0..Len(list) |-> Seq(T)]
           move == [n \in 1..Len(list) |-> [v \in Seq(T) |->
                        IF list[n] \in wanted THEN Append(v, list[n]) ELSE v]]
<1>1. Len(list) \in Nat /\ DOMAIN list = 1..Len(list) /\ \A n \in 1..Len(list) : list[n] \in T
    OBVIOUS
<1>2. \A n \in 1..Len(list), v \in Seq(T) :
          /\ move[n][v] = IF list[n] \in wanted THEN Append(v, list[n]) ELSE v
          /\ move[n][v] \in Seq(T)
    OBVIOUS
<1>3. \A n \in 0..Len(list) : values[n] = Seq(T)
    OBVIOUS
<1>4. <<>> \in values[0]
    BY <1>1, <1>3
<1> HIDE DEF move, values
<1>5. \A n \in 1..Len(list) : \A v \in values[n - 1] : move[n][v] \in values[n]
  <2> TAKE n \in 1..Len(list)
  <2>1. n - 1 \in 0..Len(list) /\ n \in 0..Len(list)
      BY <1>1
  <2> QED
      BY <1>2, <1>3, <2>1
<1>6. PICK on : IsTheWay(on, values, <<>>, Len(list), move)
    BY <1>1, <1>4, <1>5, StepsAreAFunction
<1>7. /\ IsFunctionOn(on, 0..Len(list)) /\ on[0] = <<>>
      /\ \A n \in 0..Len(list) : on[n] \in Seq(T)
      /\ \A n \in 1..Len(list) : on[n] = move[n][on[n - 1]]
    BY <1>3, <1>6 DEF IsTheWay
<1>8. \A n \in 1..Len(list) :
          on[n] = IF list[n] \in wanted THEN Append(on[n - 1], list[n]) ELSE on[n - 1]
  <2> TAKE n \in 1..Len(list)
  <2>1. n - 1 \in 0..Len(list)
      BY <1>1
  <2> QED
      BY <1>2, <1>7, <2>1
<1>9. \A n \in 0..Len(list) : on[n] =
          IF n = 0 THEN <<>>
          ELSE IF list[n] \in wanted THEN Append(on[n - 1], list[n]) ELSE on[n - 1]
  <2> TAKE n \in 0..Len(list)
  <2>1. n = 0 \/ n \in 1..Len(list)
      BY <1>1
  <2> QED
      BY <1>7, <1>8, <2>1
<1>10. Follows(on)
  <2>1. on = [n \in 0..Len(list) |-> on[n]]
      BY <1>7, Zenon DEF IsFunctionOn
  <2> QED
      BY <1>9, <2>1
<1>11. Follows(kept)
    BY <1>10
<1>12. Among(list, wanted) = kept[Len(list)]
    BY DEF Among
<1> HIDE DEF kept
<1>13. AmongUpTo(kept, list, wanted)
  <2>1. DOMAIN kept = 0..Len(list)
      BY <1>11
  <2>2. \A n \in 0..Len(list) : kept[n] =
          IF n = 0 THEN <<>>
          ELSE IF list[n] \in wanted THEN Append(kept[n - 1], list[n]) ELSE kept[n - 1]
      BY <1>11
  <2>3. kept[0] = <<>>
      BY <1>1, <2>2
  <2>4. \A n \in 1..Len(list) : kept[n] =
            IF list[n] \in wanted THEN Append(kept[n - 1], list[n]) ELSE kept[n - 1]
    <3> TAKE n \in 1..Len(list)
    <3>1. n \in 0..Len(list) /\ n # 0
        BY <1>1
    <3> QED
        BY <2>2, <3>1
  <2> QED
      BY <2>1, <2>3, <2>4 DEF AmongUpTo
<1>14. \A n \in 0..Len(list) : kept[n] \in Seq(T)
  <2> DEFINE typed == {n \in 0..Len(list) : kept[n] \in Seq(T)}
  <2>a. /\ kept[0] = <<>>
        /\ \A n \in 1..Len(list) :
              kept[n] = IF list[n] \in wanted THEN Append(kept[n - 1], list[n]) ELSE kept[n - 1]
      BY <1>13 DEF AmongUpTo
  <2>b. <<>> \in Seq(T)
      OBVIOUS
  <2>c. kept[0] \in Seq(T)
      BY <2>a, <2>b, Zenon
  <2>1. 0 \in typed
      BY <1>1, <2>c
  <2>2. ASSUME NEW n \in 1..Len(list), n - 1 \in typed
        PROVE  n \in typed
    <3>1. n \in 0..Len(list) /\ kept[n - 1] \in Seq(T) /\ list[n] \in T
        BY <1>1, <2>2
    <3>2. kept[n] = Append(kept[n - 1], list[n]) \/ kept[n] = kept[n - 1]
        BY <2>a, Zenon
    <3>3. Append(kept[n - 1], list[n]) \in Seq(T)
        BY <3>1
    <3>4. kept[n] \in Seq(T)
        BY <3>1, <3>2, <3>3, Zenon
    <3> QED
        BY <3>1, <3>4
  <2> HIDE DEF typed
  <2>3. \A n \in 0..Len(list) : n \in typed
      BY <1>1, <2>1, <2>2, CountingUp
  <2> QED
      BY <2>3 DEF typed
<1> QED
    BY <1>12, <1>13, <1>14

(* One more item is found, or not, after those found before it.            *)
LEMMA AmongWithOneMore ==
    ASSUME NEW T, NEW list \in Seq(T), NEW wanted, NEW x \in T
    PROVE  Among(Append(list, x), wanted)
              = IF x \in wanted THEN Append(Among(list, wanted), x) ELSE Among(list, wanted)
<1> DEFINE more == Append(list, x)
<1>1. /\ Len(list) \in Nat /\ more \in Seq(T) /\ Len(more) = Len(list) + 1
      /\ more[Len(list) + 1] = x /\ \A n \in 1..Len(list) : more[n] = list[n]
    OBVIOUS
<1> HIDE DEF more
<1>2. PICK kept : /\ AmongUpTo(kept, list, wanted)
                  /\ Among(list, wanted) = kept[Len(list)]
    BY AmongIs
<1>3. PICK keptMore : /\ AmongUpTo(keptMore, more, wanted)
                      /\ Among(more, wanted) = keptMore[Len(more)]
    BY <1>1, AmongIs
<1> DEFINE same == {n \in 0..Len(list) : kept[n] = keptMore[n]}
<1>4. 0 \in same
    BY <1>1, <1>2, <1>3 DEF AmongUpTo
<1>5. ASSUME NEW n \in 1..Len(list), n - 1 \in same
      PROVE  n \in same
  <2>1. n \in 0..Len(list) /\ n \in 1..Len(more) /\ kept[n - 1] = keptMore[n - 1]
      BY <1>1, <1>5
  <2> QED
      BY <1>1, <1>2, <1>3, <2>1 DEF AmongUpTo
<1> HIDE DEF same
<1>6. \A n \in 0..Len(list) : n \in same
    BY <1>1, <1>4, <1>5, CountingUp
<1>7. kept[Len(list)] = keptMore[Len(list)]
    BY <1>1, <1>6 DEF same
<1>8. Len(more) \in 1..Len(more) /\ Len(more) - 1 = Len(list)
    BY <1>1
<1>9. keptMore[Len(more)] = IF more[Len(more)] \in wanted
                            THEN Append(keptMore[Len(more) - 1], more[Len(more)])
                            ELSE keptMore[Len(more) - 1]
    BY <1>3, <1>8 DEF AmongUpTo
<1> QED
    BY <1>1, <1>2, <1>3, <1>7, <1>8, <1>9 DEF more

(* What is among a list is of its items; among none there is none.         *)
LEMMA AmongIsTyped ==
    ASSUME NEW T, NEW list \in Seq(T), NEW wanted
    PROVE  Among(list, wanted) \in Seq(T) /\ Among(<<>>, wanted) = <<>>
<1>1. Len(list) \in 0..Len(list)
    OBVIOUS
<1>2. Among(list, wanted) \in Seq(T)
    BY <1>1, AmongIs
<1>3. <<>> \in Seq(T) /\ Len(<<>>) = 0
    OBVIOUS
<1>4. PICK kept : AmongUpTo(kept, <<>>, wanted) /\ Among(<<>>, wanted) = kept[Len(<<>>)]
    BY <1>3, AmongIs
<1> QED
    BY <1>2, <1>3, <1>4 DEF AmongUpTo

(* What is among a list is of the set, and was come across in the list.    *)
LEMMA FoundAreWanted ==
    ASSUME NEW T, NEW list \in Seq(T), NEW wanted, NEW kept, AmongUpTo(kept, list, wanted),
           \A n \in 0..Len(list) : kept[n] \in Seq(T)
    PROVE  \A n \in 0..Len(list) : \A i \in 1..Len(kept[n]) :
              \E j \in 1..n : kept[n][i] = list[j] /\ list[j] \in wanted
<1>2. Len(list) \in Nat /\ \A n \in 1..Len(list) : list[n] \in T
    OBVIOUS
<1>1. /\ kept[0] = <<>>
      /\ \A n \in 1..Len(list) :
            kept[n] = IF list[n] \in wanted THEN Append(kept[n - 1], list[n]) ELSE kept[n - 1]
    BY DEF AmongUpTo
<1> DEFINE Found(n) == \A i \in 1..Len(kept[n]) :
                           \E j \in 1..n : kept[n][i] = list[j] /\ list[j] \in wanted
           holds == {n \in 0..Len(list) : Found(n)}
<1>3. 0 \in holds
    BY <1>1, <1>2
<1>4. ASSUME NEW n \in 1..Len(list), n - 1 \in holds
      PROVE  n \in holds
  <2>1. n \in 0..Len(list) /\ n - 1 \in 0..Len(list) /\ Found(n - 1)
      BY <1>2, <1>4
  <2>2. kept[n - 1] \in Seq(T) /\ list[n] \in T /\ 1..(n - 1) \subseteq 1..n /\ n \in 1..n
      BY <1>2, <2>1
  <2>3. CASE list[n] \in wanted
    <3>1. kept[n] = Append(kept[n - 1], list[n])
        BY <1>1, <2>3
    <3>2. ASSUME NEW i \in 1..Len(kept[n])
          PROVE  \E j \in 1..n : kept[n][i] = list[j] /\ list[j] \in wanted
      <4>1. Len(kept[n]) = Len(kept[n - 1]) + 1 /\ Len(kept[n - 1]) \in Nat
          BY <2>2, <3>1
      <4>2. CASE i = Len(kept[n - 1]) + 1
        <5>1. kept[n][i] = list[n]
            BY <2>2, <3>1, <4>1, <4>2
        <5> QED
            BY <2>2, <2>3, <5>1
      <4>3. CASE i # Len(kept[n - 1]) + 1
        <5>1. i \in 1..Len(kept[n - 1]) /\ kept[n][i] = kept[n - 1][i]
            BY <2>2, <3>1, <4>1, <4>3
        <5> QED
            BY <2>1, <2>2, <5>1
      <4> QED
          BY <4>2, <4>3
    <3> QED
        BY <2>1, <3>2
  <2>4. CASE list[n] \notin wanted
    <3>1. kept[n] = kept[n - 1]
        BY <1>1, <2>4
    <3>2. Found(n)
        BY <2>1, <2>2, <3>1
    <3> QED
        BY <2>1, <3>2
  <2> QED
      BY <2>3, <2>4
<1> HIDE DEF holds
<1>5. \A n \in 0..Len(list) : n \in holds
    BY <1>2, <1>3, <1>4, CountingUp
<1> QED
    BY <1>5 DEF holds

(* What is among a list is wanted.                                         *)
LEMMA AmongAreWanted ==
    ASSUME NEW T, NEW list \in Seq(T), NEW wanted
    PROVE  \A i \in 1..Len(Among(list, wanted)) : Among(list, wanted)[i] \in wanted
<1>1. PICK kept : /\ AmongUpTo(kept, list, wanted)
                  /\ Among(list, wanted) = kept[Len(list)]
                  /\ \A n \in 0..Len(list) : kept[n] \in Seq(T)
    BY AmongIs
<1>2. Len(list) \in 0..Len(list)
    OBVIOUS
<1>3. \A i \in 1..Len(kept[Len(list)]) :
          \E j \in 1..Len(list) : kept[Len(list)][i] = list[j] /\ list[j] \in wanted
    BY <1>1, <1>2, FoundAreWanted
<1> QED
    BY <1>1, <1>3

(* What is among a list of a narrower set comes last, if nothing but what  *)
(* is in it comes after one that is.                                       *)
LEMMA AmongTheLater ==
    ASSUME NEW T, NEW list \in Seq(T), NEW wide, NEW narrow,
           \A i \in 1..Len(list) : list[i] \in narrow =>
              /\ list[i] \in wide
              /\ \A j \in i..Len(list) : list[j] \in wide => list[j] \in narrow
    PROVE  Ends(Among(list, narrow), Among(list, wide))
<1>1. PICK few : /\ AmongUpTo(few, list, narrow)
                 /\ Among(list, narrow) = few[Len(list)]
                 /\ \A n \in 0..Len(list) : few[n] \in Seq(T)
    BY AmongIs
<1>2. PICK many : /\ AmongUpTo(many, list, wide)
                  /\ Among(list, wide) = many[Len(list)]
                  /\ \A n \in 0..Len(list) : many[n] \in Seq(T)
    BY AmongIs
<1>3. Len(list) \in Nat /\ \A n \in 1..Len(list) : list[n] \in T
    OBVIOUS
<1>4. /\ few[0] = <<>>
      /\ \A n \in 1..Len(list) :
            few[n] = IF list[n] \in narrow THEN Append(few[n - 1], list[n]) ELSE few[n - 1]
    BY <1>1 DEF AmongUpTo
<1>5. /\ many[0] = <<>>
      /\ \A n \in 1..Len(list) :
            many[n] = IF list[n] \in wide THEN Append(many[n - 1], list[n]) ELSE many[n - 1]
    BY <1>2 DEF AmongUpTo
<1> DEFINE holds == {n \in 0..Len(list) :
                        /\ Ends(few[n], many[n])
                        /\ few[n] = <<>> \/ \E i \in 1..n : list[i] \in narrow}
<1>6. 0 \in holds
  <2>1. few[0] \in Seq(T) /\ many[0] \in Seq(T) /\ few[0] = many[0]
      BY <1>1, <1>2, <1>3, <1>4, <1>5
  <2>2. Ends(few[0], many[0])
      BY <2>1, NothingEnds
  <2> QED
      BY <1>3, <1>4, <2>2
<1>7. ASSUME NEW n \in 1..Len(list), n - 1 \in holds
      PROVE  n \in holds
  <2>1. /\ n \in 0..Len(list) /\ n - 1 \in 0..Len(list)
        /\ Ends(few[n - 1], many[n - 1])
        /\ few[n - 1] = <<>> \/ \E i \in 1..(n - 1) : list[i] \in narrow
      BY <1>3, <1>7
  <2>2. few[n - 1] \in Seq(T) /\ many[n - 1] \in Seq(T) /\ list[n] \in T
      BY <1>1, <1>2, <1>3, <2>1
  <2>3. CASE list[n] \in narrow
    <3>1. list[n] \in wide
        BY <2>3
    <3>2. few[n] = Append(few[n - 1], list[n]) /\ many[n] = Append(many[n - 1], list[n])
        BY <1>4, <1>5, <2>3, <3>1
    <3>3. Ends(few[n], many[n])
        BY <2>1, <2>2, <3>2, EndsWithOneMore
    <3>4. n \in 1..n
        OBVIOUS
    <3> QED
        BY <2>1, <2>3, <3>3, <3>4
  <2>4. CASE list[n] \notin narrow /\ list[n] \notin wide
    <3>1. few[n] = few[n - 1] /\ many[n] = many[n - 1]
        BY <1>4, <1>5, <2>4
    <3>2. 1..(n - 1) \subseteq 1..n
        OBVIOUS
    <3> QED
        BY <2>1, <3>1, <3>2
  <2>5. CASE list[n] \notin narrow /\ list[n] \in wide
    <3>1. \A i \in 1..(n - 1) : list[i] \notin narrow
      <4> SUFFICES ASSUME NEW i \in 1..(n - 1), list[i] \in narrow
                   PROVE  FALSE
          OBVIOUS
      <4>1. i \in 1..Len(list) /\ n \in i..Len(list)
          BY <1>3
      <4> QED
          BY <2>5, <4>1
    <3>2. few[n - 1] = <<>>
        BY <2>1, <3>1
    <3>3. few[n] = <<>>
        BY <1>4, <2>5, <3>2
    <3>4. many[n] \in Seq(T)
        BY <1>2, <2>1
    <3>5. Ends(few[n], many[n])
        BY <3>3, <3>4, NothingEnds
    <3> QED
        BY <2>1, <3>3, <3>5
  <2> QED
      BY <2>3, <2>4, <2>5
<1> HIDE DEF holds
<1>8. \A n \in 0..Len(list) : n \in holds
    BY <1>3, <1>6, <1>7, CountingUp
<1> QED
    BY <1>1, <1>2, <1>3, <1>8 DEF holds

(* A list without its first item has the same at its end.                  *)
LEMMA AmongTheTail ==
    ASSUME NEW T, NEW list \in Seq(T), list # <<>>, NEW wanted
    PROVE  Ends(Among(Tail(list), wanted), Among(list, wanted))
<1> DEFINE rest == Tail(list)
<1>1. /\ Len(list) \in Nat /\ Len(list) > 0 /\ rest \in Seq(T) /\ Len(rest) = Len(list) - 1
      /\ \A n \in 1..Len(rest) : rest[n] = list[n + 1]
      /\ \A n \in 1..Len(list) : list[n] \in T
    OBVIOUS
<1> HIDE DEF rest
<1>2. PICK few : /\ AmongUpTo(few, rest, wanted)
                 /\ Among(rest, wanted) = few[Len(rest)]
                 /\ \A n \in 0..Len(rest) : few[n] \in Seq(T)
    BY <1>1, AmongIs
<1>3. PICK many : /\ AmongUpTo(many, list, wanted)
                  /\ Among(list, wanted) = many[Len(list)]
                  /\ \A n \in 0..Len(list) : many[n] \in Seq(T)
    BY AmongIs
<1>4. /\ few[0] = <<>>
      /\ \A n \in 1..Len(rest) :
            few[n] = IF rest[n] \in wanted THEN Append(few[n - 1], rest[n]) ELSE few[n - 1]
    BY <1>2 DEF AmongUpTo
<1>5. \A n \in 1..Len(list) :
          many[n] = IF list[n] \in wanted THEN Append(many[n - 1], list[n]) ELSE many[n - 1]
    BY <1>3 DEF AmongUpTo
<1> DEFINE holds == {n \in 0..Len(rest) : Ends(few[n], many[n + 1])}
<1>6. 0 \in holds
  <2>1. many[1] \in Seq(T) /\ 0 \in 0..Len(rest) /\ 0 + 1 = 1
      BY <1>1, <1>3
  <2>2. Ends(few[0], many[0 + 1])
      BY <1>4, <2>1, NothingEnds
  <2> QED
      BY <2>1, <2>2
<1>7. ASSUME NEW n \in 1..Len(rest), n - 1 \in holds
      PROVE  n \in holds
  <2>1. /\ n \in 0..Len(rest) /\ n - 1 \in 0..Len(rest) /\ n \in 0..Len(list)
        /\ n + 1 \in 1..Len(list) /\ (n + 1) - 1 = n /\ (n - 1) + 1 = n
        /\ Ends(few[n - 1], many[n])
      BY <1>1, <1>7
  <2>2. few[n - 1] \in Seq(T) /\ many[n] \in Seq(T) /\ rest[n] \in T /\ rest[n] = list[n + 1]
      BY <1>1, <1>2, <1>3, <2>1
  <2>3. CASE rest[n] \in wanted
    <3>1. few[n] = Append(few[n - 1], rest[n]) /\ many[n + 1] = Append(many[n], rest[n])
        BY <1>4, <1>5, <2>1, <2>2, <2>3
    <3>2. Ends(few[n], many[n + 1])
        BY <2>1, <2>2, <3>1, EndsWithOneMore
    <3> QED
        BY <2>1, <3>2
  <2>4. CASE rest[n] \notin wanted
    <3>1. few[n] = few[n - 1] /\ many[n + 1] = many[n]
        BY <1>4, <1>5, <2>1, <2>2, <2>4
    <3> QED
        BY <2>1, <3>1
  <2> QED
      BY <2>3, <2>4
<1> HIDE DEF holds
<1>a. Len(rest) \in Nat
    BY <1>1
<1>8. \A n \in 0..Len(rest) : n \in holds
    BY <1>6, <1>7, <1>a, CountingUp
<1>9. Len(rest) \in 0..Len(rest) /\ Len(rest) + 1 = Len(list)
    BY <1>1
<1>10. Ends(few[Len(rest)], many[Len(list)])
    BY <1>8, <1>9 DEF holds
<1> QED
    BY <1>2, <1>3, <1>10 DEF rest

(* The refs of a hook, and what a step of it computes from.                *)
HookRefs == [samples : Seq(Sample), lastCompute : Int, pending : Int]
HookSteps == [refs : HookRefs, lists : Seq(Seq(Sample))]
RefsSound(refs) == refs \in HookRefs /\ refs.lastCompute >= -PollMs
(* What a hook computes from last, in a step or before it; none is unseen. *)
ComputedBy(step, before) == IF step.lists = <<>> THEN before ELSE Last(step.lists)
Seen(step, before) ==
    step.refs.pending = Never => ComputedBy(step, before) = step.refs.samples
InWindow(h, now) == {s \in Sample : s.startTime >= now - WindowMs /\ Wants(h, s)}

(* The panel's constants are numbers.                                      *)
LEMMA CoachConstants ==
    /\ {MaxSamples, WindowMs, RecentMs, PollMs, PreviewMs, TopN} \subseteq Nat \ {0}
    /\ {MaxClock, MaxShifts, MaxMounts, MaxChanges} \subseteq Nat
    /\ Selectors \subseteq Nat \ {0} /\ NoSource = 0 /\ Never = -1 /\ LongAgo = -PollMs
BY CoachAssumption DEF NoSource, Never, LongAgo

(* A pruned list keeps its end, as far as it is of the window.             *)
LEMMA PrunedKeepsTheEnd ==
    ASSUME clock \in Nat, NEW list \in Seq(Sample)
    PROVE  /\ Pruned(list) \in Seq(Sample)
           /\ \A s \in Seq(Sample) :
                 /\ Ends(s, list)
                 /\ \A i \in 1..Len(s) : s[i].startTime >= clock - WindowMs
                 => Ends(s, Pruned(list))
<1> DEFINE recents == {i \in 1..Len(list) : list[i].startTime >= clock - WindowMs}
           from == SelectInSeq(list, LAMBDA s : s.startTime >= clock - WindowMs)
<1>1. Len(list) \in Nat /\ \A i \in 1..Len(list) : list[i] \in Sample
    OBVIOUS
<1>2. from = IF recents # {} THEN Min(recents) ELSE 0
    BY DEF SelectInSeq
<1>3. Pruned(list) = IF from = 0 THEN <<>> ELSE SubSeq(list, from, Len(list))
    BY DEF Pruned
<1>4. recents \in SUBSET Nat /\ recents \subseteq 1..Len(list)
    BY <1>1
<1>5. \A i \in 1..Len(list) : list[i].startTime >= clock - WindowMs => i \in recents
    OBVIOUS
<1> HIDE DEF recents, from
<1>6. CASE recents = {}
  <2>1. Pruned(list) = <<>>
      BY <1>2, <1>3, <1>6
  <2>2. ASSUME NEW s \in Seq(Sample), Ends(s, list),
               \A i \in 1..Len(s) : s[i].startTime >= clock - WindowMs
        PROVE  Ends(s, <<>>)
    <3>1. Len(s) \in Nat /\ Len(s) <= Len(list)
        BY <2>2 DEF Ends
    <3>2. Len(s) = 0
      <4> SUFFICES ASSUME Len(s) # 0
                   PROVE  FALSE
          OBVIOUS
      <4>1. 1 \in 1..Len(s) /\ Len(list) - Len(s) + 1 \in 1..Len(list)
          BY <1>1, <3>1
      <4>2. s[1] = list[Len(list) - Len(s) + 1]
          BY <2>2, <4>1 DEF Ends
      <4>3. s[1].startTime >= clock - WindowMs
          BY <2>2, <4>1
      <4>4. Len(list) - Len(s) + 1 \in recents
          BY <1>5, <4>1, <4>2, <4>3
      <4> QED
          BY <1>6, <4>4
    <3> QED
        BY <3>2 DEF Ends
  <2> QED
      BY <2>1, <2>2
<1>7. CASE recents # {}
  <2>1. PICK k \in recents : k = Min(recents) /\ \A i \in recents : k <= i
      BY <1>4, <1>7, LeastIs
  <2>2. k \in 1..Len(list)
      BY <1>4, <2>1
  <2>3. Pruned(list) = SubSeq(list, k, Len(list))
      BY <1>2, <1>3, <1>7, <2>1, <2>2
  <2> DEFINE left == SubSeq(list, k, Len(list))
  <2>4. /\ left \in Seq(Sample) /\ Len(left) = Len(list) - k + 1
        /\ \A i \in 1..Len(left) : left[i] = list[k + i - 1]
      BY <1>1, <2>2
  <2> HIDE DEF left
  <2>5. ASSUME NEW s \in Seq(Sample), Ends(s, list),
               \A i \in 1..Len(s) : s[i].startTime >= clock - WindowMs
        PROVE  Ends(s, left)
    <3>1. Len(s) \in Nat /\ Len(s) <= Len(list)
        BY <2>5 DEF Ends
    <3>2. Len(s) <= Len(left)
      <4>1. CASE Len(s) = 0
          BY <1>1, <2>2, <2>4, <4>1
      <4>2. CASE Len(s) # 0
        <5>1. 1 \in 1..Len(s) /\ Len(list) - Len(s) + 1 \in 1..Len(list)
            BY <1>1, <3>1, <4>2
        <5>2. s[1] = list[Len(list) - Len(s) + 1]
            BY <2>5, <5>1 DEF Ends
        <5>3. s[1].startTime >= clock - WindowMs
            BY <2>5, <5>1
        <5>4. Len(list) - Len(s) + 1 \in recents
            BY <1>5, <5>1, <5>2, <5>3
        <5>5. k <= Len(list) - Len(s) + 1
            BY <2>1, <5>4
        <5> QED
            BY <1>1, <2>2, <2>4, <3>1, <5>5
      <4> QED
          BY <4>1, <4>2
    <3>3. ASSUME NEW i \in 1..Len(s)
          PROVE  s[i] = left[Len(left) - Len(s) + i]
      <4>1. Len(left) - Len(s) + i \in 1..Len(left)
          BY <1>1, <2>2, <2>4, <3>1, <3>2
      <4>2. left[Len(left) - Len(s) + i] = list[k + (Len(left) - Len(s) + i) - 1]
          BY <2>4, <4>1
      <4>3. k + (Len(left) - Len(s) + i) - 1 = Len(list) - Len(s) + i
          BY <1>1, <2>2, <2>4, <3>1
      <4>4. s[i] = list[Len(list) - Len(s) + i]
          BY <2>5 DEF Ends
      <4> QED
          BY <4>2, <4>3, <4>4
    <3> QED
        BY <3>2, <3>3 DEF Ends
  <2> QED
      BY <2>3, <2>4, <2>5 DEF left
<1> QED
    BY <1>6, <1>7

(* A hook that computes again has seen all its samples.                    *)
LEMMA RecomputedSees ==
    ASSUME clock \in Nat, NEW step \in HookSteps, RefsSound(step.refs)
    PROVE  LET after == Recomputed(step)
           IN  /\ after \in HookSteps /\ RefsSound(after.refs)
               /\ after.lists # <<>> /\ Last(after.lists) = after.refs.samples
               /\ after.refs.pending = step.refs.pending
               /\ \A s \in Seq(Sample) :
                     /\ Ends(s, step.refs.samples)
                     /\ \A i \in 1..Len(s) : s[i].startTime >= clock - WindowMs
                     => Ends(s, after.refs.samples)
<1> DEFINE list == Pruned(step.refs.samples)
<1>1. step.refs \in HookRefs /\ step.refs.samples \in Seq(Sample) /\ step.lists \in Seq(Seq(Sample))
    BY DEF HookSteps, HookRefs
<1>2. list \in Seq(Sample)
    BY <1>1, PrunedKeepsTheEnd
<1>3. \A s \in Seq(Sample) :
          /\ Ends(s, step.refs.samples)
          /\ \A i \in 1..Len(s) : s[i].startTime >= clock - WindowMs
          => Ends(s, list)
    BY <1>1, PrunedKeepsTheEnd
<1> HIDE DEF list
<1>4. Recomputed(step) = [refs |-> [step.refs EXCEPT !.samples = list],
                          lists |-> Append(step.lists, list)]
    BY DEF Recomputed, list
<1> DEFINE refs == [step.refs EXCEPT !.samples = list]
<1>5. /\ refs \in HookRefs /\ refs.samples = list /\ refs.pending = step.refs.pending
      /\ refs.lastCompute = step.refs.lastCompute
    BY <1>1, <1>2 DEF HookRefs
<1>6. /\ Append(step.lists, list) \in Seq(Seq(Sample)) /\ Append(step.lists, list) # <<>>
      /\ Last(Append(step.lists, list)) = list
    BY <1>1, <1>2 DEF Last
<1> HIDE DEF refs
<1>7. /\ Recomputed(step).refs = refs /\ Recomputed(step).lists = Append(step.lists, list)
      /\ Recomputed(step) \in HookSteps
    BY <1>4, <1>5, <1>6 DEF HookSteps, refs
<1>8. RefsSound(refs)
    BY <1>5 DEF RefsSound
<1> QED
    BY <1>3, <1>5, <1>6, <1>7, <1>8

(* What schedule() does with refs: they compute at once, wait or stay.     *)
LEMMA ScheduledSees ==
    ASSUME clock \in Nat, NEW step \in HookSteps, RefsSound(step.refs)
    PROVE  LET after == Scheduled(step)
           IN  /\ after \in HookSteps /\ RefsSound(after.refs)
               /\ \A before : Seen(after, before)
               /\ \A s \in Seq(Sample) :
                     /\ Ends(s, step.refs.samples)
                     /\ \A i \in 1..Len(s) : s[i].startTime >= clock - WindowMs
                     => Ends(s, after.refs.samples)
<1> DEFINE refs == step.refs
           due == [step EXCEPT !.refs.lastCompute = clock]
           waits == [step EXCEPT !.refs.pending = refs.lastCompute + PollMs]
<1>1. /\ refs \in HookRefs /\ step.lists \in Seq(Seq(Sample))
      /\ refs.lastCompute \in Int /\ refs.pending \in Int /\ refs.lastCompute >= -PollMs
    BY DEF HookSteps, HookRefs, RefsSound
<1>2. PollMs \in Nat /\ Never = -1
    BY CoachConstants
<1>3. CASE clock - refs.lastCompute >= PollMs
  <2>1. /\ due \in HookSteps /\ due.refs.samples = refs.samples /\ due.refs.lastCompute = clock
      BY <1>1 DEF HookSteps, HookRefs
  <2>2. RefsSound(due.refs)
    <3>1. due.refs \in HookRefs
        BY <2>1 DEF HookSteps
    <3>2. clock >= -PollMs
        BY <1>2
    <3> QED
        BY <2>1, <3>1, <3>2 DEF RefsSound
  <2>3. Scheduled(step) = Recomputed(due)
      BY <1>3 DEF Scheduled
  <2> HIDE DEF due
  <2> DEFINE after == Recomputed(due)
  <2>4. /\ after \in HookSteps /\ RefsSound(after.refs)
        /\ after.lists # <<>> /\ Last(after.lists) = after.refs.samples
        /\ \A s \in Seq(Sample) :
              /\ Ends(s, due.refs.samples)
              /\ \A i \in 1..Len(s) : s[i].startTime >= clock - WindowMs
              => Ends(s, after.refs.samples)
      BY <2>1, <2>2, RecomputedSees
  <2> HIDE DEF after
  <2>5. \A before : Seen(after, before)
      BY <2>4 DEF Seen, ComputedBy
  <2> QED
      BY <2>1, <2>3, <2>4, <2>5 DEF after
<1>4. CASE ~(clock - refs.lastCompute >= PollMs) /\ refs.pending # Never
  <2>1. Scheduled(step) = step
      BY <1>4 DEF Scheduled
  <2> QED
      BY <1>4, <2>1 DEF Seen
<1>5. CASE ~(clock - refs.lastCompute >= PollMs) /\ refs.pending = Never
  <2>1. Scheduled(step) = waits
      BY <1>5 DEF Scheduled
  <2>2. refs.lastCompute + PollMs \in Int /\ refs.lastCompute + PollMs # Never
      BY <1>1, <1>2
  <2>3. /\ waits \in HookSteps /\ waits.refs.samples = refs.samples
        /\ waits.refs.lastCompute = refs.lastCompute /\ waits.refs.pending # Never
      BY <1>1, <2>2 DEF HookSteps, HookRefs
  <2> HIDE DEF waits
  <2>4. RefsSound(waits.refs)
      BY <1>1, <2>3 DEF RefsSound, HookSteps
  <2> QED
      BY <2>1, <2>3, <2>4 DEF Seen
<1> QED
    BY <1>3, <1>4, <1>5

(* A sample that comes to a hook is held after those of the window, and is *)
(* seen or will be.                                                        *)
LEMMA IngestedSees ==
    ASSUME clock \in Nat, NEW h \in Hooks, NEW step \in HookSteps, RefsSound(step.refs),
           NEW x \in Sample
    PROVE  LET after == Ingested(h, step, x)
           IN  /\ after \in HookSteps /\ RefsSound(after.refs)
               /\ \A before : Seen(step, before) => Seen(after, before)
               /\ \A s \in Seq(Sample) :
                     /\ Ends(s, step.refs.samples)
                     /\ \A i \in 1..Len(s) : s[i].startTime >= clock - WindowMs
                     => IF Wants(h, x)
                        THEN x.startTime >= clock - WindowMs => Ends(Append(s, x), after.refs.samples)
                        ELSE Ends(s, after.refs.samples)
<1>1. CASE ~Wants(h, x)
  <2>1. Ingested(h, step, x) = step
      BY <1>1 DEF Ingested
  <2> QED
      BY <1>1, <2>1
<1>2. CASE Wants(h, x)
  <2> DEFINE list == Pruned(step.refs.samples)
             more == Append(list, x)
             taken == [step EXCEPT !.refs.samples = more]
  <2>1. Ingested(h, step, x) = Scheduled(taken)
      BY <1>2 DEF Ingested
  <2>2. /\ step.refs \in HookRefs /\ step.refs.samples \in Seq(Sample)
        /\ step.lists \in Seq(Seq(Sample)) /\ step.refs.lastCompute \in Int
      BY DEF HookSteps, HookRefs
  <2>3. list \in Seq(Sample)
      BY <2>2, PrunedKeepsTheEnd
  <2>4. \A s \in Seq(Sample) :
            /\ Ends(s, step.refs.samples)
            /\ \A i \in 1..Len(s) : s[i].startTime >= clock - WindowMs
            => Ends(s, list)
      BY <2>2, PrunedKeepsTheEnd
  <2> HIDE DEF list
  <2>5. more \in Seq(Sample)
      BY <2>3
  <2>6. ASSUME NEW s \in Seq(Sample), Ends(s, list)
        PROVE  Ends(Append(s, x), more)
      BY <2>3, <2>6, EndsWithOneMore
  <2> HIDE DEF more
  <2>7. /\ taken \in HookSteps /\ taken.refs.samples = more
        /\ taken.refs.lastCompute = step.refs.lastCompute
      BY <2>2, <2>5 DEF HookSteps, HookRefs
  <2> HIDE DEF taken
  <2>8. RefsSound(taken.refs)
      BY <2>7 DEF RefsSound, HookSteps
  <2> DEFINE after == Scheduled(taken)
  <2>9. /\ after \in HookSteps /\ RefsSound(after.refs)
        /\ \A before : Seen(after, before)
        /\ \A s \in Seq(Sample) :
              /\ Ends(s, taken.refs.samples)
              /\ \A i \in 1..Len(s) : s[i].startTime >= clock - WindowMs
              => Ends(s, after.refs.samples)
      BY <2>7, <2>8, ScheduledSees
  <2> HIDE DEF after
  <2>10. ASSUME NEW s \in Seq(Sample), Ends(s, step.refs.samples),
                \A i \in 1..Len(s) : s[i].startTime >= clock - WindowMs,
                x.startTime >= clock - WindowMs
         PROVE  Ends(Append(s, x), after.refs.samples)
    <3>1. Ends(Append(s, x), more)
        BY <2>4, <2>6, <2>10
    <3>2. /\ Append(s, x) \in Seq(Sample) /\ Len(Append(s, x)) = Len(s) + 1 /\ Len(s) \in Nat
          /\ \A i \in 1..Len(s) : Append(s, x)[i] = s[i]
          /\ Append(s, x)[Len(s) + 1] = x
        OBVIOUS
    <3>3. ASSUME NEW i \in 1..Len(Append(s, x))
          PROVE  Append(s, x)[i].startTime >= clock - WindowMs
      <4>1. i \in 1..Len(s) \/ i = Len(s) + 1
          BY <3>2
      <4>2. CASE i \in 1..Len(s)
          BY <2>10, <3>2, <4>2
      <4>3. CASE i = Len(s) + 1
          BY <2>10, <3>2, <4>3
      <4> QED
          BY <4>1, <4>2, <4>3
    <3> QED
        BY <2>7, <2>9, <3>1, <3>2, <3>3
  <2>11. Ingested(h, step, x) = after
      BY <2>1 DEF after
  <2> QED
      BY <1>2, <2>9, <2>10, <2>11
<1> QED
    BY <1>1, <1>2

(* Samples are retained in the order they were measured in.                *)
SamplesInOrder ==
    /\ \A i \in 1..Len(recentSamples) : recentSamples[i].startTime <= clock
    /\ \A i \in 1..Len(recentSamples), j \in 1..Len(recentSamples) :
          i <= j => recentSamples[i].startTime <= recentSamples[j].startTime

(* A hook that comes late is replayed all the samples of the window.       *)
LEMMA ReplayedSees ==
    ASSUME clock \in Nat, NEW h \in Hooks, recentSamples \in Seq(Sample), SamplesInOrder
    PROVE  LET after == Replayed(h)
           IN  /\ after \in HookSteps /\ RefsSound(after.refs)
               /\ Ends(Among(recentSamples, InWindow(h, clock)), after.refs.samples)
<1> DEFINE last == Len(recentSamples)
           start == [refs |-> NoRefs, lists |-> <<>>]
           Follows(f) == f = [n \in 0..last |->
                IF n = 0 THEN start ELSE Ingested(h, f[n - 1], recentSamples[n])]
           after == CHOOSE f : Follows(f)
           fitting == {step \in HookSteps : RefsSound(step.refs)}
           wanted == InWindow(h, clock)
<1>1. last \in Nat /\ last \in 0..last /\ 0 \in 0..last /\ \A n \in 1..last : recentSamples[n] \in Sample
    OBVIOUS
<1>2. PICK kept : /\ AmongUpTo(kept, recentSamples, wanted)
                  /\ Among(recentSamples, wanted) = kept[last]
                  /\ \A n \in 0..last : kept[n] \in Seq(Sample)
    BY AmongIs
<1>3. /\ kept[0] = <<>>
      /\ \A n \in 1..last : kept[n] = IF recentSamples[n] \in wanted
                                      THEN Append(kept[n - 1], recentSamples[n]) ELSE kept[n - 1]
    BY <1>2 DEF AmongUpTo
<1>4. \A n \in 0..last : \A i \in 1..Len(kept[n]) :
          \E j \in 1..n : kept[n][i] = recentSamples[j] /\ recentSamples[j] \in wanted
    BY <1>2, FoundAreWanted
<1> DEFINE values == [n \in 0..last |-> {step \in fitting : Ends(kept[n], step.refs.samples)}]
           move == [n \in 1..last |-> [step \in fitting |-> Ingested(h, step, recentSamples[n])]]
<1>5. start \in values[0]
  <2>1. NoRefs \in HookRefs /\ NoRefs.lastCompute = -PollMs /\ NoRefs.samples = <<>>
      BY CoachConstants DEF NoRefs, HookRefs
  <2>2. start \in HookSteps /\ start.refs = NoRefs
      BY <2>1 DEF HookSteps
  <2>3. RefsSound(NoRefs)
      BY <2>1, CoachConstants DEF RefsSound
  <2>4. Ends(kept[0], NoRefs.samples)
      BY <1>3, <2>1 DEF Ends
  <2> HIDE DEF start
  <2> QED
      BY <1>1, <2>2, <2>3, <2>4
<1>6. \A n \in 0..last : values[n] = {step \in fitting : Ends(kept[n], step.refs.samples)}
    OBVIOUS
<1>7. \A n \in 1..last, step \in fitting : move[n][step] = Ingested(h, step, recentSamples[n])
    OBVIOUS
<1> HIDE DEF values, move, start
<1>8. \A n \in 1..last : \A v \in values[n - 1] : move[n][v] \in values[n]
  <2> SUFFICES ASSUME NEW n \in 1..last, NEW step \in values[n - 1]
               PROVE  move[n][step] \in values[n]
      OBVIOUS
  <2>1. n - 1 \in 0..last /\ n \in 0..last
      BY <1>1
  <2>2. step \in fitting /\ Ends(kept[n - 1], step.refs.samples)
      BY <1>6, <2>1
  <2>3. step \in HookSteps /\ RefsSound(step.refs)
      BY <2>2
  <2> DEFINE x == recentSamples[n]
             next == Ingested(h, step, x)
  <2>4. x \in Sample
      BY <1>1
  <2>5. kept[n - 1] \in Seq(Sample)
      BY <1>2, <2>1
  <2>6. \A i \in 1..Len(kept[n - 1]) : kept[n - 1][i].startTime >= clock - WindowMs
      BY <1>4, <2>1 DEF InWindow
  <2>7. /\ next \in HookSteps /\ RefsSound(next.refs)
        /\ \A s \in Seq(Sample) :
              /\ Ends(s, step.refs.samples)
              /\ \A i \in 1..Len(s) : s[i].startTime >= clock - WindowMs
              => IF Wants(h, x)
                 THEN x.startTime >= clock - WindowMs => Ends(Append(s, x), next.refs.samples)
                 ELSE Ends(s, next.refs.samples)
      BY <2>3, <2>4, IngestedSees
  <2>8. kept[n] = IF x \in wanted THEN Append(kept[n - 1], x) ELSE kept[n - 1]
      BY <1>3
  <2>9. move[n][step] = next
      BY <1>7, <2>2
  <2> HIDE DEF next
  <2>10. Ends(kept[n], next.refs.samples)
    <3>1. CASE ~Wants(h, x)
      <4>1. x \notin wanted
          BY <3>1 DEF InWindow
      <4> QED
          BY <2>2, <2>5, <2>6, <2>7, <2>8, <3>1, <4>1
    <3>2. CASE Wants(h, x) /\ x.startTime >= clock - WindowMs
      <4>1. x \in wanted
          BY <2>4, <3>2 DEF InWindow
      <4> QED
          BY <2>2, <2>5, <2>6, <2>7, <2>8, <3>2, <4>1
    <3>3. CASE ~(x.startTime >= clock - WindowMs)
      <4>1. x \notin wanted
          BY <3>3 DEF InWindow
      <4>2. kept[n - 1] = <<>>
        <5> SUFFICES ASSUME kept[n - 1] # <<>>
                     PROVE  FALSE
            OBVIOUS
        <5>1. 1 \in 1..Len(kept[n - 1])
            BY <2>5
        <5>2. PICK j \in 1..(n - 1) : recentSamples[j] \in wanted
            BY <1>4, <2>1, <5>1
        <5>3. j \in 1..last /\ j <= n
            BY <1>1, <2>1
        <5>4. recentSamples[j].startTime <= x.startTime
            BY <5>3 DEF SamplesInOrder
        <5>5. recentSamples[j].startTime >= clock - WindowMs
            BY <5>2 DEF InWindow
        <5>6. recentSamples[j].startTime \in Int /\ x.startTime \in Int /\ WindowMs \in Nat
            BY <1>1, <2>4, <5>3, CoachConstants DEF Sample
        <5> QED
            BY <3>3, <5>4, <5>5, <5>6
      <4>3. kept[n] = <<>>
          BY <2>8, <4>1, <4>2
      <4>4. next.refs.samples \in Seq(Sample)
          BY <2>7 DEF HookSteps, HookRefs
      <4> QED
          BY <4>3, <4>4, NothingEnds
    <3> QED
        BY <3>1, <3>2, <3>3
  <2>11. next \in values[n]
      BY <1>6, <2>1, <2>7, <2>10
  <2> QED
      BY <2>9, <2>11
<1>9. PICK on : IsTheWay(on, values, start, last, move)
    BY <1>1, <1>5, <1>8, StepsAreAFunction
<1>10. /\ IsFunctionOn(on, 0..last) /\ on[0] = start
       /\ \A n \in 0..last : on[n] \in fitting /\ Ends(kept[n], on[n].refs.samples)
       /\ \A n \in 1..last : on[n] = move[n][on[n - 1]]
    BY <1>6, <1>9 DEF IsTheWay
<1>11. \A n \in 0..last : on[n] = IF n = 0 THEN start ELSE Ingested(h, on[n - 1], recentSamples[n])
  <2> TAKE n \in 0..last
  <2>1. CASE n = 0
      BY <1>10, <2>1
  <2>2. CASE n # 0
    <3>1. n \in 1..last /\ n - 1 \in 0..last
        BY <1>1, <2>2
    <3> QED
        BY <1>7, <1>10, <2>2, <3>1
  <2> QED
      BY <2>1, <2>2
<1>12. Follows(on)
  <2>1. on = [n \in 0..last |-> on[n]]
      BY <1>10, Zenon DEF IsFunctionOn
  <2> QED
      BY <1>11, <2>1
<1>13. Follows(after)
    BY <1>12
<1>14. Replayed(h) = after[last]
    BY DEF Replayed, start
<1> HIDE DEF after
<1>15. \A n \in 0..last :
          after[n] = IF n = 0 THEN start ELSE Ingested(h, after[n - 1], recentSamples[n])
    BY <1>13
<1> DEFINE same == {n \in 0..last : after[n] = on[n]}
<1>16. 0 \in same
    BY <1>1, <1>10, <1>15
<1>17. ASSUME NEW n \in 1..last, n - 1 \in same
       PROVE  n \in same
  <2>1. n \in 0..last /\ n # 0 /\ after[n - 1] = on[n - 1]
      BY <1>1, <1>17
  <2> QED
      BY <1>11, <1>15, <2>1
<1> HIDE DEF same
<1>18. \A n \in 0..last : n \in same
    BY <1>1, <1>16, <1>17, CountingUp
<1>19. Replayed(h) = on[last]
    BY <1>1, <1>14, <1>18 DEF same
<1>20. on[last] \in fitting /\ Ends(kept[last], on[last].refs.samples)
    BY <1>1, <1>10
<1> QED
    BY <1>2, <1>19, <1>20

(* What is computed names the call, a status and a cause.                  *)
LEMMA ComputedVSIIs ==
    ASSUME NEW samples \in Seq(Sample), NEW now \in Int, NEW call
    PROVE  LET state == ComputeVSI(samples, now, call)
           IN  /\ state.call = call /\ state.status \in {"idle", "good", "ni", "poor"}
               /\ state.rootCause \in Selectors \cup {NoSource}
<1> DEFINE list == From(samples, now - WindowMs)
           named == {i \in DOMAIN list : list[i].source # NoSource}
           state == ComputeVSI(samples, now, call)
<1>1. list \in Seq(Sample)
    BY AmongIsTyped DEF From
<1>2. Cause(list) = IF named = {} THEN NoSource ELSE list[Max(named)].source
    BY DEF Cause
<1>3. state.rootCause = Cause(list) /\ state.call = call
    BY DEF ComputeVSI
<1>4. state.status \in {"idle", "good", "ni", "poor"}
  <2> DEFINE vsi == Total(list)
  <2>1. state.status = CASE list = <<>> -> "idle"
                         [] list # <<>> /\ vsi <= GoodThreshold -> "good"
                         [] vsi > GoodThreshold /\ vsi <= PoorThreshold -> "ni"
                         [] OTHER -> "poor"
      BY DEF ComputeVSI
  <2> HIDE DEF list, vsi, state
  <2> QED
      BY <2>1
<1> HIDE DEF list, state
<1>5. Cause(list) \in Selectors \cup {NoSource}
  <2>1. CASE named = {}
      BY <1>2, <2>1
  <2>2. CASE named # {}
    <3>1. Len(list) \in Nat /\ DOMAIN list = 1..Len(list) /\ \A i \in 1..Len(list) : list[i] \in Sample
        BY <1>1
    <3>2. named \in SUBSET (0..Len(list))
        BY <3>1
    <3>3. Max(named) \in named
        BY <2>2, <3>1, <3>2, GreatestIs
    <3>4. list[Max(named)] \in Sample
        BY <3>1, <3>3
    <3> QED
        BY <1>2, <2>2, <3>4 DEF Sample
  <2> QED
      BY <2>1, <2>2
<1> QED
    BY <1>3, <1>4, <1>5 DEF state

(* The heatmap lists at most TopN offenders.                               *)
LEMMA AggregateIsShort ==
    ASSUME NEW list \in Seq(Sample)
    PROVE  Len(Aggregate(list)) <= TopN
<1> DEFINE entries == {Offender(list, list[i].source) : i \in DOMAIN list}
           number == Min({TopN, Cardinality(entries)})
           Ranked(n) == CHOOSE e \in entries :
                            Cardinality({f \in entries : RanksBefore(f, e)}) = n - 1
           ranked == [n \in 1..number |-> Ranked(n)]
<1>1. IsFiniteSet(DOMAIN list)
  <2>1. DOMAIN list = 1..Len(list) /\ Len(list) \in Int /\ 1 \in Int
      OBVIOUS
  <2> QED
      BY <2>1, FS_Interval
<1>2. IsFiniteSet(entries)
  <2> DEFINE entryOf == [i \in DOMAIN list |-> Offender(list, list[i].source)]
  <2>1. entryOf \in Surjection(DOMAIN list, entries)
      BY DEF Surjection
  <2> HIDE DEF entryOf, entries
  <2> QED
      BY <1>1, <2>1, FS_Surjection
<1>3. Cardinality(entries) \in Nat
    BY <1>2, FS_CardinalityType
<1>4. TopN \in Nat
    BY CoachConstants
<1>5. Aggregate(list) = ranked
    BY DEF Aggregate
<1> HIDE DEF entries
<1>6. number \in Nat /\ number <= TopN
  <2>1. {TopN, Cardinality(entries)} \in SUBSET Nat /\ {TopN, Cardinality(entries)} # {}
      BY <1>3, <1>4
  <2>2. number \in {TopN, Cardinality(entries)} /\ number <= TopN
      BY <2>1, LeastIs
  <2> QED
      BY <1>3, <1>4, <2>2
<1> HIDE DEF number, Ranked
<1>7. ranked \in Seq({Ranked(n) : n \in 1..number}) /\ Len(ranked) = number
    BY <1>6
<1> QED
    BY <1>5, <1>6, <1>7

Payloads == [call : Nat, samples : Seq(Sample), now : Int]
Statuses == {"idle", "good", "ni", "poor"}

(* Calls are numbered in the order they are made, and answered in it; what *)
(* waits has its payload with the worker; one call at a time is shown.     *)
CallsSound ==
    /\ calls \in Nat /\ overlapped \in BOOLEAN /\ worker \in BOOLEAN
    /\ inbox \in Seq(Payloads)
    /\ \A i \in 1..Len(inbox) : inbox[i].call = calls - Len(inbox) + i
    /\ handlers \subseteq (calls - Len(inbox) + 1)..calls
    /\ shown.call \in Nat /\ shown.call <= calls - Len(inbox)
    /\ shown.status \in Statuses /\ shown.rootCause \in Selectors \cup {NoSource}
    /\ ~worker => inbox = <<>>
    /\ ~overlapped => /\ Len(inbox) <= 1
                      /\ inbox # <<>> => handlers # {}
                      /\ inbox = <<>> => shown.call = calls

StepsSound(stepOf) ==
    /\ stepOf["predictor"] \in HookSteps /\ stepOf["heatmap"] \in HookSteps
    /\ \A h \in Hooks : RefsSound(stepOf[h].refs)

(* Calls stay in order when the predictor computes.                        *)
LEMMA ComputeKeepsCalls ==
    ASSUME CallsSound, NEW stepOf, StepsSound(stepOf), Compute(stepOf), clock \in Nat,
           UNCHANGED worker
    PROVE  CallsSound'
<1> DEFINE lists == stepOf["predictor"].lists
           k == Len(lists)
           n == Len(inbox)
<1>1. lists \in Seq(Seq(Sample)) /\ k \in Nat /\ DOMAIN lists = 1..k /\ n \in Nat
      /\ \A i \in 1..k : lists[i] \in Seq(Sample)
    BY DEF StepsSound, HookSteps, CallsSound
<1>2. CASE worker
  <2> DEFINE posted == [i \in DOMAIN lists |-> [call |-> calls + i, samples |-> lists[i], now |-> clock]]
             waiting == {calls + i : i \in 1..k}
  <2>1. /\ calls' = calls + k /\ inbox' = inbox \o posted
        /\ handlers' = handlers \cup {calls + i : i \in DOMAIN lists}
        /\ overlapped' = (overlapped \/ (lists # <<>> /\ n + k > 1))
        /\ shown' = shown
      BY <1>2 DEF Compute, Post
  <2>2. posted \in Seq(Payloads) /\ Len(posted) = k
    <3>1. \A i \in 1..k : [call |-> calls + i, samples |-> lists[i], now |-> clock] \in Payloads
        BY <1>1 DEF Payloads, CallsSound
    <3> QED
        BY <1>1, <3>1
  <2>3. /\ \A i \in 1..k : posted[i].call = calls + i
        /\ handlers' = handlers \cup waiting /\ (k = 0 <=> lists = <<>>)
      BY <1>1, <2>1
  <2>4. /\ calls \in Nat /\ inbox \in Seq(Payloads) /\ handlers \subseteq (calls - n + 1)..calls
        /\ \A i \in 1..n : inbox[i].call = calls - n + i
        /\ shown.call \in Nat /\ shown.call <= calls - n /\ overlapped \in BOOLEAN
      BY DEF CallsSound
  <2>5. ~overlapped => n <= 1 /\ (n # 0 => handlers # {}) /\ (n = 0 => shown.call = calls)
    <3>1. n = 0 <=> inbox = <<>>
        BY <2>4
    <3> QED
        BY <3>1 DEF CallsSound
  <2>6. k \in Nat /\ n \in Nat
      BY <1>1
  <2> HIDE DEF posted, lists, k, n, waiting
  <2>7. inbox' \in Seq(Payloads) /\ Len(inbox') = n + k
    <3>1. n = Len(inbox)
        BY DEF n
    <3> QED
        BY <2>1, <2>2, <2>4, <3>1
  <2>8. ASSUME NEW i \in 1..(n + k)
        PROVE  inbox'[i].call = calls' - (n + k) + i
    <3>1. n = Len(inbox)
        BY DEF n
    <3>2. CASE i \in 1..n
      <4>1. inbox'[i] = inbox[i]
          BY <2>1, <2>2, <2>4, <3>1, <3>2
      <4> QED
          BY <2>1, <2>4, <2>6, <3>2, <4>1
    <3>3. CASE i \notin 1..n
      <4>1. i - n \in 1..k
          BY <2>6, <3>3
      <4>2. inbox'[i] = posted[i - n]
          BY <2>1, <2>2, <2>4, <2>6, <3>1, <3>3, <4>1, SMTT(30)
      <4> QED
          BY <2>1, <2>3, <2>4, <2>6, <4>1, <4>2
    <3> QED
        BY <3>2, <3>3
  <2>9. handlers' \subseteq (calls' - (n + k) + 1)..calls'
    <3>1. waiting \subseteq (calls + 1)..(calls + k)
        BY <2>4, <2>6 DEF waiting
    <3>2. (calls + 1)..(calls + k) \subseteq (calls' - (n + k) + 1)..calls'
        BY <2>1, <2>4, <2>6
    <3>3. (calls - n + 1)..calls \subseteq (calls' - (n + k) + 1)..calls'
        BY <2>1, <2>4, <2>6
    <3> QED
        BY <2>3, <2>4, <3>1, <3>2, <3>3, Zenon
  <2>10. ~overlapped' => /\ n + k <= 1
                         /\ n + k # 0 => handlers' # {}
                         /\ n + k = 0 => shown.call = calls'
    <3> SUFFICES ASSUME ~overlapped'
                 PROVE  /\ n + k <= 1
                        /\ n + k # 0 => handlers' # {}
                        /\ n + k = 0 => shown.call = calls'
        OBVIOUS
    <3>1. ~(overlapped \/ (lists # <<>> /\ n + k > 1))
        BY <2>1, Zenon
    <3>3. ~overlapped /\ (k = 0 \/ n + k <= 1)
      <4>1. ~overlapped /\ (lists = <<>> \/ ~(n + k > 1))
          BY <3>1, Zenon
      <4> QED
          BY <2>3, <2>6, <4>1
    <3>2. k # 0 => calls + 1 \in waiting
        BY <2>4, <2>6 DEF waiting
    <3> QED
        BY <2>1, <2>3, <2>4, <2>5, <2>6, <3>2, <3>3
  <2>11. calls' \in Nat /\ overlapped' \in BOOLEAN /\ worker' /\ shown'.call <= calls' - (n + k)
    <3>1. overlapped' \in BOOLEAN
        BY <2>1, <2>4
    <3> QED
        BY <1>2, <2>1, <2>4, <2>6, <3>1
  <2>12. /\ shown'.call \in Nat /\ shown'.status \in Statuses
         /\ shown'.rootCause \in Selectors \cup {NoSource}
      BY <2>1 DEF CallsSound
  <2>13. inbox' = <<>> <=> n + k = 0
      BY <2>7
  <2> QED
      BY <1>2, <2>1, <2>7, <2>8, <2>9, <2>10, <2>11, <2>12, <2>13 DEF CallsSound
<1>3. CASE ~worker
  <2>1. /\ calls' = calls + k /\ UNCHANGED <<inbox, handlers, overlapped>>
        /\ shown' = IF lists = <<>> THEN shown ELSE ComputeVSI(Last(lists), clock, calls + k)
      BY <1>3 DEF Compute
  <2>2. inbox = <<>> /\ n = 0 /\ handlers = {}
      BY <1>3 DEF CallsSound
  <2>3. CASE lists = <<>>
    <3>1. calls' = calls /\ shown' = shown
        BY <2>1, <2>3 DEF CallsSound
    <3> QED
        BY <2>1, <3>1 DEF CallsSound
  <2>4. CASE lists # <<>>
    <3>1. Last(lists) \in Seq(Sample) /\ clock \in Int
        BY <1>1, <2>4 DEF Last
    <3>2. /\ shown'.call = calls' /\ shown'.status \in Statuses
          /\ shown'.rootCause \in Selectors \cup {NoSource}
        BY <2>1, <2>4, <3>1, ComputedVSIIs DEF Statuses
    <3>3. calls' \in Nat
        BY <1>1, <2>1 DEF CallsSound
    <3> QED
        BY <2>1, <2>2, <3>2, <3>3 DEF CallsSound
  <2> QED
      BY <2>3, <2>4
<1> QED
    BY <1>2, <1>3 DEF CallsSound

(* What the hooks hold and have computed once the predictor computes.      *)
LEMMA ComputeKeepsHooks ==
    ASSUME NEW stepOf, StepsSound(stepOf), Compute(stepOf),
           \A h \in Hooks : computed[h] \in Seq(Sample)
    PROVE  /\ \A h \in Hooks : /\ hook'[h] = stepOf[h].refs
                               /\ computed'[h] = ComputedBy(stepOf[h], computed[h])
                               /\ computed'[h] \in Seq(Sample)
           /\ Len(offenders') <= TopN
<1>1. \A h \in Hooks : stepOf[h] \in HookSteps
    BY DEF StepsSound, Hooks
<1>2. /\ hook' = [h \in Hooks |-> stepOf[h].refs]
      /\ computed' = [h \in Hooks |->
                         IF stepOf[h].lists = <<>> THEN computed[h] ELSE Last(stepOf[h].lists)]
      /\ offenders' = Aggregate(computed'["heatmap"])
    BY DEF Compute
<1>3. ASSUME NEW h \in Hooks
      PROVE  /\ hook'[h] = stepOf[h].refs
             /\ computed'[h] = ComputedBy(stepOf[h], computed[h])
             /\ computed'[h] \in Seq(Sample)
  <2>1. hook'[h] = stepOf[h].refs /\ computed'[h] = ComputedBy(stepOf[h], computed[h])
      BY <1>2 DEF ComputedBy
  <2>2. stepOf[h].lists \in Seq(Seq(Sample))
      BY <1>1 DEF HookSteps
  <2>3. CASE stepOf[h].lists = <<>>
      BY <2>1, <2>3 DEF ComputedBy
  <2>4. CASE stepOf[h].lists # <<>>
    <3>1. Last(stepOf[h].lists) \in Seq(Sample)
        BY <2>2, <2>4 DEF Last
    <3> QED
        BY <2>1, <2>4, <3>1 DEF ComputedBy
  <2> QED
      BY <2>1, <2>3, <2>4
<1>4. computed'["heatmap"] \in Seq(Sample)
    BY <1>3 DEF Hooks
<1> QED
    BY <1>2, <1>3, <1>4, AggregateIsShort

(* A preview is of the page's elements and of the cause shown; while no    *)
(* element moved under one it carries the styles of the first match.       *)
PreviewSound ==
    /\ matching \in [Selectors -> Seq(Elements)] /\ styled \subseteq Elements
    /\ changes \in 0..MaxChanges /\ moved \in BOOLEAN
    /\ preview \in [selector : Selectors \cup {NoSource}, timer : Int]
    /\ PreviewIsBounded
    /\ ~moved /\ preview.selector # NoSource => styled # {}

(* Reverting a preview takes away the styles it gave.                      *)
LEMMA RevertedIsSound ==
    ASSUME PreviewSound, Reverted, UNCHANGED pageVars
    PROVE  PreviewSound'
<1>1. /\ styled' = styled \ FirstMatch(preview.selector)
      /\ preview' = [selector |-> NoSource, timer |-> Never]
      /\ matching' = matching /\ changes' = changes /\ moved' = moved
    BY DEF Reverted, NoPreview, pageVars
<1>2. preview'.selector = NoSource /\ preview'.timer = Never /\ Never \in Int
      /\ preview' \in [selector : Selectors \cup {NoSource}, timer : Int]
    BY <1>1 DEF Never
<1>3. ~moved => styled = FirstMatch(preview.selector)
    BY DEF PreviewSound, PreviewIsBounded
<1>4. FirstMatch(preview.selector)' = {}
    BY <1>2 DEF FirstMatch
<1>5. (~moved => styled = FirstMatch(preview.selector))'
    BY <1>1, <1>3, <1>4
<1>6. PreviewIsBounded'
    BY <1>2, <1>5 DEF PreviewIsBounded
<1> QED
    BY <1>1, <1>2, <1>6 DEF PreviewSound

(* A new root cause ends the preview of another one.                       *)
LEMMA CauseCommittedIsSound ==
    ASSUME PreviewSound, CauseCommitted(shown'.rootCause), UNCHANGED pageVars, mounted => mounted'
    PROVE  PreviewSound'
<1>1. CASE preview.selector # NoSource /\ preview.selector # shown'.rootCause
    BY <1>1, RevertedIsSound DEF CauseCommitted
<1>2. CASE ~(preview.selector # NoSource /\ preview.selector # shown'.rootCause)
  <2>1. styled' = styled /\ preview' = preview
        /\ matching' = matching /\ changes' = changes /\ moved' = moved
      BY <1>2 DEF CauseCommitted, pageVars
  <2>2. FirstMatch(preview.selector)' = FirstMatch(preview.selector)
      BY <2>1 DEF FirstMatch
  <2>3. PreviewIsBounded'
      BY <1>2, <2>1, <2>2 DEF PreviewSound, PreviewIsBounded
  <2> QED
      BY <2>1, <2>3 DEF PreviewSound
<1> QED
    BY <1>1, <1>2

(* Computing ends at most the preview of another cause.                    *)
LEMMA ComputeKeepsPreview ==
    ASSUME PreviewSound, NEW stepOf, Compute(stepOf), UNCHANGED pageVars, mounted => mounted'
    PROVE  PreviewSound'
<1>1. CASE worker
  <2>1. shown' = shown /\ styled' = styled /\ preview' = preview
        /\ matching' = matching /\ changes' = changes /\ moved' = moved
      BY <1>1 DEF Compute, pageVars
  <2>2. FirstMatch(preview.selector)' = FirstMatch(preview.selector)
      BY <2>1 DEF FirstMatch
  <2>3. PreviewIsBounded'
      BY <2>1, <2>2 DEF PreviewSound, PreviewIsBounded
  <2> QED
      BY <2>1, <2>3 DEF PreviewSound
<1>2. CASE ~worker
    BY <1>2, CauseCommittedIsSound DEF Compute
<1> QED
    BY <1>1, <1>2

HooksSound ==
    \A h \in Hooks :
        /\ RefsSound(hook[h]) /\ computed[h] \in Seq(Sample)
        /\ mounted /\ hook[h].pending = Never => computed[h] = hook[h].samples
        /\ mounted => Ends(Among(recentSamples, InWindow(h, clock)), hook[h].samples)

CoachTyped ==
    /\ clock \in 0..MaxClock /\ shifts \in 0..MaxShifts
    /\ mounts \in 0..MaxMounts /\ mounted \in BOOLEAN
    /\ recentSamples \in Seq(Sample) /\ Len(recentSamples) <= MaxSamples
    /\ Len(offenders) <= TopN

(* The inductive invariant of the panel.                                   *)
CoachIInv == CoachTyped /\ SamplesInOrder /\ HooksSound /\ CallsSound /\ PreviewSound

(* When the predictor computes, the panel stays sound if what each hook    *)
(* has seen is all it holds.                                               *)
LEMMA ComputeIsSound ==
    ASSUME CoachIInv, NEW stepOf, StepsSound(stepOf), Compute(stepOf),
           UNCHANGED <<clock, worker, pageVars>>,
           recentSamples' \in Seq(Sample), Len(recentSamples') <= MaxSamples, SamplesInOrder',
           shifts' \in 0..MaxShifts, mounts' \in 0..MaxMounts, mounted' \in BOOLEAN,
           mounted => mounted',
           \A h \in Hooks : mounted' =>
              /\ Seen(stepOf[h], computed[h])
              /\ Ends(Among(recentSamples', InWindow(h, clock)), stepOf[h].refs.samples)
    PROVE  CoachIInv'
<1>1. clock \in Nat /\ \A h \in Hooks : computed[h] \in Seq(Sample)
    BY CoachConstants DEF CoachIInv, CoachTyped, HooksSound
<1>2. /\ \A h \in Hooks : /\ hook'[h] = stepOf[h].refs
                          /\ computed'[h] = ComputedBy(stepOf[h], computed[h])
                          /\ computed'[h] \in Seq(Sample)
      /\ Len(offenders') <= TopN
    BY <1>1, ComputeKeepsHooks
<1>3. CoachTyped'
    BY <1>2 DEF CoachIInv, CoachTyped
<1>5. HooksSound'
  <2>1. ASSUME NEW h \in Hooks
        PROVE  /\ RefsSound(hook'[h]) /\ computed'[h] \in Seq(Sample)
               /\ mounted' /\ hook'[h].pending = Never => computed'[h] = hook'[h].samples
               /\ mounted' => Ends(Among(recentSamples', InWindow(h, clock)), hook'[h].samples)
    <3>1. RefsSound(stepOf[h].refs)
        BY DEF StepsSound
    <3> QED
        BY <1>2, <3>1 DEF Seen
  <2>2. \A h : InWindow(h, clock)' = InWindow(h, clock)
      BY DEF InWindow, Wants
  <2> QED
      BY <2>1, <2>2 DEF HooksSound
<1>6. CallsSound'
    BY <1>1, ComputeKeepsCalls DEF CoachIInv
<1>7. PreviewSound'
    BY ComputeKeepsPreview DEF CoachIInv
<1> QED
    BY <1>3, <1>5, <1>6, <1>7 DEF CoachIInv

(* Until a hook does anything, what it holds and has computed is as it was. *)
LEMMA NothingDoneYet ==
    ASSUME CoachIInv, NEW h \in Hooks
    PROVE  LET idle == [refs |-> hook[h], lists |-> <<>>]
           IN  /\ idle \in HookSteps /\ RefsSound(idle.refs)
               /\ mounted => Seen(idle, computed[h])
<1>1. RefsSound(hook[h]) /\ (mounted /\ hook[h].pending = Never => computed[h] = hook[h].samples)
    BY DEF CoachIInv, HooksSound
<1>2. hook[h] \in HookRefs /\ <<>> \in Seq(Seq(Sample))
    BY <1>1 DEF RefsSound
<1> QED
    BY <1>1, <1>2 DEF HookSteps, Seen, ComputedBy

(* As time passes, what is of the window comes last in what was.           *)
LEMMA TickIsSound ==
    ASSUME CoachIInv, Tick
    PROVE  CoachIInv'
<1>1. /\ clock \in 0..MaxClock /\ clock' = clock + 1 /\ clock < MaxClock /\ MaxClock \in Nat
      /\ WindowMs \in Nat /\ clock \in Nat
      /\ recentSamples' = recentSamples /\ recentSamples \in Seq(Sample)
      /\ UNCHANGED <<shifts, mounted, mounts, hook, computed, calls, inbox, handlers, overlapped,
                     worker, shown, offenders, matching, changes, moved, styled, preview>>
    BY CoachConstants DEF CoachIInv, CoachTyped, Tick, busVars, workerVars, previewVars, pageVars
<1>2. clock' \in 0..MaxClock
    BY <1>1
<1>3. CoachTyped'
    BY <1>1, <1>2 DEF CoachIInv, CoachTyped
<1>4. SamplesInOrder'
  <2>1. \A i \in 1..Len(recentSamples) : recentSamples[i] \in Sample
      BY <1>1
  <2>2. \A i \in 1..Len(recentSamples) : recentSamples[i].startTime <= clock
                                         /\ recentSamples[i].startTime \in Int
      BY <2>1 DEF CoachIInv, SamplesInOrder, Sample
  <2>3. \A i \in 1..Len(recentSamples) : recentSamples[i].startTime <= clock + 1
      BY <1>1, <2>2
  <2> QED
      BY <1>1, <2>3 DEF CoachIInv, SamplesInOrder
<1>5. CallsSound'
    BY <1>1 DEF CoachIInv, CallsSound
<1>6. PreviewSound'
  <2>1. FirstMatch(preview.selector)' = FirstMatch(preview.selector)
      BY <1>1 DEF FirstMatch
  <2>2. PreviewIsBounded'
      BY <1>1, <2>1 DEF CoachIInv, PreviewSound, PreviewIsBounded
  <2> QED
      BY <1>1, <2>2 DEF CoachIInv, PreviewSound
<1>7. HooksSound'
  <2>1. ASSUME NEW h \in Hooks, mounted
        PROVE  Ends(Among(recentSamples, InWindow(h, clock')), hook[h].samples)
    <3> DEFINE wide == InWindow(h, clock)
               narrow == InWindow(h, clock')
    <3>1. \A i \in 1..Len(recentSamples) : recentSamples[i] \in Sample
        BY <1>1
    <3>2. ASSUME NEW i \in 1..Len(recentSamples), recentSamples[i] \in narrow
          PROVE  /\ recentSamples[i] \in wide
                 /\ \A j \in i..Len(recentSamples) :
                       recentSamples[j] \in wide => recentSamples[j] \in narrow
      <4>1. recentSamples[i].startTime >= clock + 1 - WindowMs /\ Wants(h, recentSamples[i])
            /\ recentSamples[i].startTime \in Int
        <5>1. recentSamples[i].startTime >= clock' - WindowMs /\ Wants(h, recentSamples[i])
            BY <3>2 DEF InWindow
        <5>2. recentSamples[i].startTime \in Int
            BY <3>1 DEF Sample
        <5> QED
            BY <1>1, <5>1, <5>2
      <4>2. recentSamples[i] \in wide
        <5>1. recentSamples[i].startTime >= clock - WindowMs
            BY <1>1, <4>1
        <5> QED
            BY <3>1, <4>1, <5>1 DEF InWindow
      <4>3. ASSUME NEW j \in i..Len(recentSamples), recentSamples[j] \in wide
            PROVE  recentSamples[j] \in narrow
        <5>1. j \in 1..Len(recentSamples) /\ i <= j /\ Len(recentSamples) \in Nat
            BY <1>1
        <5>2. recentSamples[i].startTime <= recentSamples[j].startTime
              /\ recentSamples[j].startTime \in Int
            BY <3>1, <5>1 DEF CoachIInv, SamplesInOrder, Sample
        <5>3. Wants(h, recentSamples[j])
            BY <4>3 DEF InWindow
        <5>4. recentSamples[j].startTime >= clock' - WindowMs
          <6>1. recentSamples[i].startTime >= clock' - WindowMs
              BY <3>2 DEF InWindow
          <6>2. recentSamples[i].startTime \in Int /\ clock' \in Int /\ WindowMs \in Int
              BY <1>1, <4>1
          <6> QED
              BY <5>2, <6>1, <6>2
        <5> QED
            BY <3>1, <5>1, <5>3, <5>4 DEF InWindow
      <4> QED
          BY <4>2, <4>3
    <3> HIDE DEF wide, narrow
    <3>3. Ends(Among(recentSamples, narrow), Among(recentSamples, wide))
        BY <1>1, <3>2, AmongTheLater
    <3>4. Ends(Among(recentSamples, wide), hook[h].samples)
        BY <2>1 DEF CoachIInv, HooksSound, wide
    <3>5. hook[h].samples \in Seq(Sample)
        BY DEF CoachIInv, HooksSound, RefsSound, HookRefs
    <3>6. Among(recentSamples, narrow) \in Seq(Sample) /\ Among(recentSamples, wide) \in Seq(Sample)
        BY <1>1, AmongIsTyped
    <3> QED
        BY <3>3, <3>4, <3>5, <3>6, EndsOfEnds DEF narrow
  <2>2. \A h : InWindow(h, clock)' = InWindow(h, clock')
      BY DEF InWindow, Wants
  <2>3. \A h \in Hooks : RefsSound(hook[h])' = RefsSound(hook[h])
      BY <1>1 DEF RefsSound, HookRefs, Sample
  <2> QED
      BY <1>1, <2>1, <2>2, <2>3 DEF CoachIInv, HooksSound
<1> QED
    BY <1>3, <1>4, <1>5, <1>6, <1>7 DEF CoachIInv

(* A shift reaches the hooks that are there.                               *)
LEMMA ShiftIsSound ==
    ASSUME CoachIInv, Shift
    PROVE  CoachIInv'
<1>1. PICK value \in Amounts, source \in Selectors \cup {NoSource} :
        LET s == [value |-> value, startTime |-> clock, source |-> source]
            unchanged == [h \in Hooks |-> [refs |-> hook[h], lists |-> <<>>]]
        IN  /\ recentSamples' = Retained(Append(recentSamples, s))
            /\ Compute([h \in Hooks |-> IF mounted THEN Ingested(h, unchanged[h], s)
                                        ELSE unchanged[h]])
    BY DEF Shift
<1> DEFINE s == [value |-> value, startTime |-> clock, source |-> source]
           idle(h) == [refs |-> hook[h], lists |-> <<>>]
           stepOf == [h \in Hooks |-> IF mounted THEN Ingested(h, idle(h), s) ELSE idle(h)]
           more == Append(recentSamples, s)
<1>2. recentSamples' = Retained(more) /\ Compute(stepOf)
  <2> DEFINE unchanged == [h \in Hooks |-> [refs |-> hook[h], lists |-> <<>>]]
             same == [h \in Hooks |-> IF mounted THEN Ingested(h, unchanged[h], s) ELSE unchanged[h]]
  <2>1. same = stepOf
    <3>1. \A h \in Hooks : unchanged[h] = idle(h)
        OBVIOUS
    <3> HIDE DEF unchanged, idle
    <3>2. \A h \in Hooks : Ingested(h, unchanged[h], s) = Ingested(h, idle(h), s)
        BY <3>1
    <3> QED
        BY <3>1, <3>2
  <2>2. recentSamples' = Retained(more) /\ Compute(same)
      BY <1>1
  <2> HIDE DEF same, stepOf
  <2> QED
      BY <2>1, <2>2
<1>3. /\ clock \in Nat /\ recentSamples \in Seq(Sample) /\ Len(recentSamples) <= MaxSamples
      /\ MaxSamples \in Nat /\ MaxSamples > 0 /\ WindowMs \in Nat /\ MaxShifts \in Nat
      /\ shifts' = shifts + 1 /\ shifts < MaxShifts /\ shifts \in 0..MaxShifts
      /\ UNCHANGED <<clock, mounted, mounts, worker, pageVars>> /\ mounts \in 0..MaxMounts
      /\ mounted \in BOOLEAN
    BY CoachConstants, SMTT(30) DEF CoachIInv, CoachTyped, Shift
<1>4. s \in Sample /\ s.startTime = clock
    BY <1>3 DEF Sample
<1> HIDE DEF s, idle, stepOf, more
<1>5. /\ more \in Seq(Sample) /\ Len(more) = Len(recentSamples) + 1
      /\ \A i \in 1..Len(recentSamples) : more[i] = recentSamples[i]
      /\ more[Len(recentSamples) + 1] = s
    BY <1>3, <1>4 DEF more
<1>6. recentSamples' = IF Len(more) > MaxSamples THEN Tail(more) ELSE more
    BY <1>2 DEF Retained
<1>7. recentSamples' \in Seq(Sample) /\ Len(recentSamples') <= MaxSamples
    BY <1>3, <1>5, <1>6
<1>8. /\ \A i \in 1..Len(more) : more[i].startTime <= clock
      /\ \A i \in 1..Len(more), j \in 1..Len(more) : i <= j => more[i].startTime <= more[j].startTime
  <2>1. \A i \in 1..Len(recentSamples) : recentSamples[i].startTime <= clock
      BY DEF CoachIInv, SamplesInOrder
  <2>2. \A i \in 1..Len(more) : more[i].startTime <= clock
    <3> SUFFICES ASSUME NEW i \in 1..Len(more)
                 PROVE  more[i].startTime <= clock
        OBVIOUS
    <3>1. i \in 1..Len(recentSamples) \/ i = Len(recentSamples) + 1
        BY <1>3, <1>5
    <3> QED
        BY <1>3, <1>4, <1>5, <2>1, <3>1
  <2>3. ASSUME NEW i \in 1..Len(more), NEW j \in 1..Len(more), i <= j
        PROVE  more[i].startTime <= more[j].startTime
    <3>1. CASE j = Len(recentSamples) + 1
        BY <1>4, <1>5, <2>2, <3>1
    <3>2. CASE j # Len(recentSamples) + 1
      <4>1. i \in 1..Len(recentSamples) /\ j \in 1..Len(recentSamples)
          BY <1>3, <1>5, <2>3, <3>2
      <4> QED
          BY <1>5, <2>3, <4>1 DEF CoachIInv, SamplesInOrder
    <3> QED
        BY <3>1, <3>2
  <2> QED
      BY <2>2, <2>3
<1>9. SamplesInOrder'
  <2>1. CASE Len(more) > MaxSamples
    <3>1. /\ recentSamples' = Tail(more) /\ Len(Tail(more)) = Len(more) - 1
          /\ \A i \in 1..Len(Tail(more)) : Tail(more)[i] = more[i + 1] /\ i + 1 \in 1..Len(more)
        BY <1>3, <1>5, <1>6, <2>1
    <3> QED
        BY <1>3, <1>5, <1>8, <3>1 DEF SamplesInOrder
  <2>2. CASE ~(Len(more) > MaxSamples)
      BY <1>3, <1>6, <1>8, <2>2 DEF SamplesInOrder
  <2> QED
      BY <2>1, <2>2
<1>10. \A h \in Hooks : idle(h) \in HookSteps /\ RefsSound(idle(h).refs)
                        /\ (mounted => Seen(idle(h), computed[h])) /\ idle(h).refs = hook[h]
    BY NothingDoneYet DEF idle
<1>11. ASSUME NEW h \in Hooks
       PROVE  /\ stepOf[h] \in HookSteps /\ RefsSound(stepOf[h].refs)
              /\ mounted => /\ Seen(stepOf[h], computed[h])
                            /\ Ends(Among(recentSamples', InWindow(h, clock)), stepOf[h].refs.samples)
  <2>1. CASE ~mounted
    <3>1. stepOf[h] = idle(h)
        BY <2>1 DEF stepOf
    <3> QED
        BY <1>10, <2>1, <3>1
  <2>2. CASE mounted
    <3>1. stepOf[h] = Ingested(h, idle(h), s)
        BY <2>2 DEF stepOf
    <3> DEFINE wanted == InWindow(h, clock)
               held == Among(recentSamples, wanted)
               all == Among(more, wanted)
    <3>2. /\ held \in Seq(Sample) /\ all \in Seq(Sample)
          /\ all = IF s \in wanted THEN Append(held, s) ELSE held
          /\ Among(recentSamples', wanted) \in Seq(Sample)
      <4>1. held \in Seq(Sample) /\ all \in Seq(Sample) /\ Among(recentSamples', wanted) \in Seq(Sample)
          BY <1>3, <1>5, <1>7, AmongIsTyped
      <4>2. all = IF s \in wanted THEN Append(held, s) ELSE held
          BY <1>3, <1>4, AmongWithOneMore DEF more
      <4> QED
          BY <4>1, <4>2
    <3>3. s \in wanted <=> Wants(h, s)
        BY <1>3, <1>4 DEF InWindow
    <3>4. Ends(held, hook[h].samples)
        BY <2>2 DEF CoachIInv, HooksSound
    <3>5. \A i \in 1..Len(held) : held[i] \in wanted
        BY <1>3, AmongAreWanted
    <3>6. \A i \in 1..Len(held) : held[i].startTime >= clock - WindowMs
        BY <3>5 DEF InWindow
    <3>7. Ends(Among(recentSamples', wanted), all)
      <4>1. CASE Len(more) > MaxSamples
        <5>1. more # <<>>
            BY <1>3, <1>5, <4>1
        <5> QED
            BY <1>5, <1>6, <4>1, <5>1, AmongTheTail
      <4>2. CASE ~(Len(more) > MaxSamples)
          BY <1>6, <3>2, <4>2, NothingEnds
      <4> QED
          BY <4>1, <4>2
    <3> HIDE DEF wanted, held, all
    <3>8. /\ stepOf[h] \in HookSteps /\ RefsSound(stepOf[h].refs) /\ Seen(stepOf[h], computed[h])
          /\ IF Wants(h, s)
             THEN s.startTime >= clock - WindowMs => Ends(Append(held, s), stepOf[h].refs.samples)
             ELSE Ends(held, stepOf[h].refs.samples)
        BY <1>3, <1>4, <1>10, <2>2, <3>1, <3>2, <3>4, <3>6, IngestedSees
    <3>9. s.startTime >= clock - WindowMs
        BY <1>3, <1>4
    <3>10. Ends(all, stepOf[h].refs.samples)
        BY <3>2, <3>3, <3>8, <3>9
    <3>11. stepOf[h].refs.samples \in Seq(Sample)
        BY <3>8 DEF RefsSound, HookRefs
    <3> QED
        BY <3>2, <3>7, <3>8, <3>10, <3>11, EndsOfEnds DEF wanted
  <2> QED
      BY <2>1, <2>2
<1>12. StepsSound(stepOf)
    BY <1>11 DEF StepsSound, Hooks
<1>13. shifts' \in 0..MaxShifts /\ mounts' \in 0..MaxMounts /\ mounted' \in BOOLEAN
       /\ mounted' = mounted /\ UNCHANGED <<clock, worker, pageVars>>
    BY <1>3
<1> QED
    BY <1>2, <1>7, <1>9, <1>11, <1>12, <1>13, ComputeIsSound

(* A panel that comes late is replayed what the bus retains, and computes. *)
LEMMA MountIsSound ==
    ASSUME CoachIInv, Mount
    PROVE  CoachIInv'
<1> DEFINE stepOf == [h \in Hooks |-> Recomputed(Replayed(h))]
<1>1. /\ clock \in Nat /\ recentSamples \in Seq(Sample) /\ Len(recentSamples) <= MaxSamples
      /\ SamplesInOrder /\ MaxMounts \in Nat
      /\ ~mounted /\ mounts < MaxMounts /\ mounts \in 0..MaxMounts
      /\ mounted' = TRUE /\ mounts' = mounts + 1 /\ Compute(stepOf)
      /\ UNCHANGED <<clock, recentSamples, shifts, worker, pageVars>> /\ shifts \in 0..MaxShifts
    BY CoachConstants DEF CoachIInv, CoachTyped, Mount, busVars
<1>2. ASSUME NEW h \in Hooks
      PROVE  /\ stepOf[h] \in HookSteps /\ RefsSound(stepOf[h].refs) /\ Seen(stepOf[h], computed[h])
             /\ Ends(Among(recentSamples, InWindow(h, clock)), stepOf[h].refs.samples)
  <2> DEFINE first == Replayed(h)
             held == Among(recentSamples, InWindow(h, clock))
  <2>1. first \in HookSteps /\ RefsSound(first.refs) /\ Ends(held, first.refs.samples)
      BY <1>1, ReplayedSees
  <2>2. held \in Seq(Sample)
      BY <1>1, AmongIsTyped
  <2>3. \A i \in 1..Len(held) : held[i] \in InWindow(h, clock)
      BY <1>1, AmongAreWanted
  <2>4. \A i \in 1..Len(held) : held[i].startTime >= clock - WindowMs
      BY <2>3 DEF InWindow
  <2>5. stepOf[h] = Recomputed(first)
      OBVIOUS
  <2> HIDE DEF first, held, stepOf
  <2>6. /\ stepOf[h] \in HookSteps /\ RefsSound(stepOf[h].refs)
        /\ stepOf[h].lists # <<>> /\ Last(stepOf[h].lists) = stepOf[h].refs.samples
        /\ Ends(held, stepOf[h].refs.samples)
      BY <1>1, <2>1, <2>2, <2>4, <2>5, RecomputedSees
  <2> QED
      BY <2>6 DEF Seen, ComputedBy, held
<1> HIDE DEF stepOf
<1>3. StepsSound(stepOf)
    BY <1>2 DEF StepsSound, Hooks
<1>4. /\ shifts' \in 0..MaxShifts /\ mounts' \in 0..MaxMounts /\ mounted' \in BOOLEAN
      /\ UNCHANGED <<clock, worker, pageVars>> /\ ~mounted /\ recentSamples' = recentSamples
    BY <1>1
<1>5. SamplesInOrder'
    BY <1>1 DEF SamplesInOrder
<1> QED
    BY <1>1, <1>2, <1>3, <1>4, <1>5, ComputeIsSound

(* A timer makes its hook compute from what it holds.                      *)
LEMMA TimerFiresIsSound ==
    ASSUME CoachIInv, NEW g \in Hooks, TimerFires(g)
    PROVE  CoachIInv'
<1> DEFINE stepOf == [h \in Hooks |-> IF h = g THEN Recomputed(Waking(g))
                                      ELSE [refs |-> hook[h], lists |-> <<>>]]
<1>1. /\ clock \in Nat /\ recentSamples \in Seq(Sample) /\ Len(recentSamples) <= MaxSamples
      /\ SamplesInOrder /\ mounts \in 0..MaxMounts /\ mounted \in BOOLEAN /\ mounted
      /\ UNCHANGED <<clock, recentSamples, shifts, mounted, mounts, worker, pageVars>>
      /\ shifts \in 0..MaxShifts
    BY CoachConstants DEF CoachIInv, CoachTyped, TimerFires, busVars
<1>2. Compute(stepOf)
    BY DEF TimerFires
<1>3. ASSUME NEW h \in Hooks
      PROVE  /\ stepOf[h] \in HookSteps /\ RefsSound(stepOf[h].refs) /\ Seen(stepOf[h], computed[h])
             /\ Ends(Among(recentSamples, InWindow(h, clock)), stepOf[h].refs.samples)
  <2> DEFINE held == Among(recentSamples, InWindow(h, clock))
  <2>1. RefsSound(hook[h]) /\ Ends(held, hook[h].samples)
      BY <1>1 DEF CoachIInv, HooksSound
  <2>2. CASE h # g
    <3>1. stepOf[h] = [refs |-> hook[h], lists |-> <<>>]
        BY <2>2
    <3> QED
        BY <1>1, <2>1, <3>1, NothingDoneYet
  <2>3. CASE h = g
    <3> DEFINE woken == Waking(h)
               refs == [hook[h] EXCEPT !.pending = Never, !.lastCompute = clock]
    <3>1. stepOf[h] = Recomputed(woken) /\ woken = [refs |-> refs, lists |-> <<>>]
        BY <2>3 DEF Waking
    <3>2. /\ refs \in HookRefs /\ refs.samples = hook[h].samples /\ refs.lastCompute = clock
          /\ clock >= -PollMs
      <4>1. hook[h] \in HookRefs /\ Never \in Int
          BY <2>1 DEF RefsSound, Never
      <4>2. refs \in HookRefs /\ refs.samples = hook[h].samples /\ refs.lastCompute = clock
        <5> DEFINE rested == [hook[h] EXCEPT !.pending = Never]
        <5>1. rested \in HookRefs /\ rested.samples = hook[h].samples
            BY <4>1 DEF HookRefs
        <5>2. refs = [rested EXCEPT !.lastCompute = clock]
            BY <4>1 DEF HookRefs
        <5> HIDE DEF rested, refs
        <5>3. /\ [rested EXCEPT !.lastCompute = clock] \in HookRefs
              /\ [rested EXCEPT !.lastCompute = clock].samples = rested.samples
              /\ [rested EXCEPT !.lastCompute = clock].lastCompute = clock
            BY <1>1, <5>1 DEF HookRefs
        <5> QED
            BY <5>1, <5>2, <5>3
      <4>3. clock >= -PollMs
          BY <1>1, CoachConstants
      <4> QED
          BY <4>2, <4>3
    <3> HIDE DEF refs, woken, held, stepOf
    <3>3. woken \in HookSteps /\ woken.refs = refs
        BY <3>1, <3>2 DEF HookSteps
    <3>4. RefsSound(woken.refs) /\ Ends(held, woken.refs.samples)
        BY <2>1, <3>2, <3>3 DEF RefsSound
    <3>5. held \in Seq(Sample)
        BY <1>1, AmongIsTyped DEF held
    <3>6. \A i \in 1..Len(held) : held[i] \in InWindow(h, clock)
        BY <1>1, AmongAreWanted DEF held
    <3>7. \A i \in 1..Len(held) : held[i].startTime >= clock - WindowMs
        BY <3>6 DEF InWindow
    <3>8. /\ stepOf[h] \in HookSteps /\ RefsSound(stepOf[h].refs)
          /\ stepOf[h].lists # <<>> /\ Last(stepOf[h].lists) = stepOf[h].refs.samples
          /\ Ends(held, stepOf[h].refs.samples)
        BY <1>1, <3>1, <3>3, <3>4, <3>5, <3>7, RecomputedSees
    <3> QED
        BY <3>8 DEF Seen, ComputedBy, held
  <2> QED
      BY <2>2, <2>3
<1> HIDE DEF stepOf
<1>4. StepsSound(stepOf)
    BY <1>3 DEF StepsSound, Hooks
<1>5. /\ shifts' \in 0..MaxShifts /\ mounts' \in 0..MaxMounts /\ mounted' \in BOOLEAN
      /\ UNCHANGED <<clock, worker, pageVars>> /\ mounted' /\ recentSamples' = recentSamples
    BY <1>1
<1>6. SamplesInOrder'
    BY <1>1 DEF SamplesInOrder
<1> QED
    BY <1>1, <1>2, <1>3, <1>4, <1>5, <1>6, ComputeIsSound

(* What the bus and the hooks hold, while nothing is measured or computed. *)
LEMMA NothingMeasured ==
    ASSUME CoachIInv,
           UNCHANGED <<clock, busVars, mounted, mounts, hook, computed, offenders>>
    PROVE  CoachTyped' /\ SamplesInOrder' /\ HooksSound'
<1>1. /\ clock' = clock /\ recentSamples' = recentSamples /\ shifts' = shifts
      /\ mounted' = mounted /\ mounts' = mounts /\ hook' = hook /\ computed' = computed
      /\ offenders' = offenders
    BY DEF busVars
<1>2. \A h : InWindow(h, clock)' = InWindow(h, clock)
    BY <1>1 DEF InWindow, Wants
<1>3. \A h \in Hooks : RefsSound(hook[h])' = RefsSound(hook[h])
    BY <1>1 DEF RefsSound, HookRefs, Sample
<1> QED
    BY <1>1, <1>2, <1>3 DEF CoachIInv, CoachTyped, SamplesInOrder, HooksSound

(* An answer takes the first payload and resolves every call.              *)
LEMMA AnswersKeepCalls ==
    ASSUME CallsSound, WorkerAnswers
    PROVE  CallsSound'
<1> DEFINE p == Head(inbox)
           n == Len(inbox)
<1>1. /\ inbox # <<>> /\ inbox' = Tail(inbox) /\ handlers' = {} /\ calls' = calls
      /\ overlapped' = overlapped /\ worker' = worker /\ worker
      /\ shown' = IF handlers = {} THEN shown ELSE ComputeVSI(p.samples, p.now, p.call)
    BY DEF WorkerAnswers, Resolved
<1>2. /\ calls \in Nat /\ inbox \in Seq(Payloads) /\ overlapped \in BOOLEAN /\ worker \in BOOLEAN
      /\ \A i \in 1..n : inbox[i].call = calls - n + i
      /\ handlers \subseteq (calls - n + 1)..calls
      /\ shown.call \in Nat /\ shown.call <= calls - n
      /\ shown.status \in Statuses /\ shown.rootCause \in Selectors \cup {NoSource}
      /\ ~overlapped => n <= 1 /\ handlers # {}
    BY <1>1 DEF CallsSound
<1>3. n \in Nat /\ n >= 1 /\ p = inbox[1] /\ p \in Payloads
      /\ Tail(inbox) \in Seq(Payloads) /\ Len(Tail(inbox)) = n - 1
      /\ \A i \in 1..(n - 1) : Tail(inbox)[i] = inbox[i + 1]
    BY <1>1, <1>2
<1>4. p.call = calls - n + 1
    BY <1>2, <1>3
<1>5. p.samples \in Seq(Sample) /\ p.now \in Int
    BY <1>3 DEF Payloads
<1> HIDE DEF p, n
<1>6. /\ shown'.call \in Nat /\ shown'.call <= calls - (n - 1)
      /\ shown'.status \in Statuses /\ shown'.rootCause \in Selectors \cup {NoSource}
      /\ handlers # {} => shown'.call = calls - n + 1
  <2>1. CASE handlers = {}
      BY <1>1, <1>2, <1>3, <2>1
  <2>2. CASE handlers # {}
    <3>1. shown' = ComputeVSI(p.samples, p.now, p.call)
        BY <1>1, <2>2
    <3>2. shown'.call = p.call /\ shown'.status \in Statuses
          /\ shown'.rootCause \in Selectors \cup {NoSource}
        BY <1>5, <3>1, ComputedVSIIs DEF Statuses
    <3>3. p.call \in Nat
        BY <1>3 DEF Payloads
    <3> QED
        BY <1>2, <1>3, <1>4, <3>2, <3>3
  <2> QED
      BY <2>1, <2>2
<1>7. \A i \in 1..(n - 1) : Tail(inbox)[i].call = calls - (n - 1) + i
  <2> SUFFICES ASSUME NEW i \in 1..(n - 1)
               PROVE  Tail(inbox)[i].call = calls - (n - 1) + i
      OBVIOUS
  <2>1. i + 1 \in 1..n
      BY <1>3
  <2>2. inbox[i + 1].call = calls - n + (i + 1)
      BY <1>2, <2>1
  <2> QED
      BY <1>2, <1>3, <2>2
<1>8. ~overlapped => n - 1 = 0 /\ shown'.call = calls
  <2> SUFFICES ASSUME ~overlapped
               PROVE  n - 1 = 0 /\ shown'.call = calls
      OBVIOUS
  <2>1. n <= 1 /\ handlers # {}
      BY <1>2
  <2>2. n = 1
      BY <1>3, <2>1
  <2> QED
      BY <1>2, <1>6, <2>1, <2>2
<1>9. n - 1 = 0 => Tail(inbox) = <<>>
  <2>1. \A rest \in Seq(Payloads) : Len(rest) = 0 => rest = <<>>
      OBVIOUS
  <2> QED
      BY <1>3, <2>1
<1>10. n = Len(inbox) /\ handlers' \subseteq (calls - (n - 1) + 1)..calls
    BY <1>1 DEF n
<1> QED
    BY <1>1, <1>2, <1>3, <1>6, <1>7, <1>8, <1>9, <1>10, SMTT(30) DEF CallsSound

(* An answer touches the calls and the preview only.                       *)
LEMMA WorkerAnswersIsSound ==
    ASSUME CoachIInv, WorkerAnswers
    PROVE  CoachIInv'
<1>1. CoachTyped' /\ SamplesInOrder' /\ HooksSound'
    BY NothingMeasured DEF WorkerAnswers
<1>2. CallsSound'
    BY AnswersKeepCalls DEF CoachIInv
<1>3. PreviewSound'
    BY CauseCommittedIsSound DEF CoachIInv, WorkerAnswers
<1> QED
    BY <1>1, <1>2, <1>3 DEF CoachIInv

(* The calls of the panel, while it neither computes nor hears an answer.  *)
LEMMA CallsStayAsTheyAre ==
    ASSUME CoachIInv, UNCHANGED <<calls, inbox, handlers, overlapped, worker, shown>>
    PROVE  CallsSound'
BY DEF CoachIInv, CallsSound

(* With the panel its refs, calls and preview go.                          *)
LEMMA UnmountIsSound ==
    ASSUME CoachIInv, Unmount
    PROVE  CoachIInv'
<1>1. /\ mounted' = FALSE /\ hook' = [h \in Hooks |-> NoRefs] /\ computed' = [h \in Hooks |-> <<>>]
      /\ calls' = 0 /\ inbox' = <<>> /\ handlers' = {} /\ overlapped' = FALSE
      /\ shown' = IdleState /\ offenders' = <<>>
      /\ clock' = clock /\ shifts' = shifts /\ recentSamples' = recentSamples /\ mounts' = mounts
      /\ worker' = worker /\ Reverted /\ UNCHANGED pageVars
    BY DEF Unmount, busVars
<1>2. CoachTyped'
  <2>1. TopN \in Nat
      BY CoachConstants
  <2>2. Len(offenders') <= TopN
      BY <1>1, <2>1
  <2> QED
      BY <1>1, <2>2 DEF CoachIInv, CoachTyped
<1>3. SamplesInOrder'
    BY <1>1 DEF CoachIInv, SamplesInOrder
<1>4. HooksSound'
  <2>1. RefsSound(NoRefs)
    <3>1. LongAgo \in Int /\ LongAgo >= -PollMs /\ Never \in Int
        BY CoachConstants
    <3>2. NoRefs \in HookRefs /\ NoRefs.lastCompute = LongAgo
        BY <3>1 DEF NoRefs, HookRefs
    <3> QED
        BY <3>1, <3>2 DEF RefsSound
  <2>2. RefsSound(NoRefs)' = RefsSound(NoRefs)
      BY DEF RefsSound, HookRefs, Sample, NoRefs, LongAgo, Never
  <2>3. \A h \in Hooks : hook'[h] = NoRefs /\ computed'[h] = <<>>
      BY <1>1
  <2>4. \A h \in Hooks : RefsSound(hook[h])'
      BY <2>1, <2>2, <2>3 DEF RefsSound, HookRefs, Sample
  <2>5. <<>> \in Seq(Sample)
      OBVIOUS
  <2> QED
      BY <1>1, <2>3, <2>4, <2>5 DEF HooksSound
<1>5. CallsSound'
  <2>1. /\ IdleState.call = 0 /\ IdleState.status \in Statuses /\ IdleState.rootCause = NoSource
      BY DEF IdleState, Statuses
  <2>2. Len(<<>>) = 0 /\ <<>> \in Seq(Payloads)
      OBVIOUS
  <2>3. worker \in BOOLEAN
      BY DEF CoachIInv, CallsSound
  <2>4. /\ calls' \in Nat /\ overlapped' \in BOOLEAN /\ worker' \in BOOLEAN
        /\ shown'.call = 0 /\ calls' = 0 /\ Len(inbox') = 0
        /\ shown'.status \in Statuses /\ shown'.rootCause \in Selectors \cup {NoSource}
      BY <1>1, <2>1, <2>2, <2>3
  <2>5. inbox' \in Seq(Payloads)'
      BY <1>1
  <2>6. \A i \in 1..Len(inbox') : inbox'[i].call = calls' - Len(inbox') + i
      BY <2>4
  <2>7. handlers' \subseteq (calls' - Len(inbox') + 1)..calls'
      BY <1>1
  <2>8. 0 \in Nat /\ 0 <= 0 - 0 /\ 0 <= 1
      OBVIOUS
  <2> QED
      BY <1>1, <2>4, <2>5, <2>6, <2>7, <2>8 DEF CallsSound
<1>6. PreviewSound'
    BY <1>1, RevertedIsSound DEF CoachIInv
<1> QED
    BY <1>2, <1>3, <1>4, <1>5, <1>6 DEF CoachIInv

(* The panel, but for its preview and the page, while those change.        *)
LEMMA PanelStaysAsItIs ==
    ASSUME CoachIInv, PanelSame
    PROVE  /\ CoachTyped' /\ SamplesInOrder' /\ HooksSound' /\ CallsSound'
           /\ mounted' = mounted /\ shown' = shown /\ clock' = clock
<1>1. UNCHANGED <<clock, busVars, mounted, mounts, hook, computed, workerVars, shown, offenders>>
    BY DEF PanelSame
<1>2. CoachTyped' /\ SamplesInOrder' /\ HooksSound'
    BY <1>1, NothingMeasured
<1>3. CallsSound'
    BY <1>1, CallsStayAsTheyAre DEF workerVars
<1> QED
    BY <1>1, <1>2, <1>3

(* A preview ends by its button or its timer.                              *)
LEMMA PreviewEndsIsSound ==
    ASSUME CoachIInv, RevertPreview \/ PreviewEnds
    PROVE  CoachIInv'
<1>1. PanelSame /\ Reverted /\ UNCHANGED pageVars
    BY DEF RevertPreview, PreviewEnds
<1> QED
    BY <1>1, PanelStaysAsItIs, RevertedIsSound DEF CoachIInv

(* A preview starts on the first match of the cause shown.                 *)
LEMMA ApplyPreviewIsSound ==
    ASSUME CoachIInv, ApplyPreview
    PROVE  CoachIInv'
<1> DEFINE cause == shown.rootCause
<1>1. /\ mounted /\ preview.selector = NoSource /\ cause # NoSource /\ FirstMatch(cause) # {}
      /\ styled' = styled \cup FirstMatch(cause)
      /\ preview' = [selector |-> cause, timer |-> clock + PreviewMs]
      /\ matching' = matching /\ changes' = changes /\ moved' = moved
      /\ PanelSame
    BY DEF ApplyPreview, pageVars
<1>2. /\ CoachTyped' /\ SamplesInOrder' /\ HooksSound' /\ CallsSound'
      /\ mounted' = mounted /\ shown' = shown
    BY <1>1, PanelStaysAsItIs
<1>3. /\ cause \in Selectors /\ clock \in Nat /\ PreviewMs \in Nat
      /\ matching \in [Selectors -> Seq(Elements)] /\ styled \subseteq Elements
      /\ changes \in 0..MaxChanges /\ moved \in BOOLEAN
      /\ ~moved => styled = FirstMatch(preview.selector)
  <2>1. cause \in Selectors
      BY <1>1 DEF CoachIInv, CallsSound
  <2>2. clock \in Nat /\ PreviewMs \in Nat
      BY CoachConstants DEF CoachIInv, CoachTyped
  <2>3. /\ matching \in [Selectors -> Seq(Elements)] /\ styled \subseteq Elements
        /\ changes \in 0..MaxChanges /\ moved \in BOOLEAN /\ PreviewIsBounded
      BY DEF CoachIInv, PreviewSound
  <2> QED
      BY <2>1, <2>2, <2>3 DEF PreviewIsBounded
<1> HIDE DEF cause
<1>4. clock + PreviewMs \in Int /\ clock + PreviewMs # Never
    BY <1>3, CoachConstants
<1>5. /\ preview' \in [selector : Selectors \cup {NoSource}, timer : Int]
      /\ preview'.selector = cause /\ preview'.timer = clock + PreviewMs
    BY <1>1, <1>3, <1>4
<1>6. FirstMatch(preview.selector)' = FirstMatch(cause)
    BY <1>1, <1>5 DEF FirstMatch
<1>7. ~moved => styled = {}
    BY <1>1, <1>3 DEF FirstMatch
<1>8. FirstMatch(cause) \subseteq Elements
  <2>1. matching[cause] \in Seq(Elements)
      BY <1>3
  <2>2. matching[cause] # <<>> => Head(matching[cause]) \in Elements
      BY <2>1
  <2> QED
      BY <2>2 DEF FirstMatch
<1>9. PreviewIsBounded'
    BY <1>1, <1>2, <1>4, <1>5, <1>6, <1>7 DEF PreviewIsBounded, cause
<1>10. PreviewSound'
    BY <1>1, <1>3, <1>5, <1>7, <1>8, <1>9 DEF PreviewSound
<1> QED
    BY <1>2, <1>10 DEF CoachIInv

(* An element comes or goes: under a preview it may be the one it is of.   *)
LEMMA PageChangesIsSound ==
    ASSUME CoachIInv, PageChanges, PanelSame, UNCHANGED preview,
           matching' \in [Selectors -> Seq(Elements)], styled' \subseteq styled
    PROVE  CoachIInv'
<1>1. /\ changes < MaxChanges /\ changes' = changes + 1 /\ moved' = (moved \/ styled # {})
      /\ preview' = preview
    BY DEF PageChanges
<1>2. /\ CoachTyped' /\ SamplesInOrder' /\ HooksSound' /\ CallsSound'
      /\ mounted' = mounted /\ shown' = shown
    BY PanelStaysAsItIs
<1>3. /\ changes \in 0..MaxChanges /\ moved \in BOOLEAN /\ styled \subseteq Elements
      /\ preview \in [selector : Selectors \cup {NoSource}, timer : Int]
      /\ ~moved /\ preview.selector # NoSource => styled # {}
    BY DEF CoachIInv, PreviewSound
<1>4. changes' \in 0..MaxChanges
    BY <1>1, <1>3, CoachConstants, SMTT(30)
<1>5. ~moved' => preview.selector = NoSource /\ styled = {}
  <2>1. ~moved' => ~moved /\ styled = {}
      BY <1>1, Zenon
  <2> QED
      BY <1>3, <2>1
<1>6. ~moved' => styled' = FirstMatch(preview.selector)'
  <2>1. ~moved' => styled' = {}
      BY <1>5
  <2> QED
      BY <1>1, <1>5, <2>1 DEF FirstMatch
<1>7. PreviewIsBounded'
    BY <1>1, <1>2, <1>6 DEF CoachIInv, PreviewSound, PreviewIsBounded
<1>8. moved' \in BOOLEAN /\ styled' \subseteq Elements
    BY <1>1, <1>3
<1>9. PreviewSound'
    BY <1>1, <1>3, <1>4, <1>5, <1>7, <1>8 DEF PreviewSound
<1> QED
    BY <1>2, <1>9 DEF CoachIInv

(* An element comes above those that match.                                *)
LEMMA InsertAboveIsSound ==
    ASSUME CoachIInv, NEW s \in Selectors, NEW e \in Elements, InsertAbove(s, e)
    PROVE  CoachIInv'
<1>1. matching \in [Selectors -> Seq(Elements)]
    BY DEF CoachIInv, PreviewSound
<1>2. <<e>> \o matching[s] \in Seq(Elements)
    BY <1>1
<1>3. matching' = [matching EXCEPT ![s] = <<e>> \o @]
    BY DEF InsertAbove
<1>4. matching' \in [Selectors -> Seq(Elements)]
    BY <1>1, <1>2, <1>3
<1> QED
    BY <1>4, PageChangesIsSound DEF InsertAbove

(* An element goes.                                                        *)
LEMMA RemoveElementIsSound ==
    ASSUME CoachIInv, NEW s \in Selectors, NEW i \in DOMAIN matching[s], RemoveElement(s, i)
    PROVE  CoachIInv'
<1>1. matching \in [Selectors -> Seq(Elements)]
    BY DEF CoachIInv, PreviewSound
<1>2. matching[s] \in Seq(Elements) /\ i \in 1..Len(matching[s])
    BY <1>1
<1>3. RemoveAt(matching[s], i)
         = SubSeq(matching[s], 1, i - 1) \o SubSeq(matching[s], i + 1, Len(matching[s]))
    BY DEF RemoveAt
<1>4. /\ SubSeq(matching[s], 1, i - 1) \in Seq(Elements)
      /\ SubSeq(matching[s], i + 1, Len(matching[s])) \in Seq(Elements)
    BY <1>2
<1>5. RemoveAt(matching[s], i) \in Seq(Elements)
    BY <1>3, <1>4
<1>6. matching' = [matching EXCEPT ![s] = RemoveAt(matching[s], i)]
    BY DEF RemoveElement
<1>7. matching' \in [Selectors -> Seq(Elements)]
    BY <1>1, <1>5, <1>6
<1>8. styled' \subseteq styled
    BY DEF RemoveElement
<1> QED
    BY <1>7, <1>8, PageChangesIsSound DEF RemoveElement

LEMMA CoachStartsSound ==
    ASSUME CoachInit
    PROVE  CoachIInv
<1>1. /\ clock = 0 /\ shifts = 0 /\ recentSamples = <<>> /\ worker \in BOOLEAN
      /\ mounted = FALSE /\ mounts = 0 /\ calls = 0 /\ inbox = <<>> /\ handlers = {}
      /\ overlapped = FALSE
      /\ hook = [h \in Hooks |-> NoRefs] /\ computed = [h \in Hooks |-> <<>>]
      /\ shown = IdleState /\ offenders = <<>>
      /\ matching \in [Selectors -> BoundedSeq(Elements, 1)]
      /\ styled = {} /\ preview = NoPreview /\ changes = 0 /\ moved = FALSE
    BY DEF CoachInit
<1>2. /\ <<>> \in Seq(Sample) /\ Len(<<>>) = 0 /\ <<>> \in Seq(Payloads)
      /\ TopN \in Nat /\ MaxClock \in Nat /\ MaxShifts \in Nat /\ MaxMounts \in Nat
      /\ MaxSamples \in Nat /\ MaxChanges \in Nat
      /\ 0 \in 0..MaxClock /\ 0 \in 0..MaxShifts /\ 0 \in 0..MaxMounts /\ 0 \in 0..MaxChanges
      /\ 0 <= MaxSamples /\ 0 <= TopN
  <2>1. /\ TopN \in Nat /\ MaxClock \in Nat /\ MaxShifts \in Nat /\ MaxMounts \in Nat
        /\ MaxSamples \in Nat /\ MaxChanges \in Nat
      BY CoachConstants
  <2> QED
      BY <2>1
<1>3. CoachTyped
    BY <1>1, <1>2 DEF CoachTyped
<1>4. SamplesInOrder
    BY <1>1 DEF SamplesInOrder
<1>5. HooksSound
  <2>1. LongAgo \in Int /\ LongAgo >= -PollMs /\ Never \in Int
      BY CoachConstants
  <2>2. NoRefs \in HookRefs /\ NoRefs.lastCompute = LongAgo
      BY <2>1 DEF NoRefs, HookRefs
  <2>3. RefsSound(NoRefs)
      BY <2>1, <2>2 DEF RefsSound
  <2>4. \A h \in Hooks : hook[h] = NoRefs /\ computed[h] = <<>>
      BY <1>1
  <2> QED
      BY <1>1, <1>2, <2>3, <2>4 DEF HooksSound
<1>6. CallsSound
  <2>1. IdleState.call = 0 /\ IdleState.status \in Statuses /\ IdleState.rootCause = NoSource
      BY DEF IdleState, Statuses
  <2>2. /\ calls \in Nat /\ overlapped \in BOOLEAN /\ worker \in BOOLEAN
        /\ shown.call = 0 /\ Len(inbox) = 0 /\ calls = 0
        /\ shown.status \in Statuses /\ shown.rootCause \in Selectors \cup {NoSource}
      BY <1>1, <1>2, <2>1
  <2>3. /\ inbox \in Seq(Payloads) /\ handlers \subseteq (calls - Len(inbox) + 1)..calls
      BY <1>1, <1>2
  <2>4. \A i \in 1..Len(inbox) : inbox[i].call = calls - Len(inbox) + i
      BY <2>2
  <2> QED
      BY <1>1, <2>2, <2>3, <2>4 DEF CallsSound
<1>7. PreviewSound
  <2>1. BoundedSeq(Elements, 1) \subseteq Seq(Elements)
    <3>1. BoundedSeq(Elements, 1) = UNION {[1..m -> Elements] : m \in 0..1}
        BY DEF BoundedSeq, SeqOf
    <3>2. 0..1 \subseteq Nat
        OBVIOUS
    <3>3. Seq(Elements) = UNION {[1..m -> Elements] : m \in Nat}
        BY SeqDef
    <3> QED
        BY <3>1, <3>2, <3>3, Zenon
  <2>2. matching \in [Selectors -> Seq(Elements)]
      BY <1>1, <2>1
  <2>3. /\ preview.selector = NoSource /\ preview.timer = Never
        /\ preview \in [selector : Selectors \cup {NoSource}, timer : Int]
      BY <1>1 DEF NoPreview, Never
  <2>4. FirstMatch(preview.selector) = {}
      BY <2>3 DEF FirstMatch
  <2>5. PreviewIsBounded
      BY <1>1, <2>3, <2>4 DEF PreviewIsBounded
  <2> QED
      BY <1>1, <1>2, <2>2, <2>3, <2>5 DEF PreviewSound
<1> QED
    BY <1>3, <1>4, <1>5, <1>6, <1>7 DEF CoachIInv

(* ... every step keeps it so ...                                          *)
LEMMA CoachStaysSound ==
    ASSUME CoachIInv, [CoachNext]_coachVars
    PROVE  CoachIInv'
<1>1. CASE UNCHANGED coachVars
  <2>1. UNCHANGED <<clock, busVars, mounted, mounts, hook, computed, workerVars, shown, offenders,
                    previewVars>>
      BY <1>1 DEF coachVars
  <2>2. PanelSame
      BY <2>1 DEF PanelSame
  <2>3. /\ styled' = styled /\ preview' = preview
        /\ matching' = matching /\ changes' = changes /\ moved' = moved
      BY <2>1 DEF previewVars, pageVars
  <2>4. /\ CoachTyped' /\ SamplesInOrder' /\ HooksSound' /\ CallsSound'
        /\ mounted' = mounted /\ shown' = shown
      BY <2>2, PanelStaysAsItIs
  <2>5. FirstMatch(preview.selector)' = FirstMatch(preview.selector)
      BY <2>3 DEF FirstMatch
  <2>6. PreviewSound'
      BY <2>3, <2>4, <2>5 DEF CoachIInv, PreviewSound, PreviewIsBounded
  <2> QED
      BY <2>4, <2>6 DEF CoachIInv
<1>2. CASE CoachNext
  <2>1. CASE Tick
      BY <2>1, TickIsSound
  <2>2. CASE Shift
      BY <2>2, ShiftIsSound
  <2>3. CASE Mount
      BY <2>3, MountIsSound
  <2>4. CASE WorkerAnswers
      BY <2>4, WorkerAnswersIsSound
  <2>5. CASE Unmount
      BY <2>5, UnmountIsSound
  <2>6. CASE \E h \in Hooks : TimerFires(h)
      BY <2>6, TimerFiresIsSound
  <2>7. CASE ApplyPreview
      BY <2>7, ApplyPreviewIsSound
  <2>8. CASE RevertPreview \/ PreviewEnds
      BY <2>8, PreviewEndsIsSound
  <2>9. CASE \E s \in Selectors, e \in Elements : InsertAbove(s, e)
      BY <2>9, InsertAboveIsSound
  <2>10. CASE \E s \in Selectors : \E i \in DOMAIN matching[s] : RemoveElement(s, i)
      BY <2>10, RemoveElementIsSound
  <2> QED
      BY <1>2, <2>1, <2>2, <2>3, <2>4, <2>5, <2>6, <2>7, <2>8, <2>9, <2>10 DEF CoachNext
<1> QED
    BY <1>1, <1>2

(* ... and so the properties hold.                                         *)
LEMMA CoachIsSound ==
    ASSUME CoachIInv
    PROVE  CoachInv
<1>1. /\ clock \in 0..MaxClock /\ shifts \in 0..MaxShifts
      /\ mounts \in 0..MaxMounts /\ mounted \in BOOLEAN
      /\ recentSamples \in Seq(Sample) /\ Len(recentSamples) <= MaxSamples
      /\ Len(offenders) <= TopN
    BY DEF CoachIInv, CoachTyped
<1>2. /\ calls \in Nat /\ overlapped \in BOOLEAN /\ worker \in BOOLEAN /\ inbox \in Seq(Payloads)
      /\ \A i \in 1..Len(inbox) : inbox[i].call = calls - Len(inbox) + i
      /\ handlers \subseteq (calls - Len(inbox) + 1)..calls
      /\ shown.call \in Nat /\ shown.call <= calls - Len(inbox)
      /\ shown.status \in Statuses
      /\ ~overlapped => (inbox = <<>> => shown.call = calls)
    BY DEF CoachIInv, CallsSound
<1>3. Len(inbox) \in Nat /\ DOMAIN inbox = 1..Len(inbox)
    BY <1>2
<1>4. \A i \in DOMAIN inbox : inbox[i].call \in 1..calls /\ shown.call < inbox[i].call
  <2> SUFFICES ASSUME NEW i \in 1..Len(inbox)
               PROVE  inbox[i].call \in 1..calls /\ shown.call < inbox[i].call
      BY <1>3
  <2>1. inbox[i].call = calls - Len(inbox) + i
      BY <1>2
  <2> QED
      BY <1>2, <1>3, <2>1
<1>5. CoachTypeOK
  <2>1. ASSUME NEW h \in Hooks
        PROVE  /\ hook[h].samples \in Seq(Sample) /\ computed[h] \in Seq(Sample)
               /\ hook[h].lastCompute \in Int /\ hook[h].pending \in Int
      BY DEF CoachIInv, HooksSound, RefsSound, HookRefs
  <2>2. handlers \subseteq 1..calls
    <3>1. (calls - Len(inbox) + 1)..calls \subseteq 1..calls
        BY <1>2, <1>3
    <3> QED
        BY <1>2, <3>1
  <2>3. shown.call \in 0..calls
      BY <1>2, <1>3
  <2>4. /\ matching \in [Selectors -> Seq(Elements)] /\ styled \subseteq Elements
        /\ preview.selector \in Selectors \cup {NoSource} /\ preview.timer \in Int
        /\ changes \in 0..MaxChanges /\ moved \in BOOLEAN
      BY DEF CoachIInv, PreviewSound
  <2> QED
      BY <1>1, <1>2, <1>4, <2>1, <2>2, <2>3, <2>4 DEF CoachTypeOK, Statuses
<1>6. NothingUnseen
    BY DEF CoachIInv, HooksSound, NothingUnseen
<1>7. LateIsEarly
  <2> SUFFICES ASSUME mounted, NEW h \in Hooks
               PROVE  LET retained == {s \in ToSet(recentSamples) :
                                          s.startTime >= clock - WindowMs /\ Wants(h, s)}
                      IN  IsSuffix(Among(recentSamples, retained), hook[h].samples)
      BY DEF LateIsEarly
  <2> DEFINE retained == {s \in ToSet(recentSamples) :
                             s.startTime >= clock - WindowMs /\ Wants(h, s)}
             wanted == InWindow(h, clock)
             mine == Among(recentSamples, retained)
             held == Among(recentSamples, wanted)
  <2>1. ASSUME NEW i \in 1..Len(recentSamples)
        PROVE  recentSamples[i] \in retained <=> recentSamples[i] \in wanted
    <3>1. recentSamples[i] \in Sample /\ recentSamples[i] \in ToSet(recentSamples)
        BY <1>1 DEF ToSet
    <3> QED
        BY <3>1 DEF InWindow
  <2> HIDE DEF retained, wanted
  <2>2. ASSUME NEW i \in 1..Len(recentSamples), recentSamples[i] \in retained
        PROVE  /\ recentSamples[i] \in wanted
               /\ \A j \in i..Len(recentSamples) :
                     recentSamples[j] \in wanted => recentSamples[j] \in retained
    <3>1. \A j \in i..Len(recentSamples) : j \in 1..Len(recentSamples)
        BY <1>1
    <3> QED
        BY <2>1, <2>2, <3>1
  <2>3. Ends(mine, held)
      BY <1>1, <2>2, AmongTheLater
  <2>4. Ends(held, hook[h].samples)
      BY DEF CoachIInv, HooksSound, wanted
  <2>5. mine \in Seq(Sample) /\ held \in Seq(Sample)
      BY <1>1, AmongIsTyped
  <2>6. hook[h].samples \in Seq(Sample)
      BY DEF CoachIInv, HooksSound, RefsSound, HookRefs
  <2> HIDE DEF mine, held
  <2>7. Ends(mine, hook[h].samples)
      BY <2>3, <2>4, <2>5, <2>6, EndsOfEnds
  <2>8. IsSuffix(mine, hook[h].samples)
      BY <2>5, <2>6, <2>7, SuffixMeansEnds
  <2> QED
      BY <2>8 DEF mine, retained
<1>8. AnswersComeThrough
  <2>1. ASSUME NEW n \in handlers
        PROVE  \E i \in DOMAIN inbox : inbox[i].call \in handlers
    <3>1. n \in (calls - Len(inbox) + 1)..calls
        BY <1>2
    <3>2. n - (calls - Len(inbox)) \in 1..Len(inbox)
        BY <1>2, <1>3, <3>1
    <3>3. inbox[n - (calls - Len(inbox))].call = calls - Len(inbox) + (n - (calls - Len(inbox)))
        BY <1>2, <3>2
    <3>4. inbox[n - (calls - Len(inbox))].call = n
        BY <1>2, <1>3, <3>1, <3>3
    <3> QED
        BY <1>3, <3>2, <3>4
  <2> QED
      BY <1>2, <1>4, <2>1 DEF AnswersComeThrough
<1>9. PreviewIsBounded
    BY DEF CoachIInv, PreviewSound
<1> QED
    BY <1>5, <1>6, <1>7, <1>8, <1>9 DEF CoachInv

(* Shifts, timers, answers and mounts interleave as they may: no shift is  *)
(* left out, a panel that comes late ends up with what an early one holds, *)
(* answers come in the order of their calls and one preview is on the page *)
(* (VSICoach, useVSIPredictor, useStabilityHeatmap, vsiBus).               *)
THEOREM PanelsLeaveNothingOut == CoachSpec => []CoachInv
<1>1. CoachInit => CoachIInv
    BY CoachStartsSound
<1>2. CoachIInv /\ [CoachNext]_coachVars => CoachIInv'
    BY CoachStaysSound
<1>3. CoachIInv => CoachInv
    BY CoachIsSound
<1> QED
    BY <1>1, <1>2, <1>3, PTL DEF CoachSpec

(* What TLC checks of the panel where it shares its run, for every value.  *)
THEOREM PanelsKeepTheirWord == MemoryRunSpec => []PanelInv
<1> DEFINE Kept == focus = "coach" => CoachIInv
<1>1. MemoryRunInit => Kept
    BY CoachStartsSound DEF MemoryRunInit
<1>2. Kept /\ [MemoryRunNext]_memoryRunVars => Kept'
  <2> SUFFICES ASSUME Kept, [MemoryRunNext]_memoryRunVars, focus' = "coach"
               PROVE  CoachIInv'
      OBVIOUS
  <2>1. focus' = focus /\ [CoachNext]_coachVars
      BY DEF MemoryRunNext, CoachRun, memoryRunVars, agentVars
  <2> QED
      BY <2>1, CoachStaysSound
<1>3. Kept => PanelInv
    BY CoachIsSound DEF PanelInv
<1> QED
    BY <1>1, <1>2, <1>3, PTL DEF MemoryRunSpec

-----------------------------------------------------------------------------
(* A session's claims and their tree. *)

(* Powers of two, counted by the subsets of a set: they are not 0 ...       *)
LEMMA PowersArePositive ==
    ASSUME NEW e \in Nat
    PROVE  2 ^ e \in Nat \ {0}
<1> DEFINE Counted == SUBSET (1..e)
<1>1. /\ IsFiniteSet(1..e) /\ Cardinality(1..e) = e
    BY FS_Interval
<1>2. /\ IsFiniteSet(Counted) /\ Cardinality(Counted) = 2 ^ e
    BY <1>1, FS_SUBSET
<1>3. {} \in Counted
    OBVIOUS
<1>4. Counted # {}
    BY <1>3
<1>5. Cardinality(Counted) \in Nat
    BY <1>2, FS_CardinalityType
<1>6. Cardinality(Counted) # 0
    BY <1>2, <1>4, FS_EmptySet
<1> QED
    BY <1>2, <1>5, <1>6

(* ... and each is the double of the one before.                            *)
LEMMA PowersDouble ==
    ASSUME NEW e \in Nat
    PROVE  2 ^ (e + 1) = 2 * 2 ^ e
<1> DEFINE Without == SUBSET (1..e)
           With == {kept \cup {e + 1} : kept \in Without}
           add == [kept \in Without |-> kept \cup {e + 1}]
<1>1. /\ IsFiniteSet(1..e) /\ Cardinality(1..e) = e
      /\ IsFiniteSet(1..(e + 1)) /\ Cardinality(1..(e + 1)) = e + 1
    BY FS_Interval
<1>2. /\ IsFiniteSet(Without) /\ Cardinality(Without) = 2 ^ e
      /\ IsFiniteSet(SUBSET (1..(e + 1)))
      /\ Cardinality(SUBSET (1..(e + 1))) = 2 ^ (e + 1)
    BY <1>1, FS_SUBSET
<1>3. add \in Bijection(Without, With)
  <2>1. ASSUME NEW one \in Without, NEW other \in Without, add[one] = add[other]
        PROVE  one = other
    <3>1. e + 1 \notin one /\ e + 1 \notin other
        OBVIOUS
    <3>2. one \cup {e + 1} = other \cup {e + 1}
        BY <2>1
    <3> QED
        BY <3>1, <3>2
  <2>2. add \in [Without -> With]
      OBVIOUS
  <2>3. \A with \in With : \E kept \in Without : add[kept] = with
      OBVIOUS
  <2> HIDE DEF add, With, Without
  <2> QED
      BY <2>1, <2>2, <2>3 DEF Bijection, Injection, Surjection, IsInjective
<1>4. /\ IsFiniteSet(With) /\ Cardinality(With) = 2 ^ e
    BY <1>2, <1>3, FS_Bijection DEF ExistsBijection
<1>5. Without \cap With = {}
  <2> SUFFICES ASSUME NEW both \in Without, both \in With
               PROVE  FALSE
      OBVIOUS
  <2>1. e + 1 \in both
      OBVIOUS
  <2> QED
      BY <2>1
<1>6. SUBSET (1..(e + 1)) = Without \cup With
  <2>1. ASSUME NEW some \in SUBSET (1..(e + 1))
        PROVE  some \in Without \cup With
    <3>1. CASE e + 1 \notin some
        BY <3>1
    <3>2. CASE e + 1 \in some
      <4>1. some \ {e + 1} \in Without
          OBVIOUS
      <4>2. some = (some \ {e + 1}) \cup {e + 1}
          BY <3>2
      <4> QED
          BY <4>1, <4>2
    <3> QED
        BY <3>1, <3>2
  <2>2. ASSUME NEW some \in Without \cup With
        PROVE  some \in SUBSET (1..(e + 1))
      OBVIOUS
  <2> QED
      BY <2>1, <2>2
<1> HIDE DEF With, Without
<1>7. Cardinality(Without \cup With)
        = Cardinality(Without) + Cardinality(With) - Cardinality(Without \cap With)
    BY <1>2, <1>4, FS_Union
<1>8. Cardinality(Without \cap With) = 0
    BY <1>5, FS_EmptySet
<1>9. 2 ^ (e + 1) = Cardinality(Without \cup With)
    BY <1>2, <1>6
<1>10. PICK power \in Nat : power = 2 ^ e
    BY PowersArePositive
<1>11. Cardinality(Without \cup With) = power + power - 0
    BY <1>2, <1>4, <1>7, <1>8, <1>10
<1>12. Cardinality(Without \cup With) = 2 * power
    BY <1>11
<1> QED
    BY <1>9, <1>10, <1>12

Power == [e \in Nat |-> 2 ^ e]

(* Powers from 1 on, each the double of the one before.                    *)
LEMMA PowersAre ==
    /\ Power[0] = 1
    /\ \A e \in Nat : /\ Power[e] = 2 ^ e /\ Power[e] \in Nat \ {0}
                     /\ Power[e + 1] = 2 * Power[e]
<1>1. 2 ^ 0 = 1
  <2>1. IsFiniteSet({}) /\ Cardinality({}) = 0
      BY FS_EmptySet
  <2>2. Cardinality(SUBSET {}) = 2 ^ 0
      BY <2>1, FS_SUBSET
  <2>3. SUBSET {} = {{}}
      OBVIOUS
  <2>4. Cardinality({{}}) = 1
      BY FS_Singleton
  <2> QED
      BY <2>2, <2>3, <2>4
<1>2. ASSUME NEW e \in Nat
      PROVE  Power[e] = 2 ^ e
    BY DEF Power
<1>3. ASSUME NEW e \in Nat
      PROVE  Power[e] \in Nat \ {0} /\ Power[e + 1] = 2 * Power[e]
  <2>1. Power[e] = 2 ^ e /\ Power[e + 1] = 2 ^ (e + 1)
    <3>1. e + 1 \in Nat
        OBVIOUS
    <3> QED
        BY <3>1, <1>2
  <2> QED
      BY <2>1, PowersArePositive, PowersDouble
<1>4. Power[0] = 1
    BY <1>1, <1>2
<1> QED
    BY <1>2, <1>3, <1>4

(* A power exceeds its exponent, and a higher one is a double at least.    *)
LEMMA PowersGrow ==
    ASSUME NEW e \in Nat
    PROVE  /\ e < Power[e]
           /\ \A d \in 0..(e - 1) : 2 * Power[d] <= Power[e]
<1> DEFINE holds == {n \in Nat : n < Power[n] /\ \A d \in 0..(n - 1) : 2 * Power[d] <= Power[n]}
<1>1. 0 \in holds
    BY PowersAre
<1>2. ASSUME NEW n \in 1..e, n - 1 \in holds
      PROVE  n \in holds
  <2>1. n - 1 \in Nat /\ (n - 1) + 1 = n /\ n \in Nat
      OBVIOUS
  <2>2. Power[n - 1] \in Nat \ {0} /\ Power[n] = 2 * Power[n - 1]
      BY <2>1, PowersAre
  <2>3. n - 1 < Power[n - 1] /\ \A d \in 0..((n - 1) - 1) : 2 * Power[d] <= Power[n - 1]
      BY <1>2
  <2>4. ASSUME NEW d \in 0..(n - 1)
        PROVE  2 * Power[d] <= Power[n]
    <3>1. Power[d] \in Nat
        BY PowersAre
    <3>2. CASE d = n - 1
        BY <2>2, <3>2
    <3>3. CASE d # n - 1
      <4>1. d \in 0..((n - 1) - 1)
          BY <3>3
      <4>2. 2 * Power[d] <= Power[n - 1]
          BY <2>3, <4>1
      <4> QED
          BY <2>2, <3>1, <4>2
    <3> QED
        BY <3>2, <3>3
  <2>5. n < Power[n]
      BY <2>2, <2>3
  <2> QED
      BY <2>1, <2>4, <2>5
<1> HIDE DEF holds
<1>3. e \in holds
    BY <1>1, <1>2, CountingUp
<1> QED
    BY <1>3 DEF holds

(* largestPowerOfTwoBelow() returns a power below n, its double not below. *)
LEMMA HalfIs ==
    ASSUME NEW m \in Nat, m >= 2
    PROVE  /\ LargestPowerOfTwoBelow(m) \in 1..(m - 1)
           /\ m <= 2 * LargestPowerOfTwoBelow(m)
           /\ \E e \in Nat : LargestPowerOfTwoBelow(m) = Power[e]
<1> DEFINE found == {k \in 1..(m - 1) : \E e \in 0..m : k = 2 ^ e}
           k == Max(found)
<1>1. found = {j \in 1..(m - 1) : \E e \in 0..m : j = Power[e]}
    BY PowersAre
<1>2. LargestPowerOfTwoBelow(m) = k
    BY DEF LargestPowerOfTwoBelow
<1> HIDE DEF found
<1>3. 1 \in found
    BY <1>1, PowersAre
<1>4. found \in SUBSET (0..m)
    BY <1>1
<1>5. k \in found /\ \A j \in found : j <= k
    BY <1>3, <1>4, GreatestIs
<1> HIDE DEF k
<1>6. PICK e \in 0..m : k = Power[e] /\ k \in 1..(m - 1)
    BY <1>1, <1>5
<1>7. m <= 2 * k
  <2> SUFFICES ASSUME 2 * k < m
               PROVE  FALSE
      BY <1>6
  <2>1. e \in Nat /\ e + 1 \in Nat /\ Power[e + 1] = 2 * k
      BY <1>6, PowersAre
  <2>2. e + 1 < Power[e + 1]
      BY <2>1, PowersGrow
  <2>3. e + 1 \in 0..m /\ 2 * k \in 1..(m - 1)
      BY <1>6, <2>1, <2>2
  <2>4. 2 * k \in found
      BY <1>1, <2>1, <2>3
  <2> QED
      BY <1>5, <1>6, <2>4
<1> QED
    BY <1>2, <1>6, <1>7

(* So it is the greatest power when less than its double is left.          *)
LEMMA HalfOf ==
    ASSUME NEW e \in Nat, NEW rest \in 1..Power[e]
    PROVE  LargestPowerOfTwoBelow(Power[e] + rest) = Power[e]
<1> DEFINE m == Power[e] + rest
           k == LargestPowerOfTwoBelow(m)
<1>1. Power[e] \in Nat \ {0}
    BY PowersAre
<1>2. m \in Nat /\ m >= 2 /\ Power[e] < m /\ m <= 2 * Power[e]
    BY <1>1
<1> HIDE DEF m
<1>3. PICK d \in Nat : k = Power[d]
    BY <1>2, HalfIs
<1>4. k \in 1..(m - 1) /\ m <= 2 * k
    BY <1>2, HalfIs
<1> HIDE DEF k
<1>5. CASE d < e
  <2>1. d \in 0..(e - 1)
      BY <1>5
  <2>2. 2 * k <= Power[e]
      BY <1>3, <2>1, PowersGrow
  <2> QED
      BY <1>1, <1>2, <1>4, <2>2
<1>6. CASE e < d
  <2>1. e \in 0..(d - 1)
      BY <1>6
  <2>2. 2 * Power[e] <= k
      BY <1>3, <2>1, PowersGrow
  <2> QED
      BY <1>1, <1>2, <1>4, <2>2
<1>7. CASE d = e
    BY <1>3, <1>7 DEF k, m
<1> QED
    BY <1>5, <1>6, <1>7

(* A function on the numbers whose value at a number follows from those    *)
(* below it exists: `body` takes a function to the one it would determine. *)
LEMMA RecursionIs ==
    ASSUME NEW S, NEW body \in [[Nat -> S] -> [Nat -> S]], S # {},
           \A f, g \in [Nat -> S], n \in Nat :
               (\A m \in 0..(n - 1) : f[m] = g[m]) => body[f][n] = body[g][n]
    PROVE  \E f \in [Nat -> S] : body[f] = f
<1> DEFINE Fixed(f, upto) == f \in [Nat -> S] /\ \A n \in 0..upto : body[f][n] = f[n]
<1>1. ASSUME NEW last \in Nat
      PROVE  \E f : Fixed(f, last)
  <2> DEFINE holds == {upto \in 0..last : \E f : Fixed(f, upto)}
  <2>1. 0 \in holds
    <3>1. PICK s \in S : TRUE
        OBVIOUS
    <3> DEFINE g == [n \in Nat |-> s]
               f == body[g]
    <3>2. g \in [Nat -> S] /\ f \in [Nat -> S]
        OBVIOUS
    <3> HIDE DEF g, f
    <3>3. \A m \in 0..(0 - 1) : f[m] = g[m]
        OBVIOUS
    <3>4. body[f][0] = body[g][0]
        BY <3>2, <3>3
    <3>5. Fixed(f, 0)
        BY <3>2, <3>4 DEF f
    <3> QED
        BY <3>5
  <2>2. ASSUME NEW upto \in 1..last, upto - 1 \in holds
        PROVE  upto \in holds
    <3>1. PICK f : Fixed(f, upto - 1)
        BY <2>2
    <3> DEFINE g == body[f]
    <3>2. f \in [Nat -> S] /\ g \in [Nat -> S]
        BY <3>1
    <3>3. \A n \in 0..(upto - 1) : g[n] = f[n]
        BY <3>1
    <3>4. ASSUME NEW n \in 0..upto
          PROVE  body[g][n] = g[n]
      <4>1. n \in Nat /\ \A m \in 0..(n - 1) : m \in 0..(upto - 1)
          OBVIOUS
      <4> HIDE DEF g
      <4>2. \A m \in 0..(n - 1) : g[m] = f[m]
          BY <3>3, <4>1
      <4>3. body[g][n] = body[f][n]
          BY <3>2, <4>1, <4>2
      <4> QED
          BY <4>3 DEF g
    <3>5. Fixed(g, upto)
        BY <3>2, <3>4
    <3> HIDE DEF g
    <3> QED
        BY <3>5
  <2> HIDE DEF holds
  <2>3. last \in holds
      BY <2>1, <2>2, CountingUp
  <2> QED
      BY <2>3 DEF holds
<1>2. ASSUME NEW f, NEW g, NEW last \in Nat, Fixed(f, last), Fixed(g, last)
      PROVE  \A n \in 0..last : f[n] = g[n]
  <2> DEFINE holds == {upto \in 0..last : \A n \in 0..upto : f[n] = g[n]}
  <2>1. ASSUME NEW n \in 0..last, \A m \in 0..(n - 1) : f[m] = g[m]
        PROVE  f[n] = g[n]
    <3>1. n \in Nat /\ f \in [Nat -> S] /\ g \in [Nat -> S]
        BY <1>2
    <3>2. body[f][n] = body[g][n]
        BY <2>1, <3>1
    <3> QED
        BY <1>2, <3>2
  <2>2. 0 \in holds
    <3>1. \A m \in 0..(0 - 1) : f[m] = g[m]
        OBVIOUS
    <3>2. f[0] = g[0]
        BY <2>1, <3>1
    <3> QED
        BY <3>2
  <2>3. ASSUME NEW upto \in 1..last, upto - 1 \in holds
        PROVE  upto \in holds
    <3>1. \A m \in 0..(upto - 1) : f[m] = g[m]
        BY <2>3
    <3>2. upto \in 0..last
        OBVIOUS
    <3>3. f[upto] = g[upto]
        BY <2>1, <3>1, <3>2
    <3>4. \A n \in 0..upto : n = upto \/ n \in 0..(upto - 1)
        OBVIOUS
    <3> QED
        BY <3>1, <3>2, <3>3, <3>4
  <2> HIDE DEF holds
  <2>4. last \in holds
      BY <2>2, <2>3, CountingUp
  <2> QED
      BY <2>4 DEF holds
<1> DEFINE at == [n \in Nat |-> CHOOSE f : Fixed(f, n)]
           whole == [n \in Nat |-> at[n][n]]
<1>3. ASSUME NEW n \in Nat
      PROVE  Fixed(at[n], n)
  <2> HIDE DEF Fixed
  <2> QED
      BY <1>1
<1> HIDE DEF at
<1>4. whole \in [Nat -> S]
  <2>1. \A n \in Nat : at[n] \in [Nat -> S]
      BY <1>3
  <2> QED
      BY <2>1
<1>5. ASSUME NEW n \in Nat
      PROVE  body[whole][n] = whole[n]
  <2>1. ASSUME NEW m \in 0..n
        PROVE  whole[m] = at[n][m]
    <3>1. m \in Nat /\ Fixed(at[m], m) /\ Fixed(at[n], n)
        BY <1>3
    <3>2. \A j \in 0..m : j \in 0..n
        OBVIOUS
    <3>3. Fixed(at[n], m)
        BY <3>1, <3>2
    <3> HIDE DEF Fixed
    <3>4. at[m][m] = at[n][m]
        BY <1>2, <3>1, <3>3
    <3> QED
        BY <3>1, <3>4
  <2>2. at[n] \in [Nat -> S] /\ body[at[n]][n] = at[n][n]
      BY <1>3
  <2> HIDE DEF whole
  <2>3. \A m \in 0..(n - 1) : whole[m] = at[n][m]
      BY <2>1
  <2>4. body[whole][n] = body[at[n]][n]
      BY <1>4, <2>2, <2>3
  <2> QED
      BY <2>1, <2>2, <2>4
<1> HIDE DEF whole
<1>6. body[whole] = whole
  <2>1. body[whole] \in [Nat -> S]
      BY <1>4
  <2> QED
      BY <1>4, <1>5, <2>1
<1> QED
    BY <1>4, <1>6

(* Hashes and mountains are terms: whatever they are made of, there is a   *)
(* set of them that holds what is made of its members.                     *)
Mountain(p) == [hash |-> p[1], size |-> p[2], sides |-> <<p[3], p[4]>>]
Grown(S) == S \cup {HashNode(l, r) : l, r \in S}
              \cup {Mountain(p) : p \in S \X Nat \X S \X S}
Closed(S) ==
    \A l, r \in S : /\ HashNode(l, r) \in S
                    /\ \A h \in S, n \in Nat :
                          [hash |-> h, size |-> n, sides |-> <<l, r>>] \in S

(* Such a set is built step by step from any first one.                    *)
LEMMA ClosedSetIs ==
    ASSUME NEW first
    PROVE  \E S : first \subseteq S /\ Closed(S)
<1> DEFINE Follows(f, upto) ==
              f[0] = first /\ \A n \in 1..upto : f[n] = Grown(f[n - 1])
<1>1. ASSUME NEW last \in Nat
      PROVE  \E f : Follows(f, last)
  <2> DEFINE holds == {upto \in 0..last : \E f : Follows(f, upto)}
  <2>1. 0 \in holds
    <3> DEFINE start == [n \in {0} |-> first]
    <3>1. Follows(start, 0)
        OBVIOUS
    <3> HIDE DEF start
    <3> QED
        BY <3>1
  <2>2. ASSUME NEW upto \in 1..last, upto - 1 \in holds
        PROVE  upto \in holds
    <3>1. PICK f : Follows(f, upto - 1)
        BY <2>2
    <3> DEFINE g == [n \in 0..upto |-> IF n = upto THEN Grown(f[n - 1]) ELSE f[n]]
    <3>2. g[0] = first
        BY <3>1
    <3>3. ASSUME NEW n \in 1..upto
          PROVE  g[n] = Grown(g[n - 1])
      <4>1. n - 1 \in 0..upto /\ n - 1 # upto /\ n \in 0..upto
          OBVIOUS
      <4>2. g[n - 1] = f[n - 1]
          BY <4>1
      <4>3. CASE n = upto
        <5>1. g[n] = Grown(f[n - 1])
            BY <4>1, <4>3
        <5> QED
            BY <4>2, <5>1
      <4>4. CASE n # upto
        <5>1. n \in 1..(upto - 1)
            BY <4>4
        <5>2. g[n] = f[n] /\ f[n] = Grown(f[n - 1])
            BY <3>1, <4>1, <4>4, <5>1
        <5> QED
            BY <4>2, <5>2
      <4> QED
          BY <4>3, <4>4
    <3> HIDE DEF g
    <3>4. Follows(g, upto)
        BY <3>2, <3>3
    <3> QED
        BY <3>4
  <2> HIDE DEF holds
  <2>3. last \in holds
      BY <2>1, <2>2, CountingUp
  <2> QED
      BY <2>3 DEF holds
<1>2. ASSUME NEW f, NEW last \in Nat, Follows(f, last), NEW g, NEW upto \in 0..last, Follows(g, upto)
      PROVE  /\ \A n \in 0..upto : f[n] = g[n]
             /\ f[upto] \subseteq f[last]
  <2> DEFINE holds == {n \in 0..upto : f[n] = g[n]}
             kept == {n \in 0..last : n < upto \/ f[upto] \subseteq f[n]}
  <2>1. 0 \in holds
      BY <1>2
  <2>2. ASSUME NEW n \in 1..upto, n - 1 \in holds
        PROVE  n \in holds
    <3>1. n \in 1..last /\ n \in 0..upto
        OBVIOUS
    <3>2. f[n] = Grown(f[n - 1]) /\ g[n] = Grown(g[n - 1])
        BY <1>2, <3>1
    <3> QED
        BY <2>2, <3>1, <3>2
  <2>3. 0 \in kept
    <3>1. upto = 0 \/ 0 < upto
        OBVIOUS
    <3> QED
        BY <3>1
  <2>4. ASSUME NEW n \in 1..last, n - 1 \in kept
        PROVE  n \in kept
    <3>1. CASE n <= upto
        BY <3>1
    <3>2. CASE n > upto
      <4>1. f[upto] \subseteq f[n - 1]
          BY <2>4, <3>2
      <4>2. f[n - 1] \subseteq f[n]
          BY <1>2 DEF Grown
      <4> QED
          BY <4>1, <4>2
    <3> QED
        BY <3>1, <3>2
  <2> HIDE DEF holds, kept
  <2>5. \A n \in 0..upto : n \in holds
      BY <2>1, <2>2, CountingUp
  <2>6. last \in kept
      BY <2>3, <2>4, CountingUp
  <2> QED
      BY <2>5, <2>6 DEF holds, kept
<1> DEFINE at == [n \in Nat |-> CHOOSE f : Follows(f, n)]
           S == UNION {at[n][n] : n \in Nat}
<1>3. ASSUME NEW n \in Nat
      PROVE  Follows(at[n], n)
  <2> HIDE DEF Follows
  <2> QED
      BY <1>1
<1> HIDE DEF at
<1>4. ASSUME NEW n \in Nat, NEW m \in 0..n
      PROVE  at[m][m] \subseteq at[n][n]
  <2>1. m \in Nat /\ m \in 0..m
      OBVIOUS
  <2>2. Follows(at[n], n) /\ Follows(at[m], m)
      BY <1>3, <2>1
  <2> HIDE DEF Follows
  <2>3. at[n][m] = at[m][m] /\ at[n][m] \subseteq at[n][n]
      BY <1>2, <2>1, <2>2
  <2> QED
      BY <2>3
<1>5. ASSUME NEW n \in Nat
      PROVE  Grown(at[n][n]) \subseteq S
  <2>1. n + 1 \in Nat /\ n + 1 \in 1..(n + 1) /\ (n + 1) - 1 = n /\ n \in 0..(n + 1) /\ n \in 0..n
      OBVIOUS
  <2>2. Follows(at[n + 1], n + 1) /\ Follows(at[n], n)
      BY <1>3, <2>1
  <2>3. at[n + 1][n + 1] = Grown(at[n + 1][n])
      BY <2>1, <2>2
  <2> HIDE DEF Follows
  <2>4. at[n + 1][n] = at[n][n]
      BY <1>2, <2>1, <2>2
  <2> QED
      BY <2>1, <2>3, <2>4
<1>6. ASSUME NEW h \in S, NEW l \in S, NEW r \in S
      PROVE  \E n \in Nat : h \in at[n][n] /\ l \in at[n][n] /\ r \in at[n][n]
  <2>1. PICK i \in Nat : h \in at[i][i]
      OBVIOUS
  <2>2. PICK j \in Nat : l \in at[j][j]
      OBVIOUS
  <2>3. PICK k \in Nat : r \in at[k][k]
      OBVIOUS
  <2>4. \E n \in Nat : i \in 0..n /\ j \in 0..n /\ k \in 0..n
    <3>1. i + j + k \in Nat /\ i \in 0..(i + j + k) /\ j \in 0..(i + j + k) /\ k \in 0..(i + j + k)
        OBVIOUS
    <3> QED
        BY <3>1
  <2>5. PICK n \in Nat : i \in 0..n /\ j \in 0..n /\ k \in 0..n
      BY <2>4
  <2> HIDE DEF S
  <2> QED
      BY <1>4, <2>1, <2>2, <2>3, <2>5
<1>7. first \subseteq S
  <2>1. 0 \in Nat /\ at[0][0] = first
      BY <1>3
  <2> QED
      BY <2>1
<1>8. Closed(S)
  <2>1. ASSUME NEW l \in S, NEW r \in S, NEW h \in S, NEW n \in Nat
        PROVE  HashNode(l, r) \in S /\ [hash |-> h, size |-> n, sides |-> <<l, r>>] \in S
    <3>1. PICK k \in Nat : h \in at[k][k] /\ l \in at[k][k] /\ r \in at[k][k]
        BY <1>6
    <3>2. /\ HashNode(l, r) \in Grown(at[k][k])
          /\ [hash |-> h, size |-> n, sides |-> <<l, r>>] \in Grown(at[k][k])
      <4> DEFINE here == at[k][k]
                 m == [hash |-> h, size |-> n, sides |-> <<l, r>>]
      <4> HIDE DEF here
      <4>1. h \in here /\ l \in here /\ r \in here
          BY <3>1 DEF here
      <4>2. HashNode(l, r) \in {HashNode(x, y) : x, y \in here}
          BY <4>1
      <4>3. m \in {Mountain(p) : p \in here \X Nat \X here \X here}
        <5>1. <<h, n, l, r>> \in here \X Nat \X here \X here
            BY <4>1
        <5>2. m = Mountain(<<h, n, l, r>>)
            BY DEF Mountain
        <5> HIDE DEF m
        <5> QED
            BY <5>1, <5>2
      <4> HIDE DEF m
      <4>4. HashNode(l, r) \in Grown(here) /\ m \in Grown(here)
          BY <4>2, <4>3 DEF Grown
      <4> QED
          BY <4>4 DEF here, m
    <3>3. Grown(at[k][k]) \subseteq S
        BY <1>5
    <3> HIDE DEF S
    <3> QED
        BY <3>2, <3>3
  <2> HIDE DEF S
  <2> QED
      BY <2>1 DEF Closed
<1> HIDE DEF S
<1> QED
    BY <1>7, <1>8

(* The terms made of the leaves of a list, and of leaves of any claims.    *)
Leaves(L) == {EmptyRoot} \cup {HashLeaf(L[i]) : i \in Nat} \cup {Summit(L[i]) : i \in Nat}
                 \cup {HashLeaf(x) : x \in Claims} \cup {Summit(x) : x \in Claims}
Terms(L) == CHOOSE S : Leaves(L) \subseteq S /\ Closed(S)
Mountains(L) == {m \in Terms(L) : m.hash \in Terms(L) /\ m.size \in Nat}

(* The leaves of the list are among its terms, and what joins two          *)
(* mountains of the list is one of them.                                   *)
LEMMA TermsAreClosed ==
    ASSUME NEW L
    PROVE  /\ Leaves(L) \subseteq Terms(L) /\ Closed(Terms(L))
           /\ \A i \in Nat : Summit(L[i]) \in Mountains(L)
           /\ \A x \in Claims : Summit(x) \in Mountains(L)
           /\ \A l, r \in Mountains(L) : Joined(l, r) \in Mountains(L)
<1>1. \E S : Leaves(L) \subseteq S /\ Closed(S)
    BY ClosedSetIs
<1>2. Leaves(L) \subseteq Terms(L) /\ Closed(Terms(L))
    BY <1>1 DEF Terms
<1>3. ASSUME NEW i \in Nat
      PROVE  Summit(L[i]) \in Mountains(L)
  <2>1. Summit(L[i]) \in Terms(L) /\ HashLeaf(L[i]) \in Terms(L)
      BY <1>2 DEF Leaves
  <2>2. Summit(L[i]).hash = HashLeaf(L[i]) /\ Summit(L[i]).size = 1
      BY DEF Summit
  <2> QED
      BY <2>1, <2>2 DEF Mountains
<1>4. ASSUME NEW x \in Claims
      PROVE  Summit(x) \in Mountains(L)
  <2>1. Summit(x) \in Terms(L) /\ HashLeaf(x) \in Terms(L)
      BY <1>2 DEF Leaves
  <2>2. Summit(x).hash = HashLeaf(x) /\ Summit(x).size = 1
      BY DEF Summit
  <2> QED
      BY <2>1, <2>2 DEF Mountains
<1>5. ASSUME NEW l \in Mountains(L), NEW r \in Mountains(L)
      PROVE  Joined(l, r) \in Mountains(L)
  <2>1. /\ l \in Terms(L) /\ l.hash \in Terms(L) /\ l.size \in Nat
        /\ r \in Terms(L) /\ r.hash \in Terms(L) /\ r.size \in Nat
      BY DEF Mountains
  <2> DEFINE h == HashNode(l.hash, r.hash)
             n == l.size + r.size
  <2>2. h \in Terms(L) /\ n \in Nat
      BY <1>2, <2>1 DEF Closed
  <2> HIDE DEF h, n
  <2>3. [hash |-> h, size |-> n, sides |-> <<l, r>>] \in Terms(L)
      BY <1>2, <2>1, <2>2 DEF Closed
  <2>4. Joined(l, r) = [hash |-> h, size |-> n, sides |-> <<l, r>>]
      BY DEF Joined, h, n
  <2>5. Joined(l, r).hash = h /\ Joined(l, r).size = n
      BY <2>4
  <2> QED
      BY <2>2, <2>3, <2>4, <2>5 DEF Mountains
<1> QED
    BY <1>2, <1>3, <1>4, <1>5

(* merkleRoot(): no leaves, one, or those up to the greatest power of two  *)
(* below their number and those after.                                     *)
LEMMA HeadIs ==
    ASSUME NEW L, NEW l \in Nat
    PROVE  /\ HeadOf(L, l, 0) = EmptyRoot
           /\ HeadOf(L, l, 1) = HashLeaf(L[l + 1])
           /\ \A m \in Nat : m >= 2 =>
                LET k == LargestPowerOfTwoBelow(m)
                IN  HeadOf(L, l, m) = HashNode(HeadOf(L, l, k), HeadOf(L, l + k, m - k))
           /\ \A m \in Nat : HeadOf(L, l, m) \in Terms(L)
<1> DEFINE T == Terms(L)
           S == [Nat -> T]
           Value(f, m, x) == CASE m = 0 -> EmptyRoot
                               [] m = 1 -> HashLeaf(L[x + 1])
                               [] OTHER -> HashNode(f[LargestPowerOfTwoBelow(m)][x],
                                               f[m - LargestPowerOfTwoBelow(m)]
                                                [x + LargestPowerOfTwoBelow(m)])
           body == [f \in [Nat -> S] |-> [m \in Nat |-> [x \in Nat |-> Value(f, m, x)]]]
           Root(f) == f = [m \in Nat |-> [x \in Nat |-> Value(f, m, x)]]
           root == CHOOSE f : Root(f)
<1>1. EmptyRoot \in T /\ (\A i \in Nat : HashLeaf(L[i]) \in T) /\ \A x, y \in T : HashNode(x, y) \in T
    BY TermsAreClosed DEF Leaves, Closed
<1>2. ASSUME NEW m \in Nat, m # 0, m # 1
      PROVE  /\ LargestPowerOfTwoBelow(m) \in 0..(m - 1)
             /\ m - LargestPowerOfTwoBelow(m) \in 0..(m - 1)
             /\ \A x \in Nat : x + LargestPowerOfTwoBelow(m) \in Nat
  <2>1. LargestPowerOfTwoBelow(m) \in 1..(m - 1)
      BY <1>2, HalfIs
  <2> QED
      BY <2>1
<1> HIDE DEF T
<1>3. ASSUME NEW f \in [Nat -> S], NEW m \in Nat, NEW x \in Nat
      PROVE  Value(f, m, x) \in T
  <2>1. CASE m = 0 \/ m = 1
    <3>1. x + 1 \in Nat
        OBVIOUS
    <3> QED
        BY <1>1, <2>1, <3>1
  <2>2. CASE m # 0 /\ m # 1
    <3> DEFINE k == LargestPowerOfTwoBelow(m)
    <3>1. k \in Nat /\ m - k \in Nat /\ x + k \in Nat
        BY <1>2, <2>2
    <3> HIDE DEF k
    <3>2. f[k][x] \in T /\ f[m - k][x + k] \in T
        BY <3>1
    <3>3. HashNode(f[k][x], f[m - k][x + k]) \in T
        BY <1>1, <3>2
    <3> QED
        BY <2>2, <3>3 DEF k
  <2> QED
      BY <2>1, <2>2
<1>4. ASSUME NEW f, NEW g, NEW m \in Nat, \A n \in 0..(m - 1) : f[n] = g[n], NEW x \in Nat
      PROVE  Value(f, m, x) = Value(g, m, x)
  <2>1. CASE m = 0 \/ m = 1
      BY <2>1
  <2>2. CASE m # 0 /\ m # 1
      BY <1>2, <1>4, <2>2
  <2> QED
      BY <2>1, <2>2
<1> HIDE DEF Value
<1>5. body \in [[Nat -> S] -> [Nat -> S]]
    BY <1>3
<1>6. \A f, g \in [Nat -> S], m \in Nat :
          (\A n \in 0..(m - 1) : f[n] = g[n]) => body[f][m] = body[g][m]
  <2> TAKE f, g \in [Nat -> S], m \in Nat
  <2> HAVE \A n \in 0..(m - 1) : f[n] = g[n]
  <2>1. \A x \in Nat : Value(f, m, x) = Value(g, m, x)
      BY <1>4
  <2> QED
      BY <2>1
<1>7. S # {}
  <2>1. [x \in Nat |-> EmptyRoot] \in S
      BY <1>1
  <2> QED
      BY <2>1
<1>8. \E f \in [Nat -> S] : body[f] = f
  <2> HIDE DEF body, S
  <2> QED
      BY <1>5, <1>6, <1>7, RecursionIs
<1>9. PICK f \in [Nat -> S] : Root(f)
  <2>1. PICK f \in [Nat -> S] : body[f] = f
      BY <1>8
  <2>2. Root(f)
      BY <2>1
  <2> QED
      BY <2>2
<1>10. Root(root)
  <2> HIDE DEF Root
  <2> QED
      BY <1>9
<1>11. \A m, x \in Nat : HeadOf(L, x, m) = root[m][x]
    BY DEF HeadOf, Value
<1> HIDE DEF root
<1>12. \A m, x \in Nat : root[m][x] = Value(root, m, x)
  <2> TAKE m, x \in Nat
  <2>1. root[m] = [y \in Nat |-> Value(root, m, y)]
      BY <1>10
  <2> QED
      BY <2>1
<1>13. ASSUME NEW m \in Nat
       PROVE  \A x \in Nat : root[m][x] \in T
  <2> DEFINE holds == {n \in 0..m : \A j \in 0..n : root[j] = f[j]}
             same == {n \in 0..m : root[n] = f[n]}
  <2>1. ASSUME NEW n \in 0..m, \A j \in 0..(n - 1) : root[j] = f[j]
        PROVE  root[n] = f[n]
    <3>1. n \in Nat
        OBVIOUS
    <3>2. \A x \in Nat : Value(root, n, x) = Value(f, n, x)
        BY <1>4, <2>1, <3>1
    <3>3. root[n] = [x \in Nat |-> Value(root, n, x)]
        BY <1>10, <3>1
    <3>4. f[n] = [x \in Nat |-> Value(f, n, x)]
        BY <1>9, <3>1
    <3> QED
        BY <3>2, <3>3, <3>4
  <2>2. 0 \in holds
    <3>1. \A j \in 0..(0 - 1) : root[j] = f[j]
        OBVIOUS
    <3>2. root[0] = f[0]
        BY <2>1, <3>1
    <3> QED
        BY <3>2
  <2>3. ASSUME NEW n \in 1..m, n - 1 \in holds
        PROVE  n \in holds
    <3>1. \A j \in 0..(n - 1) : root[j] = f[j]
        BY <2>3
    <3>2. n \in 0..m
        OBVIOUS
    <3>3. root[n] = f[n]
        BY <2>1, <3>1, <3>2
    <3>4. \A j \in 0..n : j = n \/ j \in 0..(n - 1)
        OBVIOUS
    <3> QED
        BY <3>1, <3>2, <3>3, <3>4
  <2> HIDE DEF holds, Root
  <2>4. m \in holds
    <3>1. \A n \in 0..m : n \in holds
        BY <2>2, <2>3, CountingUp
    <3> QED
        BY <3>1
  <2>5. root[m] = f[m]
      BY <2>4 DEF holds
  <2> QED
      BY <2>5
<1>14. ASSUME NEW m \in Nat, m >= 2
       PROVE  LET k == LargestPowerOfTwoBelow(m)
              IN  HeadOf(L, l, m) = HashNode(HeadOf(L, l, k), HeadOf(L, l + k, m - k))
  <2> DEFINE k == LargestPowerOfTwoBelow(m)
  <2>1. k \in Nat /\ m - k \in Nat /\ l + k \in Nat
      BY <1>2, <1>14
  <2>2. root[m][l] = HashNode(root[k][l], root[m - k][l + k])
      BY <1>12, <1>14 DEF Value
  <2> HIDE DEF k
  <2>3. /\ HeadOf(L, l, m) = root[m][l] /\ HeadOf(L, l, k) = root[k][l]
        /\ HeadOf(L, l + k, m - k) = root[m - k][l + k]
      BY <1>11, <2>1
  <2>4. HeadOf(L, l, m) = HashNode(HeadOf(L, l, k), HeadOf(L, l + k, m - k))
      BY <2>2, <2>3
  <2> QED
      BY <2>4 DEF k
<1>15. HeadOf(L, l, 0) = EmptyRoot /\ HeadOf(L, l, 1) = HashLeaf(L[l + 1])
  <2>1. HeadOf(L, l, 0) = root[0][l] /\ HeadOf(L, l, 1) = root[1][l]
      BY <1>11
  <2>2. root[0][l] = Value(root, 0, l) /\ root[1][l] = Value(root, 1, l)
      BY <1>12
  <2> QED
      BY <2>1, <2>2 DEF Value
<1>16. \A m \in Nat : HeadOf(L, l, m) \in Terms(L)
    BY <1>11, <1>13 DEF T
<1> QED
    BY <1>14, <1>15, <1>16

(* It depends on the leaves it is the head of alone.                       *)
LEMMA HeadIsLocal ==
    ASSUME NEW L, NEW M, NEW most \in Nat
    PROVE  \A m \in 0..most, l \in Nat :
               (\A i \in (l + 1)..(l + m) : L[i] = M[i]) => HeadOf(L, l, m) = HeadOf(M, l, m)
<1> DEFINE Same(l, m) == \A i \in (l + 1)..(l + m) : L[i] = M[i]
           Local(m) == \A l \in Nat : Same(l, m) => HeadOf(L, l, m) = HeadOf(M, l, m)
           holds == {n \in 0..most : \A m \in 0..n : Local(m)}
<1>1. ASSUME NEW n \in Nat, \A m \in 0..(n - 1) : Local(m)
      PROVE  Local(n)
  <2> SUFFICES ASSUME NEW l \in Nat, Same(l, n)
               PROVE  HeadOf(L, l, n) = HeadOf(M, l, n)
      OBVIOUS
  <2>1. CASE n = 0
      BY <2>1, HeadIs
  <2>2. CASE n = 1
    <3>1. l + 1 \in (l + 1)..(l + 1)
        OBVIOUS
    <3>2. L[l + 1] = M[l + 1]
        BY <2>2, <3>1
    <3> QED
        BY <2>2, <3>2, HeadIs
  <2>3. CASE n >= 2
    <3> DEFINE k == LargestPowerOfTwoBelow(n)
    <3>1. k \in 1..(n - 1)
        BY <2>3, HalfIs
    <3>2. /\ HeadOf(L, l, n) = HashNode(HeadOf(L, l, k), HeadOf(L, l + k, n - k))
          /\ HeadOf(M, l, n) = HashNode(HeadOf(M, l, k), HeadOf(M, l + k, n - k))
        BY <2>3, HeadIs
    <3> HIDE DEF k
    <3>3. k \in 0..(n - 1) /\ n - k \in 0..(n - 1) /\ l + k \in Nat
        BY <3>1
    <3>4. Same(l, k)
      <4>1. \A i \in (l + 1)..(l + k) : i \in (l + 1)..(l + n)
          BY <3>1
      <4> QED
          BY <4>1
    <3>5. Same(l + k, n - k)
      <4>1. \A i \in ((l + k) + 1)..((l + k) + (n - k)) : i \in (l + 1)..(l + n)
          BY <3>1
      <4> QED
          BY <4>1
    <3> HIDE DEF Same
    <3>6. Local(k) /\ Local(n - k)
        BY <1>1, <3>3
    <3>7. HeadOf(L, l, k) = HeadOf(M, l, k)
        BY <3>4, <3>6
    <3>8. HeadOf(L, l + k, n - k) = HeadOf(M, l + k, n - k)
        BY <3>3, <3>5, <3>6
    <3> QED
        BY <3>2, <3>7, <3>8
  <2> QED
      BY <2>1, <2>2, <2>3
<1> HIDE DEF Local
<1>2. 0 \in holds
  <2>1. \A m \in 0..(0 - 1) : Local(m)
      OBVIOUS
  <2>2. Local(0)
      BY <1>1, <2>1
  <2> QED
      BY <2>2
<1>3. ASSUME NEW n \in 1..most, n - 1 \in holds
      PROVE  n \in holds
  <2>1. n \in Nat /\ n \in 0..most /\ \A m \in 0..n : m = n \/ m \in 0..(n - 1)
      OBVIOUS
  <2>2. Local(n)
      BY <1>1, <1>3, <2>1
  <2> QED
      BY <1>3, <2>1, <2>2
<1> HIDE DEF holds
<1>4. most \in holds
    BY <1>2, <1>3, CountingUp
<1>5. \A m \in 0..most : Local(m)
    BY <1>4 DEF holds
<1> QED
    BY <1>5 DEF Local

(* The head of more leaves than a power of two, at most its double.        *)
LEMMA HeadSplits ==
    ASSUME NEW L, NEW l \in Nat, NEW e \in Nat, NEW rest \in 1..Power[e]
    PROVE  HeadOf(L, l, Power[e] + rest)
               = HashNode(HeadOf(L, l, Power[e]), HeadOf(L, l + Power[e], rest))
<1> DEFINE k == Power[e]
           m == k + rest
<1>1. k \in Nat \ {0}
    BY PowersAre
<1>2. m \in Nat /\ m >= 2 /\ m - k = rest
    BY <1>1
<1>3. LargestPowerOfTwoBelow(m) = k
    BY HalfOf
<1> HIDE DEF m, k
<1>4. HeadOf(L, l, m) = HashNode(HeadOf(L, l, LargestPowerOfTwoBelow(m)),
                            HeadOf(L, l + LargestPowerOfTwoBelow(m), m - LargestPowerOfTwoBelow(m)))
    BY <1>2, HeadIs
<1>5. HeadOf(L, l, m) = HashNode(HeadOf(L, l, k), HeadOf(L, l + k, rest))
    BY <1>2, <1>3, <1>4
<1> QED
    BY <1>5 DEF m, k

(* The mountain over the 2^e leaves after the first l.                     *)
TreeOf(L, e, l) ==
    LET tree[d \in Nat] == [x \in Nat |->
            IF d = 0 THEN Summit(L[x + 1])
            ELSE Joined(tree[d - 1][x], tree[d - 1][x + Power[d - 1]])]
    IN  tree[e][l]

(* A mountain of height e + 1 joins the two of height e on its left and     *)
(* on its right.                                                           *)
LEMMA TreeIs ==
    ASSUME NEW L
    PROVE  /\ \A l \in Nat : TreeOf(L, 0, l) = Summit(L[l + 1])
           /\ \A e, l \in Nat :
                TreeOf(L, e + 1, l) = Joined(TreeOf(L, e, l), TreeOf(L, e, l + Power[e]))
<1> DEFINE T == Mountains(L)
           S == [Nat -> T]
           Value(f, d, x) == IF d = 0 THEN Summit(L[x + 1])
                             ELSE Joined(f[d - 1][x], f[d - 1][x + Power[d - 1]])
           body == [f \in [Nat -> S] |-> [d \in Nat |-> [x \in Nat |-> Value(f, d, x)]]]
           Tree(f) == f = [d \in Nat |-> [x \in Nat |-> Value(f, d, x)]]
           tree == CHOOSE f : Tree(f)
<1>1. (\A i \in Nat : Summit(L[i]) \in T) /\ \A x, y \in T : Joined(x, y) \in T
    BY TermsAreClosed
<1>2. ASSUME NEW d \in Nat, d # 0
      PROVE  d - 1 \in Nat /\ d - 1 \in 0..(d - 1) /\ \A x \in Nat : x + Power[d - 1] \in Nat
  <2>1. d - 1 \in Nat
      BY <1>2
  <2>2. Power[d - 1] \in Nat
      BY <2>1, PowersAre
  <2> QED
      BY <2>1, <2>2
<1> HIDE DEF T
<1>3. ASSUME NEW f \in [Nat -> S], NEW d \in Nat, NEW x \in Nat
      PROVE  Value(f, d, x) \in T
  <2>1. CASE d = 0
    <3>1. x + 1 \in Nat
        OBVIOUS
    <3> QED
        BY <1>1, <2>1, <3>1
  <2>2. CASE d # 0
    <3>1. d - 1 \in Nat /\ x + Power[d - 1] \in Nat
        BY <1>2, <2>2
    <3>2. f[d - 1][x] \in T /\ f[d - 1][x + Power[d - 1]] \in T
        BY <3>1
    <3> QED
        BY <1>1, <2>2, <3>2
  <2> QED
      BY <2>1, <2>2
<1>4. ASSUME NEW f, NEW g, NEW d \in Nat, \A n \in 0..(d - 1) : f[n] = g[n], NEW x \in Nat
      PROVE  Value(f, d, x) = Value(g, d, x)
  <2>1. CASE d = 0
      BY <2>1
  <2>2. CASE d # 0
      BY <1>2, <1>4, <2>2
  <2> QED
      BY <2>1, <2>2
<1> HIDE DEF Value
<1>5. body \in [[Nat -> S] -> [Nat -> S]]
    BY <1>3
<1>6. \A f, g \in [Nat -> S], d \in Nat :
          (\A n \in 0..(d - 1) : f[n] = g[n]) => body[f][d] = body[g][d]
  <2> TAKE f, g \in [Nat -> S], d \in Nat
  <2> HAVE \A n \in 0..(d - 1) : f[n] = g[n]
  <2>1. \A x \in Nat : Value(f, d, x) = Value(g, d, x)
      BY <1>4
  <2> QED
      BY <2>1
<1>7. S # {}
  <2>1. [x \in Nat |-> Summit(L[0])] \in S
      BY <1>1
  <2> QED
      BY <2>1
<1>8. \E f \in [Nat -> S] : body[f] = f
  <2> HIDE DEF body, S
  <2> QED
      BY <1>5, <1>6, <1>7, RecursionIs
<1>9. \E f : Tree(f)
  <2>1. PICK f \in [Nat -> S] : body[f] = f
      BY <1>8
  <2>2. Tree(f)
      BY <2>1
  <2> HIDE DEF Tree
  <2> QED
      BY <2>2
<1>10. Tree(tree)
  <2> HIDE DEF Tree
  <2> QED
      BY <1>9
<1>11. \A d, x \in Nat : TreeOf(L, d, x) = tree[d][x]
    BY DEF TreeOf, Value
<1> HIDE DEF tree
<1>12. \A d, x \in Nat : tree[d][x] = Value(tree, d, x)
  <2> TAKE d, x \in Nat
  <2>1. tree[d] = [y \in Nat |-> Value(tree, d, y)]
      BY <1>10
  <2> QED
      BY <2>1
<1> HIDE DEF Tree
<1>13. ASSUME NEW l \in Nat
       PROVE  TreeOf(L, 0, l) = Summit(L[l + 1])
  <2>1. TreeOf(L, 0, l) = Value(tree, 0, l)
      BY <1>11, <1>12
  <2> QED
      BY <2>1 DEF Value
<1>14. ASSUME NEW e \in Nat, NEW l \in Nat
       PROVE  TreeOf(L, e + 1, l) = Joined(TreeOf(L, e, l), TreeOf(L, e, l + Power[e]))
  <2>1. e + 1 \in Nat /\ e + 1 # 0 /\ (e + 1) - 1 = e
      OBVIOUS
  <2>2. TreeOf(L, e + 1, l) = Value(tree, e + 1, l)
      BY <1>11, <1>12, <2>1
  <2>3. Value(tree, e + 1, l) = Joined(tree[e][l], tree[e][l + Power[e]])
      BY <2>1 DEF Value
  <2>4. l + Power[e] \in Nat
      BY <1>2, <2>1
  <2> QED
      BY <1>11, <2>2, <2>3, <2>4
<1> QED
    BY <1>13, <1>14

(* It has their number and their head, whatever its height ...             *)
LEMMA TreesAreOf ==
    ASSUME NEW L, NEW most \in Nat
    PROVE  \A e \in 0..most, l \in Nat :
               /\ TreeOf(L, e, l) \in Mountains(L)
               /\ TreeOf(L, e, l).size = Power[e]
               /\ TreeOf(L, e, l).hash = HeadOf(L, l, Power[e])
<1> DEFINE Good(e) == \A l \in Nat : /\ TreeOf(L, e, l) \in Mountains(L)
                                     /\ TreeOf(L, e, l).size = Power[e]
                                     /\ TreeOf(L, e, l).hash = HeadOf(L, l, Power[e])
           holds == {n \in 0..most : Good(n)}
<1>1. Good(0)
  <2> TAKE l \in Nat
  <2>1. TreeOf(L, 0, l) = Summit(L[l + 1]) /\ l + 1 \in Nat
      BY TreeIs
  <2>2. Summit(L[l + 1]).size = 1 /\ Summit(L[l + 1]).hash = HashLeaf(L[l + 1])
      BY DEF Summit
  <2> QED
      BY <2>1, <2>2, PowersAre, HeadIs, TermsAreClosed
<1>2. ASSUME NEW e \in Nat, Good(e)
      PROVE  Good(e + 1)
  <2> TAKE l \in Nat
  <2> DEFINE k == Power[e]
             x == TreeOf(L, e, l)
             y == TreeOf(L, e, l + k)
  <2>1. k \in Nat \ {0} /\ Power[e + 1] = k + k /\ l + k \in Nat
      BY PowersAre
  <2>2. /\ x \in Mountains(L) /\ x.size = k /\ x.hash = HeadOf(L, l, k)
        /\ y \in Mountains(L) /\ y.size = k /\ y.hash = HeadOf(L, l + k, k)
      BY <1>2, <2>1
  <2>3. TreeOf(L, e + 1, l) = Joined(x, y)
      BY TreeIs
  <2>4. LargestPowerOfTwoBelow(k + k) = k
      BY <2>1, HalfOf
  <2> HIDE DEF k, x, y
  <2>5. HeadOf(L, l, k + k) = HashNode(HeadOf(L, l, k), HeadOf(L, l + k, k))
    <3>1. k + k \in Nat /\ k + k >= 2 /\ (k + k) - k = k
        BY <2>1
    <3>2. k = LargestPowerOfTwoBelow(k + k)
        BY <2>4
    <3> DEFINE m == k + k
    <3> HIDE DEF m
    <3>3. HeadOf(L, l, m) = HashNode(HeadOf(L, l, LargestPowerOfTwoBelow(m)),
                                HeadOf(L, l + LargestPowerOfTwoBelow(m), m - LargestPowerOfTwoBelow(m)))
        BY <3>1, HeadIs DEF m
    <3> QED
        BY <3>1, <3>2, <3>3 DEF m
  <2>6. /\ Joined(x, y) \in Mountains(L) /\ Joined(x, y).size = k + k
        /\ Joined(x, y).hash = HashNode(x.hash, y.hash)
    <3>1. Joined(x, y).size = x.size + y.size /\ Joined(x, y).hash = HashNode(x.hash, y.hash)
        BY DEF Joined
    <3> QED
        BY <2>2, <3>1, TermsAreClosed
  <2> QED
      BY <2>1, <2>2, <2>3, <2>5, <2>6
<1> HIDE DEF Good
<1>3. 0 \in holds
    BY <1>1
<1>4. ASSUME NEW n \in 1..most, n - 1 \in holds
      PROVE  n \in holds
  <2>1. n - 1 \in Nat /\ (n - 1) + 1 = n /\ n \in 0..most
      OBVIOUS
  <2>2. Good((n - 1) + 1)
      BY <1>2, <1>4, <2>1
  <2> QED
      BY <2>1, <2>2
<1> HIDE DEF holds
<1>5. \A n \in 0..most : n \in holds
    BY <1>3, <1>4, CountingUp
<1>6. \A n \in 0..most : Good(n)
    BY <1>5 DEF holds
<1> QED
    BY <1>6 DEF Good

(* ... each of them ...                                                    *)
LEMMA TreeIsOf ==
    ASSUME NEW L, NEW e \in Nat, NEW l \in Nat
    PROVE  /\ TreeOf(L, e, l) \in Mountains(L)
           /\ TreeOf(L, e, l).size = Power[e]
           /\ TreeOf(L, e, l).hash = HeadOf(L, l, Power[e])
<1>1. e \in 0..e
    OBVIOUS
<1> QED
    BY <1>1, TreesAreOf

(* ... and depends on no others.                                           *)
LEMMA TreeIsLocal ==
    ASSUME NEW L, NEW M, NEW most \in Nat
    PROVE  \A e \in 0..most, l \in Nat :
               (\A i \in (l + 1)..(l + Power[e]) : L[i] = M[i]) => TreeOf(L, e, l) = TreeOf(M, e, l)
<1> DEFINE Same(l, m) == \A i \in (l + 1)..(l + m) : L[i] = M[i]
           Local(e) == \A l \in Nat : Same(l, Power[e]) => TreeOf(L, e, l) = TreeOf(M, e, l)
           holds == {n \in 0..most : Local(n)}
<1>1. Local(0)
  <2> SUFFICES ASSUME NEW l \in Nat, Same(l, Power[0])
               PROVE  TreeOf(L, 0, l) = TreeOf(M, 0, l)
      OBVIOUS
  <2>1. l + 1 \in (l + 1)..(l + Power[0])
      BY PowersAre
  <2>2. L[l + 1] = M[l + 1]
      BY <2>1
  <2> QED
      BY <2>2, TreeIs
<1>2. ASSUME NEW e \in Nat, Local(e)
      PROVE  Local(e + 1)
  <2> SUFFICES ASSUME NEW l \in Nat, Same(l, Power[e + 1])
               PROVE  TreeOf(L, e + 1, l) = TreeOf(M, e + 1, l)
      OBVIOUS
  <2> DEFINE k == Power[e]
  <2>1. k \in Nat \ {0} /\ Power[e + 1] = k + k /\ l + k \in Nat
      BY PowersAre
  <2> HIDE DEF k
  <2>2. Same(l, k) /\ Same(l + k, k)
    <3>1. \A i \in (l + 1)..(l + k) : i \in (l + 1)..(l + (k + k))
        BY <2>1
    <3>2. \A i \in ((l + k) + 1)..((l + k) + k) : i \in (l + 1)..(l + (k + k))
        BY <2>1
    <3> QED
        BY <2>1, <3>1, <3>2
  <2> HIDE DEF Same
  <2>3. TreeOf(L, e, l) = TreeOf(M, e, l) /\ TreeOf(L, e, l + k) = TreeOf(M, e, l + k)
      BY <1>2, <2>1, <2>2 DEF k
  <2>4. /\ TreeOf(L, e + 1, l) = Joined(TreeOf(L, e, l), TreeOf(L, e, l + k))
        /\ TreeOf(M, e + 1, l) = Joined(TreeOf(M, e, l), TreeOf(M, e, l + k))
      BY TreeIs DEF k
  <2> QED
      BY <2>3, <2>4
<1> HIDE DEF Local
<1>3. 0 \in holds
    BY <1>1
<1>4. ASSUME NEW n \in 1..most, n - 1 \in holds
      PROVE  n \in holds
  <2>1. n - 1 \in Nat /\ (n - 1) + 1 = n /\ n \in 0..most
      OBVIOUS
  <2>2. Local((n - 1) + 1)
      BY <1>2, <1>4, <2>1
  <2> QED
      BY <2>1, <2>2
<1> HIDE DEF holds
<1>5. \A n \in 0..most : n \in holds
    BY <1>3, <1>4, CountingUp
<1>6. \A n \in 0..most : Local(n)
    BY <1>5 DEF holds
<1> QED
    BY <1>6 DEF Local

(* The mountains of a range: powers of two that descend, one mountain      *)
(* after another; lows[p] leaves are before those of mountain p + 1.       *)
IsRange(L, range, exps, lows) ==
    /\ range \in Seq(Mountains(L))
    /\ lows[0] \in Nat
    /\ \A p \in 1..Len(range) :
          /\ exps[p] \in Nat /\ lows[p] \in Nat
          /\ lows[p] = lows[p - 1] + Power[exps[p]]
          /\ range[p] = TreeOf(L, exps[p], lows[p - 1])
    /\ \A p, q \in 1..Len(range) : p < q => exps[p] > exps[q]

(* What is known of every mountain of a range: the leaves it stands for,   *)
(* their number, and its hash as the head of those leaves.                 *)
LEMMA LowsAre ==
    ASSUME NEW L, NEW range, NEW exps, NEW lows, IsRange(L, range, exps, lows)
    PROVE  /\ Len(range) \in Nat
           /\ \A p \in 0..Len(range) : lows[p] \in Nat
           /\ \A p \in 0..Len(range), q \in 0..Len(range) : p <= q => lows[p] <= lows[q]
           /\ \A p \in 1..Len(range) :
                 /\ lows[p] \in Nat /\ lows[p - 1] \in Nat
                 /\ exps[p] \in Nat /\ Power[exps[p]] \in Nat \ {0}
                 /\ lows[p] = lows[p - 1] + Power[exps[p]]
                 /\ range[p] = TreeOf(L, exps[p], lows[p - 1])
                 /\ range[p].size = Power[exps[p]]
                 /\ range[p].hash = HeadOf(L, lows[p - 1], Power[exps[p]])
<1> DEFINE K == Len(range)
<1>1. K \in Nat
    BY DEF IsRange
<1>2. ASSUME NEW p \in 0..K
      PROVE  lows[p] \in Nat
  <2>1. p = 0 \/ p \in 1..K
      OBVIOUS
  <2> QED
      BY <2>1 DEF IsRange
<1>3. ASSUME NEW p \in 0..K, NEW q \in 0..K, p <= q
      PROVE  lows[p] <= lows[q]
  <2> DEFINE holds == {n \in 0..K : n < p \/ lows[p] <= lows[n]}
  <2>1. 0 \in holds
    <3>1. p = 0 \/ 0 < p
        OBVIOUS
    <3> QED
        BY <1>1, <1>2, <3>1
  <2>2. ASSUME NEW n \in 1..K, n - 1 \in holds
        PROVE  n \in holds
    <3>1. lows[n] = lows[n - 1] + Power[exps[n]] /\ Power[exps[n]] \in Nat
        BY PowersAre DEF IsRange
    <3>2. lows[n] \in Nat /\ lows[n - 1] \in Nat /\ lows[p] \in Nat
      <4>1. n \in 0..K /\ n - 1 \in 0..K
          OBVIOUS
      <4> QED
          BY <1>2, <4>1
    <3>3. CASE n < p
        BY <3>3
    <3>4. CASE n = p
        BY <3>2, <3>4
    <3>5. CASE n > p
      <4>1. lows[p] <= lows[n - 1]
          BY <2>2, <3>5
      <4> QED
          BY <3>1, <3>2, <4>1
    <3> QED
        BY <3>3, <3>4, <3>5
  <2> HIDE DEF holds
  <2>3. \A n \in 0..K : n \in holds
      BY <1>1, <2>1, <2>2, CountingUp
  <2>4. q \in holds
      BY <2>3
  <2> QED
      BY <1>3, <2>4 DEF holds
<1>4. ASSUME NEW p \in 1..K
      PROVE  /\ lows[p] \in Nat /\ lows[p - 1] \in Nat
             /\ exps[p] \in Nat /\ Power[exps[p]] \in Nat \ {0}
             /\ lows[p] = lows[p - 1] + Power[exps[p]]
             /\ range[p] = TreeOf(L, exps[p], lows[p - 1])
             /\ range[p].size = Power[exps[p]]
             /\ range[p].hash = HeadOf(L, lows[p - 1], Power[exps[p]])
  <2>1. exps[p] \in Nat /\ exps[p] \in 0..exps[p] /\ range[p] = TreeOf(L, exps[p], lows[p - 1])
      BY DEF IsRange
  <2>2. p - 1 \in 0..K /\ lows[p - 1] \in Nat
    <3>1. p - 1 \in 0..K
        OBVIOUS
    <3> QED
        BY <1>2, <3>1
  <2> DEFINE e == exps[p]
             low == lows[p - 1]
  <2> HIDE DEF e, low
  <2>3. e \in Nat /\ e \in 0..e /\ low \in Nat /\ range[p] = TreeOf(L, e, low)
      BY <2>1, <2>2 DEF e, low
  <2>4. TreeOf(L, e, low).size = Power[e] /\ TreeOf(L, e, low).hash = HeadOf(L, low, Power[e])
      BY <2>3, TreeIsOf
  <2>5. lows[p] \in Nat /\ lows[p] = low + Power[e]
      BY DEF IsRange, e, low
  <2>6. Power[e] \in Nat \ {0}
      BY <2>3, PowersAre
  <2> QED
      BY <2>3, <2>4, <2>5, <2>6 DEF e, low
<1> QED
    BY <1>1, <1>2, <1>3, <1>4

(* The sizes of the first mountains add up to the leaves before the next.  *)
LEMMA SizesAre ==
    ASSUME NEW L, NEW range, NEW exps, NEW lows, IsRange(L, range, exps, lows),
           NEW p \in 0..Len(range)
    PROVE  SizeUpTo(range, p) = lows[p] - lows[0]
<1> DEFINE Sums(f) == f = [q \in 0..p |-> IF q = 0 THEN 0 ELSE f[q - 1] + range[q].size]
           sum == CHOOSE f : Sums(f)
           mine == [q \in 0..p |-> lows[q] - lows[0]]
<1>1. p \in Nat /\ \A q \in 0..p : lows[q] \in Nat /\ lows[0] \in Nat
  <2>1. p \in Nat /\ 0 \in 0..Len(range) /\ \A q \in 0..p : q \in 0..Len(range)
      BY LowsAre
  <2> QED
      BY <2>1, LowsAre
<1>2. ASSUME NEW q \in 1..p
      PROVE  lows[q] = lows[q - 1] + range[q].size /\ range[q].size \in Nat
  <2>1. q \in 1..Len(range)
      BY LowsAre
  <2>2. lows[q] = lows[q - 1] + Power[exps[q]] /\ range[q].size = Power[exps[q]]
      BY <2>1, LowsAre
  <2>3. Power[exps[q]] \in Nat
      BY <2>1, LowsAre
  <2> QED
      BY <2>2, <2>3
<1>3. Sums(mine)
  <2>1. ASSUME NEW q \in 0..p
        PROVE  mine[q] = IF q = 0 THEN 0 ELSE mine[q - 1] + range[q].size
    <3>1. CASE q = 0
        BY <1>1, <3>1
    <3>2. CASE q # 0
      <4>1. q \in 1..p /\ q - 1 \in 0..p
          BY <3>2
      <4>2. lows[q] = lows[q - 1] + range[q].size /\ range[q].size \in Nat
          BY <1>2, <4>1
      <4>3. lows[q] \in Nat /\ lows[q - 1] \in Nat /\ lows[0] \in Nat
          BY <1>1, <4>1
      <4> QED
          BY <3>2, <4>1, <4>2, <4>3
    <3> QED
        BY <3>1, <3>2
  <2>2. mine = [q \in 0..p |-> mine[q]]
      OBVIOUS
  <2> HIDE DEF mine
  <2> QED
      BY <2>1, <2>2
<1>4. Sums(sum)
  <2> HIDE DEF Sums, mine
  <2> QED
      BY <1>3
<1>5. SizeUpTo(range, p) = sum[p]
    BY DEF SizeUpTo
<1> HIDE DEF sum
<1> DEFINE holds == {q \in 0..p : sum[q] = lows[q] - lows[0]}
<1>6. 0 \in holds
  <2>1. sum[0] = 0
      BY <1>4
  <2> QED
      BY <1>1, <2>1
<1>7. ASSUME NEW q \in 1..p, q - 1 \in holds
      PROVE  q \in holds
  <2>1. sum[q] = sum[q - 1] + range[q].size
      BY <1>4
  <2>2. lows[q] = lows[q - 1] + range[q].size /\ range[q].size \in Nat
      BY <1>2
  <2>3. lows[q] \in Nat /\ lows[q - 1] \in Nat /\ lows[0] \in Nat
      BY <1>1
  <2> QED
      BY <1>7, <2>1, <2>2, <2>3
<1> HIDE DEF holds, Sums
<1>8. p \in holds
  <2>1. \A q \in 0..p : q \in holds
      BY <1>1, <1>6, <1>7, CountingUp
  <2> QED
      BY <1>1, <2>1
<1> QED
    BY <1>5, <1>8 DEF holds

(* The leaves under the last mountains are fewer than the double of the    *)
(* first of these, and no more than the one before it.                     *)
LEMMA RestsAre ==
    ASSUME NEW L, NEW range, NEW exps, NEW lows, IsRange(L, range, exps, lows)
    PROVE  \A q \in 1..(Len(range) - 1) :
               lows[Len(range)] - lows[q] \in 1..Power[exps[q]]
<1> DEFINE K == Len(range)
           Rest(q) == lows[K] - lows[q]
           Fits(q) == Rest(q) \in 0..(Power[exps[q]] - 1)
           holds == {j \in 0..(K - 1) : Fits(K - j)}
<1>1. K \in Nat /\ \A q \in 0..K : lows[q] \in Nat
    BY LowsAre
<1>2. ASSUME NEW q \in 1..K
      PROVE  /\ lows[q] \in Nat /\ lows[q - 1] \in Nat /\ lows[K] \in Nat
             /\ lows[q] = lows[q - 1] + Power[exps[q]] /\ Power[exps[q]] \in Nat \ {0}
  <2>1. q \in 0..K /\ q - 1 \in 0..K /\ K \in 0..K
      BY <1>1
  <2> QED
      BY <1>1, <2>1, PowersAre DEF IsRange
<1>3. CASE K = 0
    BY <1>3
<1>4. CASE K # 0
  <2>1. K - 1 \in Nat /\ K \in 1..K
      BY <1>1, <1>4
  <2>2. 0 \in holds
    <3>1. lows[K] \in Nat /\ Power[exps[K]] \in Nat \ {0} /\ K - 0 = K
        BY <1>2, <2>1
    <3>2. Rest(K) = 0
        BY <3>1
    <3> QED
        BY <2>1, <3>1, <3>2
  <2>3. ASSUME NEW q \in 1..(K - 1), Fits(q + 1)
        PROVE  Rest(q) \in 1..Power[exps[q]] /\ Rest(q) < Power[exps[q]]
    <3>1. q \in 1..K /\ q + 1 \in 1..K /\ (q + 1) - 1 = q /\ q < q + 1
        BY <2>1
    <3>2. exps[q] \in Nat /\ exps[q + 1] \in Nat /\ exps[q + 1] \in 0..(exps[q] - 1)
        BY <3>1 DEF IsRange
    <3>3. 2 * Power[exps[q + 1]] <= Power[exps[q]]
        BY <3>2, PowersGrow
    <3>4. /\ lows[q + 1] = lows[q] + Power[exps[q + 1]] /\ lows[q] \in Nat /\ lows[q + 1] \in Nat
          /\ lows[K] \in Nat /\ Power[exps[q + 1]] \in Nat \ {0} /\ Power[exps[q]] \in Nat \ {0}
        BY <1>2, <3>1
    <3>5. Rest(q) = Power[exps[q + 1]] + Rest(q + 1)
        BY <3>4, SMTT(30)
    <3>6. Rest(q) \in Int /\ Rest(q + 1) \in Int /\ Rest(q + 1) \in 0..(Power[exps[q + 1]] - 1)
        BY <2>3, <3>4
    <3> DEFINE x == Rest(q)
               y == Rest(q + 1)
               f == Power[exps[q + 1]]
               g == Power[exps[q]]
    <3>7. x = f + y /\ y \in 0..(f - 1) /\ 2 * f <= g /\ f \in Nat \ {0} /\ g \in Nat \ {0}
        BY <3>3, <3>4, <3>5, <3>6
    <3> HIDE DEF x, y, f, g
    <3>8. x \in 1..g /\ x < g
        BY <3>7
    <3> QED
        BY <3>8 DEF x, g
  <2>4. ASSUME NEW j \in 1..(K - 1), j - 1 \in holds
        PROVE  j \in holds
    <3>1. K - j \in 1..(K - 1) /\ (K - j) + 1 = K - (j - 1)
        BY <2>1
    <3>2. Rest(K - j) \in 1..Power[exps[K - j]] /\ Rest(K - j) < Power[exps[K - j]]
        BY <2>3, <2>4, <3>1
    <3>3. K - j \in 1..K /\ Power[exps[K - j]] \in Nat
      <4>1. K - j \in 1..K
          BY <3>1
      <4> QED
          BY <1>2, <4>1
    <3> HIDE DEF Rest
    <3>4. Fits(K - j)
        BY <3>2, <3>3
    <3> QED
        BY <3>4
  <2> HIDE DEF holds
  <2>5. \A j \in 0..(K - 1) : j \in holds
      BY <2>1, <2>2, <2>4, CountingUp
  <2>6. ASSUME NEW q \in 1..(K - 1)
        PROVE  Rest(q) \in 1..Power[exps[q]]
    <3>1. K - (q + 1) \in 0..(K - 1) /\ K - (K - (q + 1)) = q + 1
        BY <2>1
    <3>2. K - (q + 1) \in holds
        BY <2>5, <3>1
    <3>3. Fits(K - (K - (q + 1)))
        BY <3>2 DEF holds
    <3> HIDE DEF Fits
    <3>4. Fits(q + 1)
        BY <3>1, <3>3
    <3> QED
        BY <2>3, <3>4
  <2> QED
      BY <2>6
<1> QED
    BY <1>3, <1>4

(* bagPeaks() is the head of the leaves of the range: folded from the      *)
(* right, each peak is the power of two below what is left.                *)
LEMMA BaggedIs ==
    ASSUME NEW L, NEW range, NEW exps, NEW lows, IsRange(L, range, exps, lows)
    PROVE  Bagged(range) = HeadOf(L, lows[0], lows[Len(range)] - lows[0])
<1> DEFINE K == Len(range)
           Bag(f) == f = [n \in 1..K |-> IF n = 1 THEN Last(range).hash
                                         ELSE HashNode(range[K - n + 1].hash, f[n - 1])]
           bag == CHOOSE f : Bag(f)
           mine == [n \in 1..K |-> HeadOf(L, lows[K - n], lows[K] - lows[K - n])]
<1>1. K \in Nat /\ range \in Seq(Mountains(L)) /\ \A q \in 0..K : lows[q] \in Nat
    BY LowsAre DEF IsRange
<1>2. CASE K = 0
  <2>1. range = <<>> /\ lows[0] \in Nat /\ lows[K] - lows[0] = 0
    <3>1. 0 \in 0..K /\ lows[0] \in Nat /\ lows[K] = lows[0]
        BY <1>1, <1>2
    <3> QED
        BY <1>1, <1>2, <3>1
  <2> QED
      BY <2>1, HeadIs DEF Bagged
<1>3. CASE K # 0
  <2>1. ASSUME NEW q \in 1..(K - 1)
        PROVE  HeadOf(L, lows[q - 1], lows[K] - lows[q - 1])
                   = HashNode(range[q].hash, HeadOf(L, lows[q], lows[K] - lows[q]))
    <3>1. q \in 1..K /\ q \in 0..K /\ q - 1 \in 0..K /\ K \in 0..K
        BY <1>1
    <3>2. /\ lows[q] = lows[q - 1] + Power[exps[q]] /\ exps[q] \in Nat
          /\ range[q].hash = HeadOf(L, lows[q - 1], Power[exps[q]])
        BY <3>1, LowsAre
    <3>3. lows[q] \in Nat /\ lows[q - 1] \in Nat /\ lows[K] \in Nat /\ Power[exps[q]] \in Nat
        BY <1>1, <3>1, <3>2, PowersAre
    <3> DEFINE rest == lows[K] - lows[q]
               low == lows[q - 1]
    <3>4. rest \in 1..Power[exps[q]]
        BY RestsAre
    <3>5. lows[K] - low = Power[exps[q]] + rest
        BY <3>2, <3>3, SMTT(30)
    <3> HIDE DEF rest, low
    <3>6. low \in Nat
        BY <3>3 DEF low
    <3>7. HeadOf(L, low, Power[exps[q]] + rest)
              = HashNode(HeadOf(L, low, Power[exps[q]]), HeadOf(L, low + Power[exps[q]], rest))
        BY <3>2, <3>4, <3>6, HeadSplits, ZenonT(60)
    <3> QED
        BY <3>2, <3>5, <3>7 DEF rest, low
  <2>2. ASSUME NEW n \in 1..K
        PROVE  mine[n] = IF n = 1 THEN Last(range).hash
                         ELSE HashNode(range[K - n + 1].hash, mine[n - 1])
    <3>1. CASE n = 1
      <4>1. K \in 1..K /\ K \in 0..K /\ K - 1 \in 0..K
          BY <1>1, <1>3
      <4>2. lows[K] = lows[K - 1] + Power[exps[K]] /\ range[K].hash = HeadOf(L, lows[K - 1], Power[exps[K]])
            /\ exps[K] \in Nat
          BY <4>1, LowsAre
      <4>3. lows[K] - lows[K - 1] = Power[exps[K]]
          BY <4>1, <4>2, LowsAre
      <4>4. Last(range) = range[K]
          BY DEF Last
      <4> QED
          BY <3>1, <4>2, <4>3, <4>4
    <3>2. CASE n # 1
      <4> DEFINE q == K - n + 1
      <4>1. q \in 1..(K - 1) /\ q - 1 = K - n /\ q = K - (n - 1) /\ n - 1 \in 1..K
          BY <1>1, <3>2
      <4>2. mine[n] = HeadOf(L, lows[q - 1], lows[K] - lows[q - 1])
          BY <4>1
      <4>3. mine[n - 1] = HeadOf(L, lows[q], lows[K] - lows[q])
          BY <4>1
      <4> HIDE DEF mine
      <4>4. HeadOf(L, lows[q - 1], lows[K] - lows[q - 1])
                = HashNode(range[q].hash, HeadOf(L, lows[q], lows[K] - lows[q]))
          BY <2>1, <4>1
      <4> QED
          BY <3>2, <4>2, <4>3, <4>4
    <3> QED
        BY <3>1, <3>2
  <2>3. Bag(mine)
    <3>1. mine = [n \in 1..K |-> mine[n]]
        OBVIOUS
    <3> HIDE DEF mine
    <3> QED
        BY <2>2, <3>1
  <2>4. Bag(bag)
    <3> HIDE DEF Bag, mine
    <3> QED
        BY <2>3
  <2>5. Bagged(range) = bag[K]
    <3>1. range # <<>>
        BY <1>1, <1>3
    <3> QED
        BY <3>1 DEF Bagged
  <2> HIDE DEF bag
  <2> DEFINE holds == {j \in 0..(K - 1) : bag[j + 1] = mine[j + 1]}
  <2>6. K - 1 \in Nat /\ (K - 1) + 1 = K /\ 0 + 1 = 1 /\ 1 \in 1..K /\ K \in 1..K
      BY <1>1, <1>3
  <2>7. \A n \in 1..K : bag[n] = IF n = 1 THEN Last(range).hash
                                 ELSE HashNode(range[K - n + 1].hash, bag[n - 1])
      BY <2>4
  <2>8. 0 \in holds
    <3> HIDE DEF mine
    <3>1. bag[1] = Last(range).hash /\ mine[1] = Last(range).hash
        BY <2>2, <2>6, <2>7
    <3> QED
        BY <2>6, <3>1
  <2>9. ASSUME NEW j \in 1..(K - 1), j - 1 \in holds
        PROVE  j \in holds
    <3> HIDE DEF mine
    <3>1. j + 1 \in 1..K /\ j + 1 # 1 /\ (j - 1) + 1 = j /\ (j + 1) - 1 = j /\ j \in 0..(K - 1)
        BY <2>6
    <3>2. bag[j] = mine[j]
        BY <2>9, <3>1
    <3>3. bag[j + 1] = HashNode(range[K - (j + 1) + 1].hash, bag[(j + 1) - 1])
        BY <2>7, <3>1
    <3>4. mine[j + 1] = HashNode(range[K - (j + 1) + 1].hash, mine[(j + 1) - 1])
        BY <2>2, <3>1
    <3> QED
        BY <3>1, <3>2, <3>3, <3>4
  <2> HIDE DEF holds, mine, Bag
  <2>10. K - 1 \in holds
    <3>1. \A j \in 0..(K - 1) : j \in holds
        BY <2>6, <2>8, <2>9, CountingUp
    <3> QED
        BY <2>6, <3>1
  <2>11. bag[K] = mine[K]
      BY <2>6, <2>10 DEF holds
  <2>12. mine[K] = HeadOf(L, lows[0], lows[K] - lows[0])
    <3>1. K - K = 0
        BY <1>1
    <3> QED
        BY <2>6, <3>1 DEF mine
  <2> QED
      BY <2>5, <2>11, <2>12
<1> QED
    BY <1>2, <1>3

(* A range over some leaves is one over any others that agree on them.     *)
LEMMA RangeIsLocal ==
    ASSUME NEW L, NEW M, NEW range, NEW exps, NEW lows, IsRange(L, range, exps, lows),
           \A i \in (lows[0] + 1)..lows[Len(range)] : L[i] = M[i]
    PROVE  IsRange(M, range, exps, lows)
<1> DEFINE K == Len(range)
<1>1. K \in Nat /\ K \in 0..K /\ 0 \in 0..K /\ range \in Seq(Mountains(L))
    BY LowsAre DEF IsRange
<1>2. ASSUME NEW p \in 1..K
      PROVE  range[p] = TreeOf(M, exps[p], lows[p - 1]) /\ range[p] \in Mountains(M)
  <2> DEFINE e == exps[p]
             low == lows[p - 1]
  <2>1. /\ e \in Nat /\ low \in Nat /\ lows[p] = low + Power[e] /\ range[p] = TreeOf(L, e, low)
        /\ Power[e] \in Nat
      BY LowsAre
  <2>2. lows[0] <= low /\ lows[p] <= lows[K] /\ lows[0] \in Nat /\ lows[K] \in Nat
    <3>1. p \in 0..K /\ p - 1 \in 0..K /\ 0 <= p - 1 /\ p <= K
        BY <1>1
    <3> QED
        BY <1>1, <3>1, LowsAre
  <2> HIDE DEF e, low
  <2>3. \A i \in (low + 1)..(low + Power[e]) : i \in (lows[0] + 1)..lows[K]
      BY <2>1, <2>2, SMTT(30)
  <2>4. \A i \in (low + 1)..(low + Power[e]) : L[i] = M[i]
      BY <2>3
  <2>5. e \in 0..e
      BY <2>1
  <2>6. TreeOf(L, e, low) = TreeOf(M, e, low)
      BY <2>1, <2>4, <2>5, TreeIsLocal, ZenonT(60)
  <2>7. TreeOf(M, e, low) \in Mountains(M)
      BY <2>1, <2>5, TreeIsOf
  <2> QED
      BY <2>1, <2>6, <2>7 DEF e, low
<1>3. range \in Seq(Mountains(M))
    BY <1>1, <1>2
<1> QED
    BY <1>2, <1>3 DEF IsRange

(* append(): a number and its carries.  The claim, merged with the peaks   *)
(* 2^0, 2^1, ... on its left, is the next peak.                            *)
Whole(L, range) ==
    \E exps, lows : IsRange(L, range, exps, lows) /\ lows[0] = 0 /\ lows[Len(range)] = Len(L)

(* append() of a claim to the range of a list gives the range of the       *)
(* longer list.                                                            *)
LEMMA AppendedIs ==
    ASSUME NEW L \in Seq(Claims), NEW x \in Claims, NEW range, Whole(L, range)
    PROVE  Whole(Append(L, x), Appended(range, Summit(x)))
<1> DEFINE M == Append(L, x)
           N == Len(L)
           K == Len(range)
<1>1. PICK exps, lows : IsRange(L, range, exps, lows) /\ lows[0] = 0 /\ lows[K] = N
    BY DEF Whole
<1>2. M \in Seq(Claims) /\ Len(M) = N + 1 /\ N \in Nat /\ M[N + 1] = x /\ \A i \in 1..N : M[i] = L[i]
    BY AppendProperties
<1> HIDE DEF M, N
<1>3. IsRange(M, range, exps, lows)
  <2>1. \A i \in (lows[0] + 1)..lows[K] : L[i] = M[i]
      BY <1>1, <1>2
  <2> QED
      BY <1>1, <2>1, RangeIsLocal
<1>4. K \in Nat /\ range \in Seq(Mountains(M)) /\ \A p \in 1..K : range[p] \in Mountains(M)
    BY <1>3, LowsAre DEF IsRange
<1>5. /\ \A p \in 0..K : lows[p] \in Nat
      /\ \A p \in 1..K : /\ lows[p] \in Nat /\ lows[p - 1] \in Nat
                         /\ exps[p] \in Nat /\ Power[exps[p]] \in Nat \ {0}
                         /\ lows[p] = lows[p - 1] + Power[exps[p]]
                         /\ range[p] = TreeOf(M, exps[p], lows[p - 1])
                         /\ range[p].size = Power[exps[p]]
    BY <1>3, LowsAre
<1> DEFINE m == Summit(x)
           Carries(f) == f = [n \in 0..K |-> IF n = 0 THEN m ELSE Joined(range[K - n + 1], f[n - 1])]
           carried == CHOOSE f : Carries(f)
<1>6. Carries(carried)
  <2> DEFINE values == [n \in 0..K |-> Mountains(M)]
             move == [n \in 1..K |-> [v \in Mountains(M) |-> Joined(range[K - n + 1], v)]]
  <2>1. m \in values[0]
      BY <1>4, TermsAreClosed
  <2>2. \A n \in 1..K : \A v \in values[n - 1] :
            move[n][v] \in values[n] /\ move[n][v] = Joined(range[K - n + 1], v)
    <3> TAKE n \in 1..K
    <3>1. n \in 0..K /\ n - 1 \in 0..K /\ K - n + 1 \in 1..K
        BY <1>4
    <3> TAKE v \in values[n - 1]
    <3>2. v \in Mountains(M) /\ range[K - n + 1] \in Mountains(M)
        BY <1>4, <3>1
    <3>3. Joined(range[K - n + 1], v) \in Mountains(M)
        BY <3>2, TermsAreClosed
    <3> QED
        BY <3>1, <3>2, <3>3
  <2>3. \A n \in 0..K : values[n] = Mountains(M)
      OBVIOUS
  <2> HIDE DEF values, move
  <2>4. PICK on : IsTheWay(on, values, m, K, move)
      BY <1>4, <2>1, <2>2, StepsAreAFunction
  <2>5. \A n \in 0..K : on[n] = IF n = 0 THEN m ELSE Joined(range[K - n + 1], on[n - 1])
    <3> TAKE n \in 0..K
    <3>1. CASE n = 0
        BY <2>4, <3>1 DEF IsTheWay
    <3>2. CASE n # 0
      <4>1. n \in 1..K /\ n - 1 \in 0..K
          BY <3>2
      <4>2. on[n] = move[n][on[n - 1]] /\ on[n - 1] \in values[n - 1]
          BY <2>4, <4>1 DEF IsTheWay
      <4> QED
          BY <2>2, <3>2, <4>1, <4>2
    <3> QED
        BY <3>1, <3>2
  <2>6. on = [n \in 0..K |-> on[n]]
      BY <2>4 DEF IsTheWay, IsFunctionOn
  <2>7. Carries(on)
      BY <2>5, <2>6
  <2> HIDE DEF Carries
  <2> QED
      BY <2>7
<1> HIDE DEF carried
<1>7. carried[0] = m /\ \A n \in 1..K : carried[n] = Joined(range[K - n + 1], carried[n - 1])
    BY <1>4, <1>6, SMTT(30)
<1> DEFINE Rests(n) == n < K => range[K - n].size # carried[n].size
           merges == Min({n \in 0..K : Rests(n)})
<1>8. merges \in 0..K /\ Rests(merges) /\ \A n \in 0..(merges - 1) : ~Rests(n)
  <2> DEFINE S == {n \in 0..K : Rests(n)}
  <2>1. K \in S
      BY <1>4
  <2>2. S \in SUBSET Nat /\ S # {}
      BY <2>1
  <2>3. merges \in S /\ \A n \in S : merges <= n
      BY <2>2, LeastIs
  <2> HIDE DEF merges
  <2>4. \A n \in 0..(merges - 1) : n \in 0..K /\ ~(merges <= n)
      BY <1>4, <2>3
  <2> QED
      BY <2>3, <2>4
<1>9. Appended(range, m) = Append(SubSeq(range, 1, K - merges), carried[merges])
    BY DEF Appended, carried
<1> HIDE DEF merges
<1> DEFINE Merged(j) == /\ carried[j] = TreeOf(M, j, lows[K - j])
                        /\ lows[K - j] + Power[j] = N + 1
                        /\ j > 0 => exps[K - j + 1] = j - 1
           holds == {j \in 0..merges : Merged(j)}
<1>10. 0 \in holds
  <2>1. K - 0 = K /\ K \in 0..K /\ lows[K] = N
      BY <1>1, <1>4
  <2>2. TreeOf(M, 0, N) = Summit(M[N + 1])
      BY <1>2, TreeIs
  <2>3. carried[0] = TreeOf(M, 0, lows[K - 0])
      BY <1>2, <1>7, <2>1, <2>2
  <2>4. lows[K - 0] + Power[0] = N + 1
      BY <2>1, PowersAre
  <2>5. Merged(0)
      BY <2>3, <2>4
  <2>6. 0 \in 0..merges
      BY <1>4, <1>8
  <2> HIDE DEF Merged
  <2> QED
      BY <2>5, <2>6
<1>11. ASSUME NEW j \in 1..merges, j - 1 \in holds
       PROVE  j \in holds
  <2> DEFINE i == j - 1
             p == K - i
             low == lows[p - 1]
  <2>1. i \in 0..(merges - 1) /\ i < K /\ p \in 1..K /\ i \in Nat /\ i + 1 = j
        /\ p = K - j + 1 /\ p - 1 = K - j /\ j \in 1..K
      BY <1>4, <1>8
  <2>2. range[p].size = carried[i].size
      BY <1>8, <2>1
  <2>3. carried[i] = TreeOf(M, i, lows[p]) /\ lows[p] + Power[i] = N + 1
      BY <1>11
  <2>4. lows[p] \in Nat /\ low \in Nat /\ exps[p] \in Nat /\ lows[p] = low + Power[exps[p]]
        /\ range[p] = TreeOf(M, exps[p], low) /\ range[p].size = Power[exps[p]]
      BY <1>5, <2>1
  <2>5. carried[j] = Joined(range[p], carried[i])
      BY <1>7, <2>1
  <2> HIDE DEF i, p, low
  <2>6. i \in 0..i /\ i \in Nat
      BY <2>1
  <2>7. carried[i].size = Power[i]
    <3> DEFINE high == lows[p]
    <3> HIDE DEF high
    <3>1. high \in Nat
        BY <2>4 DEF high
    <3>2. TreeOf(M, i, high).size = Power[i]
        BY <2>6, <3>1, TreeIsOf
    <3> QED
        BY <2>3, <3>2 DEF high
  <2>8. exps[p] = i
    <3>1. Power[exps[p]] = Power[i] /\ Power[i] \in Nat \ {0}
        BY <2>2, <2>4, <2>6, <2>7, PowersAre
    <3>2. CASE exps[p] < i
      <4>1. exps[p] \in 0..(i - 1)
          BY <2>4, <2>6, <3>2
      <4>2. 2 * Power[exps[p]] <= Power[i]
          BY <2>6, <4>1, PowersGrow
      <4> QED
          BY <3>1, <4>2
    <3>3. CASE i < exps[p]
      <4>1. i \in 0..(exps[p] - 1)
          BY <2>4, <2>6, <3>3
      <4>2. 2 * Power[i] <= Power[exps[p]]
          BY <2>4, <4>1, PowersGrow
      <4> QED
          BY <3>1, <4>2
    <3> QED
        BY <2>4, <2>6, <3>2, <3>3
  <2>9. TreeOf(M, i + 1, low) = Joined(TreeOf(M, i, low), TreeOf(M, i, low + Power[i]))
      BY <2>4, <2>6, TreeIs
  <2>10. carried[j] = TreeOf(M, j, low)
      BY <2>1, <2>3, <2>4, <2>5, <2>8, <2>9
  <2>11. Power[j] = 2 * Power[i] /\ Power[i] \in Nat
      BY <2>1, <2>6, PowersAre
  <2>12. low + Power[j] = N + 1
      BY <1>2, <2>3, <2>4, <2>8, <2>11
  <2>13. exps[K - j + 1] = j - 1 /\ low = lows[K - j]
    <3>1. i = j - 1
        BY DEF i
    <3> QED
        BY <2>1, <2>8, <3>1 DEF low
  <2> QED
      BY <2>10, <2>12, <2>13
<1> HIDE DEF holds, Merged
<1>12. Merged(merges)
  <2>0. merges \in Nat
      BY <1>4, <1>8
  <2>1. \A j \in 0..merges : j \in holds
      BY <1>10, <1>11, <2>0, CountingUp
  <2>2. merges \in 0..merges
      BY <1>4, <1>8
  <2> QED
      BY <2>1, <2>2 DEF holds
<1> DEFINE left == K - merges
           after == Append(SubSeq(range, 1, left), carried[merges])
           newExps == [p \in 1..(left + 1) |-> IF p = left + 1 THEN merges ELSE exps[p]]
           newLows == [p \in 0..(left + 1) |-> IF p = left + 1 THEN N + 1 ELSE lows[p]]
<1>13. left \in 0..K /\ left \in Nat /\ merges \in Nat
    BY <1>4, <1>8
<1>14. /\ carried[merges] = TreeOf(M, merges, lows[left]) /\ lows[left] + Power[merges] = N + 1
       /\ merges > 0 => exps[left + 1] = merges - 1
    BY <1>12 DEF Merged
<1>15. carried[merges] \in Mountains(M) /\ carried[merges].size = Power[merges]
  <2> DEFINE low == lows[left]
  <2>1. low \in Nat
      BY <1>5, <1>13
  <2> HIDE DEF low
  <2>2. TreeOf(M, merges, low) \in Mountains(M) /\ TreeOf(M, merges, low).size = Power[merges]
      BY <1>13, <2>1, TreeIsOf
  <2> QED
      BY <1>14, <2>2 DEF low
<1>16. /\ after \in Seq(Mountains(M)) /\ Len(after) = left + 1
       /\ after[left + 1] = carried[merges]
       /\ \A p \in 1..left : after[p] = range[p]
  <2> DEFINE s == SubSeq(range, 1, left)
  <2>1. s \in Seq(Mountains(M)) /\ Len(s) = left /\ \A p \in 1..left : s[p] = range[p]
    <3>1. 1..left \subseteq 1..K
        BY <1>13
    <3> QED
        BY <1>4, <1>13, <3>1, SubSeqProperties
  <2> HIDE DEF s
  <2>2. /\ Append(s, carried[merges]) \in Seq(Mountains(M))
        /\ Len(Append(s, carried[merges])) = left + 1
        /\ Append(s, carried[merges])[left + 1] = carried[merges]
        /\ \A p \in 1..left : Append(s, carried[merges])[p] = s[p]
      BY <1>15, <2>1, AppendProperties
  <2> QED
      BY <2>1, <2>2 DEF s
<1>17. left > 0 => exps[left] > merges
  <2> SUFFICES ASSUME left > 0
               PROVE  exps[left] > merges
      OBVIOUS
  <2>1. left \in 1..K /\ merges < K /\ K - merges = left
      BY <1>4, <1>8, <1>13
  <2>2. exps[left] \in Nat /\ range[left].size = Power[exps[left]]
      BY <1>5, <2>1
  <2>3. exps[left] # merges
      BY <1>8, <1>15, <2>1, <2>2
  <2>4. exps[left] >= merges
    <3>1. CASE merges = 0
        BY <2>2, <3>1
    <3>2. CASE merges # 0
      <4>1. left + 1 \in 1..K /\ left < left + 1 /\ merges > 0
          BY <1>4, <1>8, <2>1, <3>2
      <4>2. exps[left] > exps[left + 1]
          BY <1>3, <2>1, <4>1 DEF IsRange
      <4> QED
          BY <1>13, <1>14, <2>2, <4>1, <4>2
    <3> QED
        BY <3>1, <3>2
  <2> QED
      BY <1>13, <2>2, <2>3, <2>4
<1> HIDE DEF after
<1>18. IsRange(M, after, newExps, newLows)
  <2>1. 1..left \subseteq 1..K /\ 0..left \subseteq 0..K
      BY <1>13
  <2>2. newLows[0] = lows[0] /\ newLows[0] \in Nat
    <3>1. 0 \in 0..(left + 1) /\ 0 # left + 1
        BY <1>13
    <3> QED
        BY <1>1, <3>1
  <2>3. ASSUME NEW p \in 1..(left + 1)
        PROVE  /\ newExps[p] \in Nat /\ newLows[p] \in Nat
               /\ newLows[p] = newLows[p - 1] + Power[newExps[p]]
               /\ after[p] = TreeOf(M, newExps[p], newLows[p - 1])
    <3>1. p - 1 \in 0..left /\ p - 1 \in 0..(left + 1) /\ p - 1 # left + 1 /\ p \in 0..(left + 1)
        BY <1>13
    <3>2. newLows[p - 1] = lows[p - 1]
        BY <3>1
    <3>3. CASE p = left + 1
      <4>1. newExps[p] = merges /\ newLows[p] = N + 1 /\ p - 1 = left
          BY <1>13, <3>1, <3>3
      <4> QED
          BY <1>2, <1>13, <1>14, <1>16, <3>2, <3>3, <4>1
    <3>4. CASE p # left + 1
      <4>1. newExps[p] = exps[p] /\ newLows[p] = lows[p] /\ p \in 1..left /\ p \in 1..K
          BY <1>13, <2>1, <3>1, <3>4
      <4> QED
          BY <1>5, <1>16, <3>2, <4>1
    <3> QED
        BY <3>3, <3>4
  <2>4. ASSUME NEW p \in 1..(left + 1), NEW q \in 1..(left + 1), p < q
        PROVE  newExps[p] > newExps[q]
    <3>1. p \in 1..left /\ p \in 1..K /\ newExps[p] = exps[p] /\ left > 0 /\ left \in 1..K
        BY <1>13, <2>1, <2>4
    <3>2. CASE q = left + 1
      <4>1. newExps[q] = merges
          BY <3>2
      <4>2. exps[left] > merges /\ exps[left] \in Nat /\ exps[p] \in Nat
          BY <1>5, <1>17, <3>1
      <4>3. p = left \/ exps[p] > exps[left]
        <5>1. p = left \/ p < left
            BY <3>1
        <5> QED
            BY <1>3, <3>1, <5>1 DEF IsRange
      <4> QED
          BY <1>13, <3>1, <4>1, <4>2, <4>3, SMTT(30)
    <3>3. CASE q # left + 1
      <4>1. q \in 1..K /\ newExps[q] = exps[q]
          BY <1>13, <2>1, <3>3
      <4>2. exps[p] > exps[q]
          BY <1>3, <2>4, <3>1, <4>1 DEF IsRange
      <4> QED
          BY <3>1, <4>1, <4>2
    <3> QED
        BY <3>2, <3>3
  <2> HIDE DEF newExps, newLows
  <2> QED
      BY <1>16, <2>2, <2>3, <2>4 DEF IsRange
<1>19. newLows[0] = 0 /\ newLows[Len(after)] = Len(M)
  <2>1. 0 \in 0..(left + 1) /\ 0 # left + 1 /\ left + 1 \in 0..(left + 1)
      BY <1>13
  <2> QED
      BY <1>1, <1>2, <1>16, <2>1
<1>20. Whole(M, after)
  <2> HIDE DEF newExps, newLows
  <2> QED
      BY <1>18, <1>19 DEF Whole
<1> QED
    BY <1>9, <1>20 DEF M, after

(* inclusionProof() of leaf i in the m leaves after the first l.           *)
Siblings(L) == [sibling : Terms(L), side : {"left", "right"}]
PathOf(L, i, l, m) ==
    LET path[n \in Nat] == [x \in Nat |->
            LET k == LargestPowerOfTwoBelow(n)
            IN  IF n <= 1 THEN <<>>
                ELSE IF i <= x + k
                THEN Append(path[k][x], Step(HeadOf(L, x + k, n - k), "right"))
                ELSE Append(path[n - k][x + k], Step(HeadOf(L, x, k), "left"))]
    IN  path[m][l]

(* The head of any run of leaves may stand as a sibling in a path.         *)
LEMMA SiblingsAre ==
    ASSUME NEW L, NEW l \in Nat, NEW m \in Nat
    PROVE  /\ Step(HeadOf(L, l, m), "left") \in Siblings(L)
           /\ Step(HeadOf(L, l, m), "right") \in Siblings(L)
<1>1. HeadOf(L, l, m) \in Terms(L)
    BY HeadIs
<1> QED
    BY <1>1 DEF Step, Siblings

(* inclusionProof() is what its recursion says: the path in the half that  *)
(* holds the leaf, and then the head of the other half.                    *)
LEMMA PathsAre ==
    ASSUME NEW L, NEW i \in Nat
    PROVE  \A m, l \in Nat :
              LET k == LargestPowerOfTwoBelow(m)
              IN  /\ m <= 1 => PathOf(L, i, l, m) = <<>>
                  /\ m > 1 /\ i <= l + k =>
                        PathOf(L, i, l, m) = Append(PathOf(L, i, l, k),
                                                    Step(HeadOf(L, l + k, m - k), "right"))
                  /\ m > 1 /\ ~(i <= l + k) =>
                        PathOf(L, i, l, m) = Append(PathOf(L, i, l + k, m - k),
                                                    Step(HeadOf(L, l, k), "left"))
                  /\ PathOf(L, i, l, m) \in Seq(Siblings(L))
<1> DEFINE T == Seq(Siblings(L))
           S == [Nat -> T]
           Half(n) == LargestPowerOfTwoBelow(n)
           Value(f, n, x) ==
               IF n <= 1 THEN <<>>
               ELSE IF i <= x + Half(n)
               THEN Append(f[Half(n)][x], Step(HeadOf(L, x + Half(n), n - Half(n)), "right"))
               ELSE Append(f[n - Half(n)][x + Half(n)], Step(HeadOf(L, x, Half(n)), "left"))
           body == [f \in [Nat -> S] |-> [n \in Nat |-> [x \in Nat |-> Value(f, n, x)]]]
           Path(f) == f = [n \in Nat |-> [x \in Nat |-> Value(f, n, x)]]
           path == CHOOSE f : Path(f)
<1>1. <<>> \in T /\ \A s \in T, step \in Siblings(L) : Append(s, step) \in T
    BY AppendProperties
<1>2. ASSUME NEW n \in Nat, n > 1, NEW x \in Nat
      PROVE  /\ Half(n) \in 0..(n - 1) /\ n - Half(n) \in 0..(n - 1)
             /\ Half(n) \in Nat /\ n - Half(n) \in Nat /\ x + Half(n) \in Nat
             /\ Step(HeadOf(L, x + Half(n), n - Half(n)), "right") \in Siblings(L)
             /\ Step(HeadOf(L, x, Half(n)), "left") \in Siblings(L)
  <2>1. Half(n) \in 1..(n - 1)
      BY <1>2, HalfIs
  <2> HIDE DEF Half
  <2>2. /\ Half(n) \in 0..(n - 1) /\ n - Half(n) \in 0..(n - 1)
        /\ Half(n) \in Nat /\ n - Half(n) \in Nat /\ x + Half(n) \in Nat
      BY <2>1
  <2> QED
      BY <2>2, SiblingsAre
<1> HIDE DEF T, Half
<1>3. ASSUME NEW f, \A n, x \in Nat : f[n][x] \in T, NEW n \in Nat, NEW x \in Nat
      PROVE  Value(f, n, x) \in T
  <2>1. CASE n <= 1
      BY <1>1, <2>1
  <2>2. CASE ~(n <= 1)
    <3>1. n > 1
        BY <2>2
    <3>2. f[Half(n)][x] \in T /\ f[n - Half(n)][x + Half(n)] \in T
        BY <1>2, <1>3, <3>1
    <3>3. /\ Append(f[Half(n)][x], Step(HeadOf(L, x + Half(n), n - Half(n)), "right")) \in T
          /\ Append(f[n - Half(n)][x + Half(n)], Step(HeadOf(L, x, Half(n)), "left")) \in T
        BY <1>1, <1>2, <3>1, <3>2
    <3> QED
        BY <2>2, <3>3
  <2> QED
      BY <2>1, <2>2
<1>4. ASSUME NEW f, NEW g, NEW n \in Nat, \A j \in 0..(n - 1) : f[j] = g[j], NEW x \in Nat
      PROVE  Value(f, n, x) = Value(g, n, x)
  <2>1. CASE n <= 1
      BY <2>1
  <2>2. CASE ~(n <= 1)
    <3>1. n > 1
        BY <2>2
    <3>2. f[Half(n)] = g[Half(n)] /\ f[n - Half(n)] = g[n - Half(n)]
        BY <1>2, <1>4, <3>1
    <3> QED
        BY <2>2, <3>2
  <2> QED
      BY <2>1, <2>2
<1> HIDE DEF Value
<1>5. body \in [[Nat -> S] -> [Nat -> S]]
  <2>1. ASSUME NEW f \in [Nat -> S], NEW n \in Nat, NEW x \in Nat
        PROVE  Value(f, n, x) \in T
    <3>1. \A j, y \in Nat : f[j][y] \in T
        OBVIOUS
    <3> QED
        BY <1>3, <3>1
  <2> QED
      BY <2>1
<1>6. \A f, g \in [Nat -> S], n \in Nat :
          (\A j \in 0..(n - 1) : f[j] = g[j]) => body[f][n] = body[g][n]
  <2> TAKE f, g \in [Nat -> S], n \in Nat
  <2> HAVE \A j \in 0..(n - 1) : f[j] = g[j]
  <2>1. \A x \in Nat : Value(f, n, x) = Value(g, n, x)
      BY <1>4
  <2> QED
      BY <2>1
<1>7. S # {}
  <2>1. [x \in Nat |-> <<>>] \in S
      BY <1>1
  <2> QED
      BY <2>1
<1>8. \E f \in [Nat -> S] : body[f] = f
  <2> HIDE DEF body, S
  <2> QED
      BY <1>5, <1>6, <1>7, RecursionIs
<1>9. \E f : Path(f)
  <2>1. PICK f \in [Nat -> S] : body[f] = f
      BY <1>8
  <2>2. Path(f)
      BY <2>1
  <2> HIDE DEF Path
  <2> QED
      BY <2>2
<1>10. Path(path)
  <2> HIDE DEF Path
  <2> QED
      BY <1>9
<1>11. \A n, x \in Nat : PathOf(L, i, x, n) = path[n][x]
    BY DEF PathOf, Value, Half
<1> HIDE DEF path
<1>12. \A n, x \in Nat : path[n][x] = Value(path, n, x)
  <2> TAKE n, x \in Nat
  <2>1. path[n] = [y \in Nat |-> Value(path, n, y)]
      BY <1>10
  <2> QED
      BY <2>1
<1> HIDE DEF Path, body, S
<1>13. ASSUME NEW most \in Nat
       PROVE  \A x \in Nat : path[most][x] \in T
  <2> DEFINE holds == {n \in 0..most : \A j \in 0..n, x \in Nat : path[j][x] \in T}
  <2>1. ASSUME NEW n \in Nat, \A j \in 0..(n - 1), x \in Nat : path[j][x] \in T
        PROVE  \A x \in Nat : path[n][x] \in T
    <3> TAKE x \in Nat
    <3>1. path[n][x] = Value(path, n, x)
        BY <1>12
    <3>2. CASE n <= 1
        BY <1>1, <3>1, <3>2 DEF Value
    <3>3. CASE ~(n <= 1)
      <4>1. n > 1
          BY <3>3
      <4>2. path[Half(n)][x] \in T /\ path[n - Half(n)][x + Half(n)] \in T
          BY <1>2, <2>1, <4>1
      <4>3. /\ Append(path[Half(n)][x], Step(HeadOf(L, x + Half(n), n - Half(n)), "right")) \in T
            /\ Append(path[n - Half(n)][x + Half(n)], Step(HeadOf(L, x, Half(n)), "left")) \in T
          BY <1>1, <1>2, <4>1, <4>2
      <4> QED
          BY <3>1, <3>3, <4>3 DEF Value
    <3> QED
        BY <3>2, <3>3
  <2>2. 0 \in holds
    <3>1. \A j \in 0..(0 - 1), x \in Nat : path[j][x] \in T
        OBVIOUS
    <3>2. \A x \in Nat : path[0][x] \in T
        BY <2>1, <3>1
    <3> QED
        BY <3>2
  <2>3. ASSUME NEW n \in 1..most, n - 1 \in holds
        PROVE  n \in holds
    <3>1. n \in Nat /\ n \in 0..most /\ \A j \in 0..n : j = n \/ j \in 0..(n - 1)
        OBVIOUS
    <3>2. \A j \in 0..(n - 1), x \in Nat : path[j][x] \in T
        BY <2>3
    <3>3. \A x \in Nat : path[n][x] \in T
        BY <2>1, <3>1, <3>2
    <3> QED
        BY <3>1, <3>2, <3>3
  <2> HIDE DEF holds
  <2>4. \A n \in 0..most : n \in holds
      BY <2>2, <2>3, CountingUp
  <2>5. most \in holds
      BY <2>4
  <2> QED
      BY <2>5 DEF holds
<1> TAKE m, l \in Nat
<1>14. m <= 1 => PathOf(L, i, l, m) = <<>>
    BY <1>11, <1>12 DEF Value
<1>15. ASSUME m > 1
       PROVE  /\ i <= l + Half(m) =>
                    PathOf(L, i, l, m) = Append(PathOf(L, i, l, Half(m)),
                                                Step(HeadOf(L, l + Half(m), m - Half(m)), "right"))
              /\ ~(i <= l + Half(m)) =>
                    PathOf(L, i, l, m) = Append(PathOf(L, i, l + Half(m), m - Half(m)),
                                                Step(HeadOf(L, l, Half(m)), "left"))
  <2>1. PathOf(L, i, l, m) = Value(path, m, l)
      BY <1>11, <1>12
  <2>2. /\ PathOf(L, i, l, Half(m)) = path[Half(m)][l]
        /\ PathOf(L, i, l + Half(m), m - Half(m)) = path[m - Half(m)][l + Half(m)]
      BY <1>2, <1>11, <1>15
  <2>3. ~(m <= 1)
      BY <1>15
  <2> QED
      BY <2>1, <2>2, <2>3 DEF Value
<1>16. PathOf(L, i, l, m) \in Seq(Siblings(L))
    BY <1>11, <1>13 DEF T
<1> QED
    BY <1>14, <1>15, <1>16 DEF Half

(* A path is a list of siblings, and the one of a single leaf is empty.    *)
LEMMA PathIsTyped ==
    ASSUME NEW L, NEW i \in Nat, NEW m \in Nat, NEW l \in Nat
    PROVE  PathOf(L, i, l, m) \in Seq(Siblings(L)) /\ (m <= 1 => PathOf(L, i, l, m) = <<>>)
    BY PathsAre, Zenon

(* A leaf in the left half has the head of the right one for last sibling. *)
LEMMA PathOnTheLeft ==
    ASSUME NEW L, NEW i \in Nat, NEW m \in Nat, NEW l \in Nat, m > 1,
           i <= l + LargestPowerOfTwoBelow(m)
    PROVE  PathOf(L, i, l, m)
               = Append(PathOf(L, i, l, LargestPowerOfTwoBelow(m)),
                        Step(HeadOf(L, l + LargestPowerOfTwoBelow(m),
                                    m - LargestPowerOfTwoBelow(m)), "right"))
    BY PathsAre, Zenon

(* A leaf in the right half has the head of the left one for last sibling. *)
LEMMA PathOnTheRight ==
    ASSUME NEW L, NEW i \in Nat, NEW m \in Nat, NEW l \in Nat, m > 1,
           ~(i <= l + LargestPowerOfTwoBelow(m))
    PROVE  PathOf(L, i, l, m)
               = Append(PathOf(L, i, l + LargestPowerOfTwoBelow(m), m - LargestPowerOfTwoBelow(m)),
                        Step(HeadOf(L, l, LargestPowerOfTwoBelow(m)), "left"))
    BY PathsAre, Zenon

(* Past a power of two of leaves.                                          *)
LEMMA PathSplits ==
    ASSUME NEW L, NEW i \in Nat, NEW l \in Nat, NEW e \in Nat, NEW rest \in 1..Power[e]
    PROVE  PathOf(L, i, l, Power[e] + rest)
               = IF i <= l + Power[e]
                 THEN Append(PathOf(L, i, l, Power[e]), Step(HeadOf(L, l + Power[e], rest), "right"))
                 ELSE Append(PathOf(L, i, l + Power[e], rest), Step(HeadOf(L, l, Power[e]), "left"))
<1> DEFINE k == Power[e]
           m == k + rest
           half == LargestPowerOfTwoBelow(m)
<1>1. k \in Nat \ {0}
    BY PowersAre
<1>2. m \in Nat /\ m > 1 /\ m - k = rest
    BY <1>1
<1>3. half = k
    BY HalfOf
<1> HIDE DEF m, k
<1>4. ASSUME i <= l + half
      PROVE  PathOf(L, i, l, m) = Append(PathOf(L, i, l, half), Step(HeadOf(L, l + half, m - half), "right"))
    BY <1>2, <1>4, PathOnTheLeft
<1>5. ASSUME ~(i <= l + half)
      PROVE  PathOf(L, i, l, m) = Append(PathOf(L, i, l + half, m - half), Step(HeadOf(L, l, half), "left"))
    BY <1>2, <1>5, PathOnTheRight
<1> HIDE DEF half
<1>6. PathOf(L, i, l, m) = IF i <= l + k
                           THEN Append(PathOf(L, i, l, k), Step(HeadOf(L, l + k, rest), "right"))
                           ELSE Append(PathOf(L, i, l + k, rest), Step(HeadOf(L, l, k), "left"))
    BY <1>2, <1>3, <1>4, <1>5
<1> QED
    BY <1>6 DEF m, k

(* The same, for a leaf that comes after the power of two.                 *)
LEMMA PathPast ==
    ASSUME NEW L, NEW i \in Nat, NEW l \in Nat, NEW e \in Nat, NEW rest \in 1..Power[e],
           ~(i <= l + Power[e])
    PROVE  PathOf(L, i, l, Power[e] + rest)
               = Append(PathOf(L, i, l + Power[e], rest), Step(HeadOf(L, l, Power[e]), "left"))
    BY PathSplits

(* And where the leaves are twice a power of two: the path down a mountain. *)
LEMMA PathHalves ==
    ASSUME NEW L, NEW i \in Nat, NEW l \in Nat, NEW e \in Nat
    PROVE  PathOf(L, i, l, Power[e] + Power[e])
               = IF i <= l + Power[e]
                 THEN Append(PathOf(L, i, l, Power[e]), Step(HeadOf(L, l + Power[e], Power[e]), "right"))
                 ELSE Append(PathOf(L, i, l + Power[e], Power[e]), Step(HeadOf(L, l, Power[e]), "left"))
<1> DEFINE rest == Power[e]
<1>1. rest = Power[e] /\ rest \in 1..Power[e]
    BY PowersAre
<1> HIDE DEF rest
<1>2. PathOf(L, i, l, Power[e] + rest)
          = IF i <= l + Power[e]
            THEN Append(PathOf(L, i, l, Power[e]), Step(HeadOf(L, l + Power[e], rest), "right"))
            ELSE Append(PathOf(L, i, l + Power[e], rest), Step(HeadOf(L, l, Power[e]), "left"))
    BY <1>1, PathSplits, ZenonT(60)
<1> QED
    BY <1>1, <1>2

(* verifyInclusionProof(): the hashes on the way up from the leaf.         *)
IsAscent(hashes, hash, s) ==
    hashes[0] = hash /\ \A j \in 1..Len(s) : hashes[j] = Ascend(hashes[j - 1], s[j])

(* The hashes on the way up exist, and the last is what the path leads to. *)
LEMMA AscentIs ==
    ASSUME NEW L, NEW hash \in Terms(L), NEW s \in Seq(Siblings(L))
    PROVE  \E hashes : IsAscent(hashes, hash, s) /\ Ascended(hash, s) = hashes[Len(s)]
<1> DEFINE last == Len(s)
           Up(f) == f = [j \in 0..last |-> IF j = 0 THEN hash ELSE Ascend(f[j - 1], s[j])]
           hashes == CHOOSE f : Up(f)
           values == [n \in 0..last |-> Terms(L)]
           move == [n \in 1..last |-> [v \in Terms(L) |-> Ascend(v, s[n])]]
<1>1. last \in Nat /\ \A n \in 1..last : s[n] \in Siblings(L)
    OBVIOUS
<1>2. hash \in values[0] /\ \A n \in 0..last : values[n] = Terms(L)
    BY <1>1
<1>3. \A n \in 1..last : \A v \in values[n - 1] :
          move[n][v] \in values[n] /\ move[n][v] = Ascend(v, s[n])
  <2> TAKE n \in 1..last
  <2>1. n - 1 \in 0..last /\ n \in 0..last
      BY <1>1
  <2> TAKE v \in values[n - 1]
  <2>2. v \in Terms(L) /\ s[n].sibling \in Terms(L)
      BY <1>1, <2>1 DEF Siblings
  <2>3. HashNode(s[n].sibling, v) \in Terms(L) /\ HashNode(v, s[n].sibling) \in Terms(L)
      BY <2>2, TermsAreClosed DEF Closed
  <2>4. Ascend(v, s[n]) \in Terms(L)
      BY <2>3 DEF Ascend
  <2> QED
      BY <1>2, <2>1, <2>2, <2>4
<1> HIDE DEF values, move
<1>4. PICK on : IsTheWay(on, values, hash, last, move)
    BY <1>1, <1>2, <1>3, StepsAreAFunction
<1>5. \A j \in 0..last : on[j] = IF j = 0 THEN hash ELSE Ascend(on[j - 1], s[j])
  <2> TAKE j \in 0..last
  <2>1. CASE j = 0
      BY <1>4, <2>1 DEF IsTheWay
  <2>2. CASE j # 0
    <3>1. j \in 1..last /\ j - 1 \in 0..last
        BY <1>1, <2>2
    <3>2. on[j] = move[j][on[j - 1]] /\ on[j - 1] \in values[j - 1]
        BY <1>4, <3>1 DEF IsTheWay
    <3> QED
        BY <1>3, <2>2, <3>1, <3>2
  <2> QED
      BY <2>1, <2>2
<1>6. Up(on)
  <2>1. on = [j \in 0..last |-> on[j]]
      BY <1>4 DEF IsTheWay, IsFunctionOn
  <2> QED
      BY <1>5, <2>1
<1>7. Up(hashes)
  <2> HIDE DEF Up
  <2> QED
      BY <1>6
<1>8. Ascended(hash, s) = hashes[last]
    BY DEF Ascended
<1> HIDE DEF hashes
<1>9. IsAscent(hashes, hash, s)
  <2>1. hashes[0] = hash
      BY <1>1, <1>7
  <2>2. \A j \in 1..last : hashes[j] = Ascend(hashes[j - 1], s[j])
      BY <1>1, <1>7
  <2> QED
      BY <2>1, <2>2 DEF IsAscent
<1> HIDE DEF Up
<1> QED
    BY <1>8, <1>9

(* A path with one more sibling leads one hash further up.                 *)
LEMMA AscendedIs ==
    ASSUME NEW L, NEW hash \in Terms(L), NEW s \in Seq(Siblings(L)), NEW step \in Siblings(L)
    PROVE  /\ Ascended(hash, <<>>) = hash
           /\ Ascended(hash, Append(s, step)) = Ascend(Ascended(hash, s), step)
<1>1. Ascended(hash, <<>>) = hash
  <2>1. <<>> \in Seq(Siblings(L)) /\ Len(<<>>) = 0
      OBVIOUS
  <2>2. PICK hashes : IsAscent(hashes, hash, <<>>) /\ Ascended(hash, <<>>) = hashes[Len(<<>>)]
      BY <2>1, AscentIs
  <2> QED
      BY <2>1, <2>2 DEF IsAscent
<1>2. Ascended(hash, Append(s, step)) = Ascend(Ascended(hash, s), step)
  <2> DEFINE last == Len(s)
             t == Append(s, step)
  <2>1. /\ last \in Nat /\ t \in Seq(Siblings(L)) /\ Len(t) = last + 1
        /\ t[last + 1] = step /\ \A j \in 1..last : t[j] = s[j]
      BY AppendProperties
  <2> HIDE DEF t
  <2>2. PICK hashes : IsAscent(hashes, hash, s) /\ Ascended(hash, s) = hashes[last]
      BY AscentIs
  <2>3. PICK above : IsAscent(above, hash, t) /\ Ascended(hash, t) = above[last + 1]
      BY <2>1, AscentIs
  <2> DEFINE holds == {j \in 0..last : hashes[j] = above[j]}
  <2>4. 0 \in holds
      BY <2>1, <2>2, <2>3 DEF IsAscent
  <2>5. ASSUME NEW j \in 1..last, j - 1 \in holds
        PROVE  j \in holds
    <3>1. j \in 1..Len(t) /\ j \in 0..last /\ t[j] = s[j]
        BY <2>1
    <3>2. hashes[j] = Ascend(hashes[j - 1], s[j]) /\ above[j] = Ascend(above[j - 1], t[j])
        BY <2>2, <2>3, <3>1 DEF IsAscent
    <3> QED
        BY <2>5, <3>1, <3>2
  <2> HIDE DEF holds
  <2>6. \A j \in 0..last : j \in holds
      BY <2>1, <2>4, <2>5, CountingUp
  <2>7. hashes[last] = above[last]
    <3>1. last \in holds
        BY <2>1, <2>6
    <3> QED
        BY <3>1 DEF holds
  <2>8. above[last + 1] = Ascend(above[last], step)
    <3>1. last + 1 \in 1..Len(t) /\ (last + 1) - 1 = last
        BY <2>1
    <3> QED
        BY <2>1, <2>3, <3>1 DEF IsAscent
  <2> QED
      BY <2>2, <2>3, <2>7, <2>8 DEF t
<1> QED
    BY <1>1, <1>2

(* Different leaves end in different roots on the same way.                *)
LEMMA AscentsDiffer ==
    ASSUME NEW L, NEW hash \in Terms(L), NEW other \in Terms(L), NEW s \in Seq(Siblings(L)),
           Ascended(hash, s) = Ascended(other, s)
    PROVE  hash = other
<1> DEFINE last == Len(s)
<1>1. last \in Nat
    OBVIOUS
<1>2. PICK hashes : IsAscent(hashes, hash, s) /\ Ascended(hash, s) = hashes[last]
    BY AscentIs
<1>3. PICK above : IsAscent(above, other, s) /\ Ascended(other, s) = above[last]
    BY AscentIs
<1> DEFINE holds == {j \in 0..last : hashes[j] = above[j] => hash = other}
<1>4. 0 \in holds
    BY <1>1, <1>2, <1>3 DEF IsAscent
<1>5. ASSUME NEW j \in 1..last, j - 1 \in holds
      PROVE  j \in holds
  <2>1. hashes[j] = Ascend(hashes[j - 1], s[j]) /\ above[j] = Ascend(above[j - 1], s[j])
      BY <1>2, <1>3 DEF IsAscent
  <2>2. hashes[j] = above[j] => hashes[j - 1] = above[j - 1]
    <3>1. \A x, y, z : /\ HashNode(x, z) = HashNode(y, z) => x = y
                       /\ HashNode(z, x) = HashNode(z, y) => x = y
        BY DEF HashNode
    <3> QED
        BY <2>1, <3>1 DEF Ascend
  <2> QED
      BY <1>5, <2>2
<1> HIDE DEF holds
<1>6. \A j \in 0..last : j \in holds
    BY <1>1, <1>4, <1>5, CountingUp
<1>7. last \in holds
    BY <1>1, <1>6
<1> QED
    BY <1>2, <1>3, <1>7 DEF holds

(* The path of a leaf leads from it to the head.                           *)
LEMMA PathsLeadUp ==
    ASSUME NEW L, NEW i \in Nat, NEW most \in Nat
    PROVE  \A m \in 1..most, l \in Nat :
               i \in (l + 1)..(l + m) =>
                   Ascended(HashLeaf(L[i]), PathOf(L, i, l, m)) = HeadOf(L, l, m)
<1> DEFINE Leads(m) == \A l \in Nat : i \in (l + 1)..(l + m) =>
                          Ascended(HashLeaf(L[i]), PathOf(L, i, l, m)) = HeadOf(L, l, m)
           holds == {n \in 0..most : \A m \in 1..n : Leads(m)}
           leaf == HashLeaf(L[i])
<1>1. leaf \in Terms(L)
    BY TermsAreClosed DEF Leaves
<1>2. ASSUME NEW n \in Nat, n # 0, \A m \in 1..(n - 1) : Leads(m)
      PROVE  Leads(n)
  <2> SUFFICES ASSUME NEW l \in Nat, i \in (l + 1)..(l + n)
               PROVE  Ascended(leaf, PathOf(L, i, l, n)) = HeadOf(L, l, n)
      OBVIOUS
  <2>1. CASE n = 1
    <3>1. PathOf(L, i, l, n) = <<>>
      <4>1. n \in Nat /\ n <= 1
          BY <2>1
      <4> QED
          BY <4>1, PathIsTyped
    <3>2. i = l + 1
        BY <2>1
    <3>3. HeadOf(L, l, n) = HashLeaf(L[l + 1])
        BY <2>1, HeadIs
    <3>4. \E s \in Siblings(L) : TRUE
        BY SiblingsAre
    <3>5. <<>> \in Seq(Siblings(L))
        OBVIOUS
    <3> QED
        BY <1>1, <3>1, <3>2, <3>3, <3>4, <3>5, AscendedIs
  <2>2. CASE n > 1
    <3> DEFINE k == LargestPowerOfTwoBelow(n)
    <3>1. k \in 1..(n - 1)
        BY <2>2, HalfIs
    <3>2. HeadOf(L, l, n) = HashNode(HeadOf(L, l, k), HeadOf(L, l + k, n - k))
      <4>1. n >= 2
          BY <2>2
      <4> QED
          BY <4>1, HeadIs
    <3>3. ASSUME i <= l + k
          PROVE  PathOf(L, i, l, n) = Append(PathOf(L, i, l, k), Step(HeadOf(L, l + k, n - k), "right"))
        BY <2>2, <3>3, PathOnTheLeft
    <3>past. ASSUME ~(i <= l + k)
          PROVE  PathOf(L, i, l, n) = Append(PathOf(L, i, l + k, n - k), Step(HeadOf(L, l, k), "left"))
        BY <2>2, <3>past, PathOnTheRight
    <3> HIDE DEF k, leaf
    <3>4. k \in Nat /\ n - k \in Nat /\ l + k \in Nat /\ n - k \in 1..(n - 1)
        BY <3>1
    <3>5. /\ PathOf(L, i, l, k) \in Seq(Siblings(L))
          /\ PathOf(L, i, l + k, n - k) \in Seq(Siblings(L))
        BY <3>4, PathIsTyped
    <3>6. CASE i <= l + k
      <4>1. i \in (l + 1)..(l + k)
          BY <3>1, <3>6
      <4>2. Ascended(leaf, PathOf(L, i, l, k)) = HeadOf(L, l, k)
          BY <1>2, <3>1, <4>1 DEF leaf
      <4> DEFINE step == Step(HeadOf(L, l + k, n - k), "right")
      <4>3. step \in Siblings(L)
          BY <3>4, SiblingsAre
      <4>4. Ascend(HeadOf(L, l, k), step) = HashNode(HeadOf(L, l, k), HeadOf(L, l + k, n - k))
          BY DEF Ascend, Step
      <4> HIDE DEF step
      <4>5. Ascended(leaf, Append(PathOf(L, i, l, k), step)) = Ascend(HeadOf(L, l, k), step)
          BY <1>1, <3>5, <4>2, <4>3, AscendedIs
      <4> QED
          BY <3>2, <3>3, <3>6, <4>4, <4>5 DEF step
    <3>7. CASE ~(i <= l + k)
      <4>1. i \in ((l + k) + 1)..((l + k) + (n - k))
          BY <3>1, <3>7
      <4>2. Ascended(leaf, PathOf(L, i, l + k, n - k)) = HeadOf(L, l + k, n - k)
          BY <1>2, <3>4, <4>1 DEF leaf
      <4> DEFINE step == Step(HeadOf(L, l, k), "left")
      <4>3. step \in Siblings(L)
          BY <3>4, SiblingsAre
      <4>4. Ascend(HeadOf(L, l + k, n - k), step) = HashNode(HeadOf(L, l, k), HeadOf(L, l + k, n - k))
          BY DEF Ascend, Step
      <4> HIDE DEF step
      <4>5. Ascended(leaf, Append(PathOf(L, i, l + k, n - k), step))
                = Ascend(HeadOf(L, l + k, n - k), step)
          BY <1>1, <3>5, <4>2, <4>3, AscendedIs
      <4> QED
          BY <3>2, <3>past, <3>7, <4>4, <4>5 DEF step
    <3> QED
        BY <3>6, <3>7
  <2> QED
      BY <1>2, <2>1, <2>2
<1> HIDE DEF Leads
<1>3. 0 \in holds
    OBVIOUS
<1>4. ASSUME NEW n \in 1..most, n - 1 \in holds
      PROVE  n \in holds
  <2>1. n \in Nat /\ n # 0 /\ n \in 0..most /\ \A m \in 1..n : m = n \/ m \in 1..(n - 1)
      OBVIOUS
  <2>2. Leads(n)
      BY <1>2, <1>4, <2>1
  <2> QED
      BY <1>4, <2>1, <2>2
<1> HIDE DEF holds
<1>5. \A n \in 0..most : n \in holds
    BY <1>3, <1>4, CountingUp
<1>6. most \in holds
    BY <1>5
<1> QED
    BY <1>6 DEF holds, Leads

(* proof(): a step down a mountain adds the sibling that is passed.        *)
Place(L, e, l, j, s) == [node |-> TreeOf(L, e, l), index |-> j, steps |-> s]

(* On a leaf there is no further down.                                     *)
LEMMA DownStays ==
    ASSUME NEW L, NEW l \in Nat, NEW j \in Int, NEW s \in Seq(Siblings(L))
    PROVE  Down(Place(L, 0, l, j, s)) = Place(L, 0, l, j, s)
<1>1. 0 \in Nat
    OBVIOUS
<1>2. TreeOf(L, 0, l).size = Power[0]
    BY <1>1, TreeIsOf
<1>3. TreeOf(L, 0, l).size = 1
    BY <1>2, PowersAre
<1> QED
    BY <1>3 DEF Down, Place

(* On a taller mountain one step goes to the half that holds the leaf.     *)
LEMMA DownIs ==
    ASSUME NEW L, NEW e \in Nat, NEW l \in Nat, NEW j \in Int, NEW s \in Seq(Siblings(L))
    PROVE  Down(Place(L, e + 1, l, j, s))
               = IF j <= Power[e]
                 THEN Place(L, e, l, j, <<Step(HeadOf(L, l + Power[e], Power[e]), "right")>> \o s)
                 ELSE Place(L, e, l + Power[e], j - Power[e],
                         <<Step(HeadOf(L, l, Power[e]), "left")>> \o s)
<1> DEFINE k == Power[e]
           m == TreeOf(L, e + 1, l)
           x == TreeOf(L, e, l)
           y == TreeOf(L, e, l + k)
<1>1. k \in Nat \ {0} /\ Power[e + 1] = 2 * k /\ l + k \in Nat /\ e + 1 \in Nat
  <2>1. e + 1 \in Nat
      OBVIOUS
  <2>2. k \in Nat \ {0} /\ Power[e + 1] = 2 * k
      BY PowersAre
  <2> QED
      BY <2>1, <2>2
<1>2. m = Joined(x, y)
    BY TreeIs
<1>3. m.size = 2 * k
  <2> DEFINE f == e + 1
  <2>1. f \in Nat /\ Power[f] = 2 * k
      BY <1>1
  <2> HIDE DEF f, k
  <2>2. TreeOf(L, f, l).size = Power[f]
      BY <2>1, TreeIsOf
  <2> QED
      BY <2>1, <2>2 DEF f
<1>4. x.size = k /\ x.hash = HeadOf(L, l, k)
    BY TreeIsOf
<1> HIDE DEF k, m
<1> DEFINE high == l + k
<1> HIDE DEF high
<1>5. TreeOf(L, e, high).hash = HeadOf(L, high, k)
  <2>1. high \in Nat
      BY <1>1 DEF high
  <2> QED
      BY <2>1, TreeIsOf DEF k
<1>6. y.hash = HeadOf(L, l + k, k)
    BY <1>5 DEF high
<1> HIDE DEF x, y
<1>7. m.sides[1] = x /\ m.sides[2] = y
    BY <1>2 DEF Joined
<1> DEFINE way == [node |-> m, index |-> j, steps |-> s]
<1>8. way.node = m /\ way.index = j /\ way.steps = s
    OBVIOUS
<1> HIDE DEF way
<1>9. m.size # 1
    BY <1>1, <1>3
<1>10. Down(way) = IF j <= k
                   THEN [node |-> x, index |-> j, steps |-> <<Step(HeadOf(L, l + k, k), "right")>> \o s]
                   ELSE [node |-> y, index |-> j - k, steps |-> <<Step(HeadOf(L, l, k), "left")>> \o s]
    BY <1>4, <1>6, <1>7, <1>8, <1>9 DEF Down
<1> QED
    BY <1>10 DEF Place, way, m, x, y, k

(* So the way down ends with the path in the leaves of the mountain.       *)
LEMMA ClimbIs ==
    ASSUME NEW L, NEW top \in Nat, NEW low \in Nat, NEW j \in 1..Power[top]
    PROVE  Climb(TreeOf(L, top, low), j) = PathOf(L, low + j, low, Power[top])
<1> DEFINE T == Seq(Siblings(L))
           m == TreeOf(L, top, low)
           i == low + j
           start == [node |-> m, index |-> j, steps |-> <<>>]
           Places == UNION {UNION {[node : {TreeOf(L, e, l)}, index : Int, steps : T] :
                                       l \in Nat} : e \in Nat}
           Value(f, d) == IF d = 0 THEN start ELSE Down(f[d - 1])
           body == [f \in [Nat -> Places] |-> [d \in Nat |-> Value(f, d)]]
           Way(f) == f = [d \in Nat |-> Value(f, d)]
           way == CHOOSE f : Way(f)
<1>1. \A e, l \in Nat, x \in Int, s \in T : Place(L, e, l, x, s) \in Places
  <2> TAKE e, l \in Nat, x \in Int, s \in T
  <2>1. Place(L, e, l, x, s) \in [node : {TreeOf(L, e, l)}, index : Int, steps : T]
      BY DEF Place
  <2> HIDE DEF T
  <2> QED
      BY <2>1
<1>2. \A place \in Places : \E e, l \in Nat, x \in Int, s \in T : place = Place(L, e, l, x, s)
  <2> TAKE place \in Places
  <2>1. PICK e \in Nat : place \in UNION {[node : {TreeOf(L, e, l)}, index : Int, steps : T] : l \in Nat}
      OBVIOUS
  <2>2. PICK l \in Nat : place \in [node : {TreeOf(L, e, l)}, index : Int, steps : T]
      BY <2>1
  <2> HIDE DEF T
  <2>3. place = Place(L, e, l, place.index, place.steps) /\ place.index \in Int /\ place.steps \in T
      BY <2>2 DEF Place
  <2> QED
      BY <2>3
<1>3. start = Place(L, top, low, j, <<>>) /\ <<>> \in T /\ j \in Int /\ i \in Nat /\ j \in Nat
    BY DEF Place
<1>4. \A e, l \in Nat : /\ Step(HeadOf(L, l + Power[e], Power[e]), "right") \in Siblings(L)
                        /\ Step(HeadOf(L, l, Power[e]), "left") \in Siblings(L)
                        /\ l + Power[e] \in Nat /\ Power[e] \in Nat \ {0}
  <2> TAKE e, l \in Nat
  <2>1. l + Power[e] \in Nat /\ Power[e] \in Nat \ {0} /\ Power[e] \in Nat
      BY PowersAre
  <2> QED
      BY <2>1, SiblingsAre
<1>5. \A s \in T, step \in Siblings(L) : <<step>> \o s \in T
    OBVIOUS
<1> HIDE DEF T, Places, i
<1>6. ASSUME NEW place \in Places
      PROVE  Down(place) \in Places
  <2>1. PICK e \in Nat, l \in Nat, x \in Int, s \in T : place = Place(L, e, l, x, s)
      BY <1>2
  <2>2. s \in Seq(Siblings(L))
      BY DEF T
  <2>3. CASE e = 0
    <3>1. Down(Place(L, 0, l, x, s)) = Place(L, 0, l, x, s)
        BY <2>2, DownStays
    <3> QED
        BY <2>1, <2>3, <3>1
  <2>4. CASE e # 0
    <3> DEFINE f == e - 1
    <3>1. f \in Nat /\ f + 1 = e
        BY <2>4
    <3> HIDE DEF f
    <3> DEFINE right == <<Step(HeadOf(L, l + Power[f], Power[f]), "right")>> \o s
               left == <<Step(HeadOf(L, l, Power[f]), "left")>> \o s
    <3>2. right \in T /\ left \in T /\ l + Power[f] \in Nat /\ x - Power[f] \in Int
        BY <1>4, <1>5, <3>1
    <3>3. Down(Place(L, f + 1, l, x, s)) = IF x <= Power[f] THEN Place(L, f, l, x, right)
                                        ELSE Place(L, f, l + Power[f], x - Power[f], left)
        BY <2>2, <3>1, DownIs
    <3> HIDE DEF right, left
    <3> QED
        BY <1>1, <2>1, <3>1, <3>2, <3>3
  <2> QED
      BY <2>3, <2>4
<1>7. start \in Places
  <2> HIDE DEF start
  <2> QED
      BY <1>1, <1>3
<1> HIDE DEF start
<1>8. body \in [[Nat -> Places] -> [Nat -> Places]]
  <2>1. ASSUME NEW f \in [Nat -> Places], NEW d \in Nat
        PROVE  Value(f, d) \in Places
    <3>1. d # 0 => f[d - 1] \in Places
        OBVIOUS
    <3> QED
        BY <1>6, <1>7, <3>1
  <2> HIDE DEF Value
  <2> QED
      BY <2>1
<1>9. \A f, g \in [Nat -> Places], d \in Nat :
          (\A n \in 0..(d - 1) : f[n] = g[n]) => body[f][d] = body[g][d]
  <2> TAKE f, g \in [Nat -> Places], d \in Nat
  <2> HAVE \A n \in 0..(d - 1) : f[n] = g[n]
  <2>1. Value(f, d) = Value(g, d)
    <3>1. d # 0 => d - 1 \in 0..(d - 1)
        OBVIOUS
    <3> QED
        BY <3>1
  <2> HIDE DEF Value
  <2> QED
      BY <2>1
<1>10. \E f : Way(f)
  <2>1. \E f \in [Nat -> Places] : body[f] = f
    <3> HIDE DEF body
    <3> QED
        BY <1>7, <1>8, <1>9, RecursionIs
  <2>2. PICK f \in [Nat -> Places] : body[f] = f
      BY <2>1
  <2>3. Way(f)
    <3> HIDE DEF Value
    <3> QED
        BY <2>2
  <2> HIDE DEF Way
  <2> QED
      BY <2>3
<1>11. Way(way)
  <2> HIDE DEF Way
  <2> QED
      BY <1>10
<1>12. Climb(m, j) = way[m.size].steps
    BY DEF Climb, start
<1> HIDE DEF way
<1>13. way[0] = start /\ \A d \in Nat : d # 0 => way[d] = Down(way[d - 1])
    BY <1>11
<1>14. m.size = Power[top] /\ Power[top] \in Nat /\ top < Power[top]
  <2>1. m.size = Power[top]
      BY TreeIsOf
  <2>2. Power[top] \in Nat
      BY PowersAre
  <2>3. top < Power[top]
      BY PowersGrow
  <2> QED
      BY <2>1, <2>2, <2>3
<1> HIDE DEF Way, body, Value, m
<1> DEFINE whole == PathOf(L, i, low, Power[top])
           Fits(d) == \E l \in Nat, x \in Int, s \in T :
                          /\ way[d] = Place(L, top - d, l, x, s)
                          /\ x \in 1..Power[top - d] /\ l + x = i
                          /\ PathOf(L, i, l, Power[top - d]) \o s = whole
           holds == {d \in 0..top : Fits(d)}
<1>15. 0 \in holds
  <2>1. top - 0 = top
      OBVIOUS
  <2>2. whole \in Seq(Siblings(L))
      BY <1>3, <1>14, PathIsTyped
  <2> HIDE DEF whole
  <2>3. whole \o <<>> = whole
      BY <2>2
  <2>4. low + j = i
      BY DEF i
  <2>5. Fits(0)
      BY <1>3, <1>13, <2>1, <2>3, <2>4 DEF whole
  <2> HIDE DEF Fits
  <2> QED
      BY <2>5
<1>16. ASSUME NEW d \in 1..top, d - 1 \in holds
       PROVE  d \in holds
  <2> DEFINE e == top - d
             k == Power[e]
  <2>1. e \in Nat /\ e + 1 = top - (d - 1)
      OBVIOUS
  <2>2. PICK l \in Nat, x \in Int, s \in T :
            /\ way[d - 1] = Place(L, e + 1, l, x, s)
            /\ x \in 1..Power[e + 1] /\ l + x = i
            /\ PathOf(L, i, l, Power[e + 1]) \o s = whole
      BY <1>16, <2>1
  <2> HIDE DEF e, whole
  <2>3. k \in Nat \ {0} /\ Power[e + 1] = k + k /\ l + k \in Nat /\ k \in 1..k
      BY <2>1, PowersAre
  <2>4. way[d] = Down(Place(L, e + 1, l, x, s))
      BY <1>13, <2>2
  <2>5. s \in Seq(Siblings(L))
      BY DEF T
  <2> DEFINE toRight == Step(HeadOf(L, l + k, k), "right")
             toLeft == Step(HeadOf(L, l, k), "left")
  <2>6. way[d] = IF x <= k THEN Place(L, e, l, x, <<toRight>> \o s)
                 ELSE Place(L, e, l + k, x - k, <<toLeft>> \o s)
    <3>1. x \in Int /\ l \in Nat /\ e \in Nat
        BY <2>1
    <3>2. Down(Place(L, e + 1, l, x, s)) = IF x <= k THEN Place(L, e, l, x, <<toRight>> \o s)
                                        ELSE Place(L, e, l + k, x - k, <<toLeft>> \o s)
        BY <2>5, <3>1, DownIs
    <3> QED
        BY <2>4, <3>2
  <2>7. PathOf(L, i, l, k + k) = IF i <= l + k THEN Append(PathOf(L, i, l, k), toRight)
                                 ELSE Append(PathOf(L, i, l + k, k), toLeft)
    <3>1. i \in Nat /\ l \in Nat /\ e \in Nat
        BY <1>3, <2>1
    <3> QED
        BY <3>1, PathHalves, ZenonT(60)
  <2>8. toRight \in Siblings(L) /\ toLeft \in Siblings(L)
      BY <1>4, <2>1
  <2> HIDE DEF toRight, toLeft, k
  <2>9. PathOf(L, i, l, k) \in Seq(Siblings(L)) /\ PathOf(L, i, l + k, k) \in Seq(Siblings(L))
      BY <1>3, <2>3, PathIsTyped
  <2>10. \A p \in Seq(Siblings(L)), step \in Siblings(L) : Append(p, step) \o s = p \o (<<step>> \o s)
    <3> TAKE p \in Seq(Siblings(L)), step \in Siblings(L)
    <3>1. Append(p, step) = p \o <<step>> /\ <<step>> \in Seq(Siblings(L))
        BY AppendIsConcat
    <3> QED
        BY <2>5, <3>1, ConcatAssociative
  <2>11. CASE x <= k
    <3>1. way[d] = Place(L, e, l, x, <<toRight>> \o s) /\ x \in 1..k
        BY <2>2, <2>6, <2>11
    <3>2. i <= l + k
        BY <2>2, <2>3, <2>11
    <3>3. PathOf(L, i, l, k) \o (<<toRight>> \o s) = whole
      <4>1. PathOf(L, i, l, Power[e + 1]) = Append(PathOf(L, i, l, k), toRight)
          BY <2>3, <2>7, <3>2
      <4>2. Append(PathOf(L, i, l, k), toRight) \o s = PathOf(L, i, l, k) \o (<<toRight>> \o s)
          BY <2>8, <2>9, <2>10
      <4> QED
          BY <2>2, <4>1, <4>2
    <3>4. <<toRight>> \o s \in T
        BY <1>5, <2>8
    <3> DEFINE t == <<toRight>> \o s
    <3> HIDE DEF t
    <3>5. Fits(d)
        BY <2>2, <3>1, <3>3, <3>4 DEF t, e, k
    <3> HIDE DEF Fits
    <3> QED
        BY <3>5
  <2>12. CASE ~(x <= k)
    <3>1. way[d] = Place(L, e, l + k, x - k, <<toLeft>> \o s) /\ x - k \in 1..k
        BY <2>2, <2>3, <2>6, <2>12
    <3>2. ~(i <= l + k) /\ (l + k) + (x - k) = i
        BY <2>2, <2>3, <2>12
    <3>3. PathOf(L, i, l + k, k) \o (<<toLeft>> \o s) = whole
      <4>1. PathOf(L, i, l, Power[e + 1]) = Append(PathOf(L, i, l + k, k), toLeft)
          BY <2>3, <2>7, <3>2
      <4>2. Append(PathOf(L, i, l + k, k), toLeft) \o s
                = PathOf(L, i, l + k, k) \o (<<toLeft>> \o s)
          BY <2>8, <2>9, <2>10
      <4> QED
          BY <2>2, <4>1, <4>2
    <3>4. <<toLeft>> \o s \in T /\ l + k \in Nat /\ x - k \in Int
        BY <1>5, <2>3, <2>8
    <3> DEFINE t == <<toLeft>> \o s
               high == l + k
               y == x - k
    <3> HIDE DEF t, high, y
    <3>5. /\ way[d] = Place(L, e, high, y, t) /\ y \in 1..k /\ high + y = i
          /\ PathOf(L, i, high, k) \o t = whole /\ t \in T /\ high \in Nat /\ y \in Int
        BY <3>1, <3>2, <3>3, <3>4 DEF t, high, y
    <3>6. Fits(d)
        BY <3>5 DEF e, k
    <3> HIDE DEF Fits
    <3> QED
        BY <3>6
  <2> QED
      BY <2>11, <2>12
<1> HIDE DEF holds, Fits
<1>17. top \in holds
  <2>1. \A d \in 0..top : d \in holds
      BY <1>15, <1>16, CountingUp
  <2> QED
      BY <2>1
<1>18. PICK l \in Nat, x \in Int, s \in T :
           way[top] = Place(L, 0, l, x, s) /\ PathOf(L, i, l, 1) \o s = whole
  <2>1. top - top = 0 /\ Power[0] = 1
      BY PowersAre
  <2> QED
      BY <1>17, <2>1 DEF holds, Fits
<1> HIDE DEF whole
<1>19. s = whole
  <2>1. PathOf(L, i, l, 1) = <<>>
    <3>1. i \in Nat /\ l \in Nat /\ 1 \in Nat /\ 1 <= 1
        BY <1>3
    <3> QED
        BY <3>1, PathIsTyped
  <2>2. <<>> \o s = s
      BY DEF T
  <2> QED
      BY <1>18, <2>1, <2>2
<1> DEFINE stays == {d \in 0..Power[top] : d < top \/ way[d] = way[top]}
<1>20. 0 \in stays
  <2>1. 0 < top \/ 0 = top
      OBVIOUS
  <2> QED
      BY <1>14, <2>1
<1>21. ASSUME NEW d \in 1..Power[top], d - 1 \in stays
       PROVE  d \in stays
  <2>1. CASE d <= top
      BY <1>14, <2>1
  <2>2. CASE d > top
    <3>1. way[d - 1] = way[top]
        BY <1>14, <1>21, <2>2
    <3>2. way[d] = Down(way[top])
        BY <1>13, <1>14, <3>1
    <3>3. Down(Place(L, 0, l, x, s)) = Place(L, 0, l, x, s)
        BY DownStays DEF T
    <3> QED
        BY <1>18, <3>2, <3>3
  <2> QED
      BY <1>14, <2>1, <2>2
<1> HIDE DEF stays
<1>22. way[Power[top]] = way[top]
  <2>1. \A d \in 0..Power[top] : d \in stays
      BY <1>14, <1>20, <1>21, CountingUp
  <2>2. Power[top] \in stays
      BY <1>14, <2>1
  <2> QED
      BY <1>14, <2>2 DEF stays
<1>23. way[Power[top]].steps = whole
    BY <1>18, <1>19, <1>22 DEF Place
<1> QED
    BY <1>12, <1>14, <1>23 DEF m, whole, i

(* The peaks right of one are a range of their own.                        *)
LEMMA LaterPeaksAre ==
    ASSUME NEW L, NEW range, NEW exps, NEW lows, IsRange(L, range, exps, lows),
           NEW p \in 1..(Len(range) - 1)
    PROVE  Bagged(SubSeq(range, p + 1, Len(range)))
               = HeadOf(L, lows[p], lows[Len(range)] - lows[p])
<1> DEFINE K == Len(range)
           n == K - p
           later == SubSeq(range, p + 1, K)
           laterExps == [q \in 1..n |-> exps[q + p]]
           laterLows == [q \in 0..n |-> lows[q + p]]
<1>1. K \in Nat /\ n \in Nat /\ n + p = K /\ 0 + p = p /\ n \in 0..n /\ 0 \in 0..n
    BY LowsAre
<1>2. later \in Seq(Mountains(L)) /\ Len(later) = n /\ \A q \in 1..n : later[q] = range[q + p]
  <2>1. range \in Seq(Mountains(L))
      BY DEF IsRange
  <2>2. \A q \in (p + 1)..K : range[q] \in Mountains(L)
      BY <2>1
  <2>3. Len(later) = n /\ \A q \in 1..n : later[q] = range[q + p]
      BY <1>1, <2>1
  <2>4. \A q \in 1..n : q + p \in (p + 1)..K
      BY <1>1
  <2> QED
      BY <1>1, <2>1, <2>2, <2>3, <2>4, SubSeqProperties
<1> HIDE DEF later
<1>3. IsRange(L, later, laterExps, laterLows)
  <2>1. laterLows[0] \in Nat
    <3>1. laterLows[0] = lows[p] /\ p \in 0..K
        BY <1>1
    <3> QED
        BY <3>1, LowsAre
  <2>2. ASSUME NEW q \in 1..n
        PROVE  /\ laterExps[q] \in Nat /\ laterLows[q] \in Nat
               /\ laterLows[q] = laterLows[q - 1] + Power[laterExps[q]]
               /\ later[q] = TreeOf(L, laterExps[q], laterLows[q - 1])
    <3>1. q + p \in 1..K /\ q \in 0..n /\ q - 1 \in 0..n /\ (q - 1) + p = (q + p) - 1
        BY <1>1
    <3>2. laterExps[q] = exps[q + p] /\ laterLows[q] = lows[q + p] /\ laterLows[q - 1] = lows[(q + p) - 1]
        BY <3>1
    <3> HIDE DEF laterExps, laterLows
    <3> DEFINE r == q + p
    <3> HIDE DEF r
    <3>3. /\ lows[r] \in Nat /\ exps[r] \in Nat /\ lows[r] = lows[r - 1] + Power[exps[r]]
          /\ range[r] = TreeOf(L, exps[r], lows[r - 1])
        BY <3>1, LowsAre DEF r
    <3> QED
        BY <1>2, <3>2, <3>3 DEF r
  <2>3. ASSUME NEW q \in 1..n, NEW r \in 1..n, q < r
        PROVE  laterExps[q] > laterExps[r]
    <3>1. q + p \in 1..K /\ r + p \in 1..K /\ q + p < r + p
        BY <1>1, <2>3
    <3>2. exps[q + p] > exps[r + p]
        BY <3>1 DEF IsRange
    <3> QED
        BY <3>2
  <2> HIDE DEF laterExps, laterLows
  <2> QED
      BY <1>2, <2>1, <2>2, <2>3 DEF IsRange
<1>4. laterLows[0] = lows[p] /\ laterLows[n] = lows[K]
    BY <1>1
<1> HIDE DEF laterExps, laterLows
<1>5. Bagged(later) = HeadOf(L, laterLows[0], laterLows[Len(later)] - laterLows[0])
    BY <1>3, BaggedIs
<1> QED
    BY <1>2, <1>4, <1>5 DEF later

(* Three lists of siblings are put together in either order.               *)
LEMMA PartsInARow ==
    ASSUME NEW L, NEW x \in Seq(Siblings(L)), NEW y \in Seq(Siblings(L)), NEW z \in Seq(Siblings(L))
    PROVE  (x \o y) \o z = x \o (y \o z)
<1> DEFINE S == Siblings(L)
<1>1. x \in Seq(S) /\ y \in Seq(S) /\ z \in Seq(S)
    OBVIOUS
<1> HIDE DEF S
<1> QED
    BY <1>1, ConcatAssociative

(* proof() of the range is the path of the tree.                           *)
LEMMA ProofIs ==
    ASSUME NEW L \in Seq(Claims), NEW range, Whole(L, range), NEW i \in 1..Len(L)
    PROVE  Proof(range, i) = InclusionProof(L, i)
<1> DEFINE N == Len(L)
           K == Len(range)
           p == PeakOf(range, i)
<1>1. PICK exps, lows : IsRange(L, range, exps, lows) /\ lows[0] = 0 /\ lows[K] = N
    BY DEF Whole
<1>2. /\ K \in Nat /\ N \in Nat /\ range \in Seq(Mountains(L)) /\ i \in Nat
      /\ \A q \in 0..K : lows[q] \in Nat /\ SizeUpTo(range, q) = lows[q]
  <2>1. ASSUME NEW q \in 0..K
        PROVE  lows[q] \in Nat /\ SizeUpTo(range, q) = lows[q]
    <3>1. SizeUpTo(range, q) = lows[q] - lows[0]
        BY <1>1, SizesAre
    <3>2. lows[q] \in Nat
        BY <1>1, LowsAre
    <3> QED
        BY <1>1, <3>1, <3>2
  <2>2. K \in Nat /\ range \in Seq(Mountains(L))
      BY <1>1, LowsAre DEF IsRange
  <2> QED
      BY <2>1, <2>2
<1>3. p \in 1..K /\ lows[p - 1] < i /\ i <= lows[p]
  <2> DEFINE S == {q \in DOMAIN range : i <= SizeUpTo(range, q)}
  <2>1. S = {q \in 1..K : i <= lows[q]}
    <3>1. DOMAIN range = 1..K /\ \A q \in 1..K : q \in 0..K
        BY <1>2
    <3> QED
        BY <1>2, <3>1
  <2>2. p = Min(S)
      BY DEF PeakOf
  <2> HIDE DEF S, p
  <2>3. K # 0
      BY <1>1
  <2>4. K \in S
      BY <1>1, <1>2, <2>1, <2>3
  <2>5. S \in SUBSET Nat /\ S # {}
      BY <1>2, <2>1, <2>4
  <2>6. p \in S /\ \A q \in S : p <= q
      BY <2>2, <2>5, LeastIs
  <2>7. p \in 1..K /\ i <= lows[p]
      BY <2>1, <2>6
  <2>8. lows[p - 1] < i
    <3>1. CASE p = 1
        BY <1>1, <3>1
    <3>2. CASE p # 1
      <4>1. p - 1 \in 1..K /\ p - 1 \in 0..K /\ ~(p <= p - 1)
          BY <1>2, <2>7, <3>2
      <4>2. p - 1 \notin S
          BY <2>6, <4>1
      <4>3. ~(i <= lows[p - 1])
          BY <2>1, <4>1, <4>2
      <4> QED
          BY <1>2, <4>1, <4>3
    <3> QED
        BY <3>1, <3>2
  <2> QED
      BY <2>7, <2>8
<1> HIDE DEF p
<1> DEFINE low == lows[p - 1]
           e == exps[p]
           k == Power[e]
           climb == Climb(range[p], i - SizeUpTo(range, p - 1))
<1>4. /\ low \in Nat /\ e \in Nat /\ k \in Nat \ {0} /\ lows[p] \in Nat /\ lows[p] = low + k
      /\ range[p] = TreeOf(L, e, low) /\ p - 1 \in 0..K /\ p \in 0..K /\ p \in Nat
  <2>1. p - 1 \in 0..K /\ p \in 0..K /\ p \in Nat
      BY <1>2, <1>3
  <2> QED
      BY <1>1, <1>3, <2>1, LowsAre, SMTT(30)
<1>5. climb = PathOf(L, i, low, k) /\ climb \in Seq(Siblings(L))
  <2> DEFINE j == i - low
  <2>1. j \in 1..k /\ SizeUpTo(range, p - 1) = low /\ low + j = i
      BY <1>2, <1>3, <1>4, SMTT(30)
  <2>2. climb = Climb(TreeOf(L, e, low), j)
      BY <1>4, <2>1
  <2> HIDE DEF low, e, climb, j
  <2>3. Climb(TreeOf(L, e, low), j) = PathOf(L, low + j, low, k)
      BY <1>4, <2>1, ClimbIs
  <2>4. PathOf(L, i, low, k) \in Seq(Siblings(L))
      BY <1>2, <1>4, PathIsTyped
  <2> QED
      BY <2>1, <2>2, <2>3, <2>4
<1> DEFINE bagged == IF p = K THEN <<>>
                     ELSE <<Step(Bagged(SubSeq(range, p + 1, K)), "right")>>
           lefts == [q \in 1..(p - 1) |-> Step(range[p - q].hash, "left")]
           base == climb \o bagged
<1>6. Proof(range, i) = climb \o (bagged \o lefts)
    BY DEF Proof, PastThePeaks, p
<1> HIDE DEF climb
<1>7. base = PathOf(L, i, low, N - low) /\ bagged \in Seq(Siblings(L)) /\ base \in Seq(Siblings(L))
  <2>1. CASE p = K
    <3>1. N - low = k
        BY <1>1, <1>4, <2>1
    <3>2. base = climb /\ bagged \in Seq(Siblings(L))
        BY <1>5, <2>1
    <3> QED
        BY <1>5, <3>1, <3>2
  <2>2. CASE p # K
    <3> DEFINE rest == N - lows[p]
               step == Step(HeadOf(L, low + k, rest), "right")
    <3>1. p \in 1..(K - 1)
        BY <1>2, <1>3, <2>2
    <3>2. rest \in 1..k
        BY <1>1, <3>1, RestsAre
    <3>3. Bagged(SubSeq(range, p + 1, K)) = HeadOf(L, low + k, rest)
      <4>1. Bagged(SubSeq(range, p + 1, K)) = HeadOf(L, lows[p], lows[K] - lows[p])
          BY <1>1, <3>1, LaterPeaksAre
      <4> QED
          BY <1>1, <1>4, <4>1
    <3>4. bagged = <<step>>
        BY <2>2, <3>3
    <3>5. N - low = k + rest
        BY <1>2, <1>4, SMTT(30)
    <3> DEFINE high == low + k
    <3>6. high \in Nat /\ rest \in Nat /\ i <= low + k /\ k \in Nat
        BY <1>3, <1>4, <3>2
    <3> HIDE DEF rest
    <3>7. step \in Siblings(L)
      <4> HIDE DEF high
      <4>1. Step(HeadOf(L, high, rest), "right") \in Siblings(L)
          BY <3>6, SiblingsAre
      <4> QED
          BY <4>1 DEF high
    <3> HIDE DEF low, e
    <3>8. PathOf(L, i, low, k + rest) = Append(PathOf(L, i, low, k), step)
      <4>1. low \in Nat /\ e \in Nat /\ i \in Nat /\ i <= low + Power[e] /\ rest \in 1..Power[e]
            /\ Power[e] \in Nat
          BY <1>2, <1>4, <3>2, <3>6
      <4>2. PathOf(L, i, low, Power[e] + rest)
                = Append(PathOf(L, i, low, Power[e]), Step(HeadOf(L, low + Power[e], rest), "right"))
        <5> HIDE DEF step, bagged
        <5> QED
            BY <4>1, PathSplits, ZenonT(60)
      <4> QED
          BY <4>2
    <3> HIDE DEF step, bagged, k
    <3>9. PathOf(L, i, low, k + rest) = Append(climb, step)
        BY <1>5, <3>6, <3>8
    <3>10. Append(climb, step) = climb \o <<step>> /\ Append(climb, step) \in Seq(Siblings(L))
           /\ <<step>> \in Seq(Siblings(L))
        BY <1>5, <3>7, AppendIsConcat, AppendProperties
    <3> QED
        BY <3>4, <3>5, <3>9, <3>10
  <2> QED
      BY <2>1, <2>2
<1> HIDE DEF bagged
<1>8. lefts \in Seq(Siblings(L)) /\ Len(lefts) = p - 1
  <2>1. ASSUME NEW q \in 1..(p - 1)
        PROVE  Step(range[p - q].hash, "left") \in Siblings(L)
    <3> DEFINE r == p - q
    <3>1. r \in 1..K
        BY <1>2, <1>3
    <3> HIDE DEF r
    <3> DEFINE x == lows[r - 1]
               y == Power[exps[r]]
    <3>2. range[r].hash = HeadOf(L, x, y) /\ x \in Nat /\ y \in Nat
        BY <1>1, <3>1, LowsAre
    <3> HIDE DEF x, y
    <3>3. Step(HeadOf(L, x, y), "left") \in Siblings(L)
        BY <3>2, SiblingsAre
    <3> QED
        BY <3>2, <3>3 DEF r
  <2>2. p - 1 \in Nat
      BY <1>2, <1>3
  <2> QED
      BY <2>1, <2>2
<1> DEFINE upTo(t) == [q \in 1..t |-> Step(range[p - q].hash, "left")]
           Leads(t) == PathOf(L, i, lows[p - 1 - t], N - lows[p - 1 - t]) = base \o upTo(t)
           holds == {t \in 0..(p - 1) : Leads(t)}
<1>9. ASSUME NEW t \in 0..(p - 1)
      PROVE  upTo(t) \in Seq(Siblings(L))
  <2>1. \A q \in 1..t : q \in 1..(p - 1) /\ Step(range[p - q].hash, "left") = lefts[q]
    <3>1. \A q \in 1..t : q \in 1..(p - 1)
        BY <1>2, <1>3
    <3> QED
        BY <3>1
  <2>2. \A q \in 1..t : Step(range[p - q].hash, "left") \in Siblings(L)
    <3>1. lefts \in Seq(Siblings(L)) /\ Len(lefts) = p - 1
        BY <1>8
    <3> HIDE DEF lefts
    <3>2. \A q \in 1..(p - 1) : lefts[q] \in Siblings(L)
        BY <3>1
    <3> QED
        BY <2>1, <3>2
  <2> HIDE DEF lefts
  <2> QED
      BY <2>2
<1> HIDE DEF base
<1>10. 0 \in holds
  <2>1. upTo(0) = <<>> /\ p - 1 - 0 = p - 1 /\ 0 \in 0..(p - 1)
      BY <1>2, <1>3
  <2>2. base \o <<>> = base
      BY <1>7
  <2> QED
      BY <1>7, <2>1, <2>2
<1>11. ASSUME NEW t \in 1..(p - 1), t - 1 \in holds
       PROVE  t \in holds
  <2> DEFINE r == p - t
             x == lows[r - 1]
             y == Power[exps[r]]
             rest == N - lows[r]
             step == Step(HeadOf(L, x, y), "left")
             before == upTo(t - 1)
  <2>1. r \in 1..(K - 1) /\ r \in 1..K /\ r - 1 = p - 1 - t /\ r = p - 1 - (t - 1) /\ t - 1 \in 0..(p - 1)
        /\ t \in 0..(p - 1) /\ t \in Nat \ {0}
      BY <1>2, <1>3
  <2>2. PathOf(L, i, lows[r], rest) = base \o before
      BY <1>11, <2>1
  <2>3. before \in Seq(Siblings(L)) /\ upTo(t) \in Seq(Siblings(L))
      BY <1>9, <2>1
  <2>4. upTo(t) = Append(before, Step(range[r].hash, "left"))
      BY <2>1
  <2> HIDE DEF upTo, before, r
  <2>5. /\ lows[r] \in Nat /\ x \in Nat /\ exps[r] \in Nat /\ y \in Nat \ {0}
        /\ lows[r] = x + y /\ range[r].hash = HeadOf(L, x, y)
      BY <1>1, <2>1, LowsAre
  <2>6. rest \in 1..y
      BY <1>1, <2>1, RestsAre
  <2>7. ~(i <= x + y) /\ N - x = y + rest
    <3>1. r \in 0..K /\ p - 1 \in 0..K /\ r <= p - 1
        BY <1>4, <2>1 DEF r
    <3>2. lows[r] <= lows[p - 1]
        BY <1>1, <3>1, LowsAre
    <3> QED
      <4> DEFINE high == lows[r]
                 above == lows[p - 1]
      <4>1. high <= above /\ above < i /\ high = x + y /\ high \in Nat /\ above \in Nat
            /\ x \in Nat /\ y \in Nat /\ N \in Nat /\ i \in Nat
          BY <1>2, <1>3, <1>4, <2>5, <3>2
      <4> HIDE DEF high, above, x, y
      <4>2. ~(i <= x + y) /\ N - x = y + (N - high)
          BY <4>1
      <4> QED
          BY <4>2 DEF high
  <2> HIDE DEF x, rest
  <2>8. PathOf(L, i, x, y + rest) = Append(PathOf(L, i, x + y, rest), step)
    <3>1. x \in Nat /\ exps[r] \in Nat /\ i \in Nat
        BY <1>2, <2>5
    <3> QED
        BY <2>6, <2>7, <3>1, PathPast
  <2>9. step \in Siblings(L)
      BY <2>5, SiblingsAre
  <2> HIDE DEF y, step
  <2>10. PathOf(L, i, x, N - x) = Append(base \o before, step)
      BY <2>2, <2>5, <2>7, <2>8
  <2>11. Append(base \o before, step) = base \o Append(before, step)
    <3>1. base \o before \in Seq(Siblings(L)) /\ <<step>> \in Seq(Siblings(L))
        BY <1>7, <2>3, <2>9, ConcatProperties
    <3>2. Append(base \o before, step) = (base \o before) \o <<step>>
        BY <2>9, <3>1, AppendIsConcat
    <3>3. Append(before, step) = before \o <<step>>
        BY <2>3, <2>9, AppendIsConcat
    <3> QED
      <4>1. (base \o before) \o <<step>> = base \o (before \o <<step>>)
        <5>1. base \in Seq(Siblings(L)) /\ before \in Seq(Siblings(L)) /\ <<step>> \in Seq(Siblings(L))
            BY <1>7, <2>3, <3>1
        <5> DEFINE z == <<step>>
        <5> HIDE DEF z
        <5>2. (base \o before) \o z = base \o (before \o z)
            BY <5>1, PartsInARow DEF z
        <5> QED
            BY <5>2 DEF z
      <4> QED
          BY <3>2, <3>3, <4>1
  <2>12. upTo(t) = Append(before, step)
      BY <2>4, <2>5 DEF step
  <2>13. Leads(t)
      BY <2>1, <2>10, <2>11, <2>12 DEF x
  <2> HIDE DEF Leads
  <2> QED
      BY <2>1, <2>13
<1> HIDE DEF holds
<1>12. p - 1 \in holds
  <2>1. p - 1 \in Nat
      BY <1>2, <1>3
  <2>2. \A t \in 0..(p - 1) : t \in holds
      BY <1>10, <1>11, <2>1, CountingUp
  <2> QED
      BY <2>1, <2>2
<1>13. PathOf(L, i, 0, N) = base \o lefts
  <2>1. p - 1 - (p - 1) = 0 /\ N - 0 = N
      BY <1>2, <1>4
  <2>2. PathOf(L, i, lows[p - 1 - (p - 1)], N - lows[p - 1 - (p - 1)]) = base \o upTo(p - 1)
      BY <1>12 DEF holds
  <2>3. upTo(p - 1) = lefts
      OBVIOUS
  <2> HIDE DEF upTo, lefts
  <2> QED
      BY <1>1, <2>1, <2>2, <2>3
<1>14. base \o lefts = climb \o (bagged \o lefts)
  <2> HIDE DEF lefts
  <2>1. climb \in Seq(Siblings(L)) /\ bagged \in Seq(Siblings(L)) /\ lefts \in Seq(Siblings(L))
      BY <1>5, <1>7, <1>8
  <2> QED
      BY <2>1, PartsInARow, SMTT(30) DEF base
<1>15. InclusionProof(L, i) = PathOf(L, i, 0, N)
    BY DEF InclusionProof, PathOf
<1> QED
    BY <1>6, <1>13, <1>14, <1>15

(* A receipt that was issued for the first claims of the session.          *)
ReceiptSound ==
    receipt # NoReceipt =>
        /\ receipt.size \in 0..Len(claims) /\ receipt.leafIndex + 1 \in 1..receipt.size
        /\ receipt.root = MerkleRoot(SubSeq(claims, 1, receipt.size))
        /\ receipt.claim = claims[receipt.leafIndex + 1]
        /\ \A x \in Claims :
            VerifyProof(x, receipt.proof, receipt.root) <=> x = receipt.claim

(* What the range is at every step: the mountains of the claims.           *)
SessionIInv == claims \in Seq(Claims) /\ Whole(claims, peaks) /\ ReceiptSound

(* A new session has no claim, no peak and no receipt.                     *)
LEMMA SessionStartsSound == SessionInit => SessionIInv
<1> SUFFICES ASSUME SessionInit
             PROVE  SessionIInv
    OBVIOUS
<1>1. claims = <<>> /\ peaks = <<>> /\ receipt = NoReceipt
    BY DEF SessionInit
<1> DEFINE atZero == [p \in {0} |-> 0]
<1>2. atZero[0] = 0
    OBVIOUS
<1> HIDE DEF atZero
<1>3. Len(peaks) = 0 /\ Len(claims) = 0 /\ peaks \in Seq(Mountains(claims)) /\ claims \in Seq(Claims)
    BY <1>1
<1>4. IsRange(claims, peaks, atZero, atZero)
    BY <1>2, <1>3 DEF IsRange
<1>5. Whole(claims, peaks)
    BY <1>2, <1>3, <1>4 DEF Whole
<1> QED
    BY <1>1, <1>3, <1>5 DEF SessionIInv, ReceiptSound

(* The head and the paths of the range are those of the tree.              *)
LEMMA RangeIsTheTree ==
    ASSUME NEW L \in Seq(Claims), NEW range, Whole(L, range)
    PROVE  /\ Bagged(range) = MerkleRoot(L)
           /\ \A i \in 1..Len(L) : Proof(range, i) = InclusionProof(L, i)
<1>1. PICK exps, lows : /\ IsRange(L, range, exps, lows)
                        /\ lows[0] = 0 /\ lows[Len(range)] = Len(L)
    BY DEF Whole
<1>2. Bagged(range) = HeadOf(L, 0, Len(L) - 0)
    BY <1>1, BaggedIs
<1>3. Len(L) - 0 = Len(L)
    OBVIOUS
<1>4. \A i \in 1..Len(L) : Proof(range, i) = InclusionProof(L, i)
    BY ProofIs
<1> QED
    BY <1>2, <1>3, <1>4 DEF MerkleRoot

(* A proof leads to the root from its leaf, and from no other.             *)
LEMMA ProofsProve ==
    ASSUME NEW L \in Seq(Claims), NEW i \in 1..Len(L), NEW x \in Claims
    PROVE  VerifyProof(x, InclusionProof(L, i), MerkleRoot(L)) <=> x = L[i]
<1> DEFINE N == Len(L)
           path == InclusionProof(L, i)
<1>1. N \in Nat /\ N \in 1..N /\ i \in Nat /\ i \in (0 + 1)..(0 + N) /\ L[i] \in Claims
    OBVIOUS
<1>2. path = PathOf(L, i, 0, N)
    BY DEF InclusionProof, PathOf
<1> HIDE DEF path
<1>3. path \in Seq(Siblings(L))
    BY <1>1, <1>2, PathIsTyped
<1>4. Ascended(HashLeaf(L[i]), path) = HeadOf(L, 0, N)
    BY <1>1, <1>2, PathsLeadUp
<1>5. HashLeaf(x) \in Terms(L) /\ HashLeaf(L[i]) \in Terms(L)
    BY <1>1, TermsAreClosed DEF Leaves
<1>6. ASSUME Ascended(HashLeaf(x), path) = HeadOf(L, 0, N)
      PROVE  x = L[i]
  <2>1. HashLeaf(x) = HashLeaf(L[i])
      BY <1>3, <1>4, <1>5, <1>6, AscentsDiffer
  <2> QED
      BY <2>1 DEF HashLeaf
<1>7. VerifyProof(x, path, HeadOf(L, 0, N)) <=> x = L[i]
    BY <1>4, <1>6 DEF VerifyProof
<1> QED
    BY <1>7 DEF MerkleRoot, path

(* addClaim() and the issue of a receipt keep what a session relies on.    *)
LEMMA SessionStaysSound == SessionIInv /\ [SessionNext]_sessionVars => SessionIInv'
<1> SUFFICES ASSUME SessionIInv, [SessionNext]_sessionVars
             PROVE  SessionIInv'
    OBVIOUS
<1>1. claims \in Seq(Claims) /\ Whole(claims, peaks) /\ ReceiptSound
    BY DEF SessionIInv
<1>2. CASE AddClaim
  <2>1. PICK x \in Claims : /\ claims' = Append(claims, x)
                            /\ peaks' = Appended(peaks, Summit(x))
                            /\ receipt' = receipt
      BY <1>2 DEF AddClaim
  <2>2. claims' \in Seq(Claims) /\ Whole(claims', peaks')
      BY <1>1, <2>1, AppendedIs, AppendProperties
  <2>3. ReceiptSound'
    <3> SUFFICES ASSUME receipt # NoReceipt
                 PROVE  /\ receipt.size \in 0..Len(claims')
                        /\ receipt.leafIndex + 1 \in 1..receipt.size
                        /\ receipt.root = MerkleRoot(SubSeq(claims', 1, receipt.size))
                        /\ receipt.claim = claims'[receipt.leafIndex + 1]
                        /\ \A y \in Claims :
                            VerifyProof(y, receipt.proof, receipt.root) <=> y = receipt.claim
        BY <2>1 DEF ReceiptSound
    <3> DEFINE n == receipt.size
               i == receipt.leafIndex + 1
               N == Len(claims)
    <3>1. /\ n \in 0..N /\ i \in 1..n
          /\ receipt.root = MerkleRoot(SubSeq(claims, 1, n))
          /\ receipt.claim = claims[i]
          /\ \A y \in Claims : VerifyProof(y, receipt.proof, receipt.root) <=> y = receipt.claim
        BY <1>1 DEF ReceiptSound
    <3> HIDE DEF n, i
    <3>2. N \in Nat /\ Len(claims') = N + 1 /\ \A q \in 1..N : claims'[q] = claims[q]
        BY <1>1, <2>1, AppendProperties
    <3>3. SubSeq(claims', 1, n) = SubSeq(claims, 1, n)
      <4>1. /\ SubSeq(claims', 1, n) \in Seq(Claims) /\ Len(SubSeq(claims', 1, n)) = n
            /\ \A q \in 1..n : SubSeq(claims', 1, n)[q] = claims'[q]
          BY <2>2, <3>1, <3>2
      <4>2. /\ SubSeq(claims, 1, n) \in Seq(Claims) /\ Len(SubSeq(claims, 1, n)) = n
            /\ \A q \in 1..n : SubSeq(claims, 1, n)[q] = claims[q]
          BY <1>1, <3>1, <3>2
      <4>3. \A q \in 1..n : q \in 1..N
          BY <3>1, <3>2
      <4> DEFINE s == SubSeq(claims', 1, n)
                 t == SubSeq(claims, 1, n)
      <4> HIDE DEF s, t
      <4>4. /\ s \in Seq(Claims) /\ t \in Seq(Claims) /\ Len(s) = n /\ Len(t) = n
            /\ \A q \in 1..n : s[q] = t[q]
          BY <3>2, <4>1, <4>2, <4>3 DEF s, t
      <4>5. s = t
          BY <4>4, SeqEqual
      <4> QED
          BY <4>5 DEF s, t
    <3>4. n \in 0..Len(claims') /\ i \in 1..N
        BY <3>1, <3>2
    <3>5. claims'[i] = claims[i]
        BY <3>2, <3>4
    <3> QED
        BY <3>1, <3>3, <3>4, <3>5 DEF n, i
  <2> QED
      BY <2>2, <2>3 DEF SessionIInv
<1>3. CASE IssueReceipt
  <2>1. PICK i \in 1..Len(claims) : receipt' = ReceiptFor(i) /\ UNCHANGED <<claims, peaks>>
      BY <1>1, <1>3 DEF IssueReceipt
  <2> DEFINE N == Len(claims)
             r == receipt'
             path == InclusionProof(claims, i)
  <2>2. /\ r.claim = claims[i] /\ r.leafIndex = i - 1 /\ r.size = N
        /\ r.proof = Proof(peaks, i) /\ r.root = Bagged(peaks)
      BY <2>1 DEF ReceiptFor
  <2>3. r.root = MerkleRoot(claims) /\ r.proof = path
      BY <1>1, <2>2, RangeIsTheTree
  <2>4. \A x \in Claims : VerifyProof(x, path, MerkleRoot(claims)) <=> x = claims[i]
      BY <1>1, ProofsProve
  <2>5. SubSeq(claims, 1, N) = claims
      BY <1>1, SubSeqFull
  <2>6. N \in Nat /\ N \in 0..N /\ (i - 1) + 1 = i /\ i \in 1..N
      BY <1>1
  <2> HIDE DEF path
  <2>7. ReceiptSound'
    <3>1. r.leafIndex + 1 = i
        BY <2>2, <2>6
    <3>2. /\ r.size \in 0..N /\ r.leafIndex + 1 \in 1..r.size
          /\ r.root = MerkleRoot(SubSeq(claims, 1, r.size)) /\ r.claim = claims[r.leafIndex + 1]
          /\ \A x \in Claims : VerifyProof(x, r.proof, r.root) <=> x = r.claim
        BY <2>2, <2>3, <2>4, <2>5, <2>6, <3>1
    <3> QED
        BY <2>1, <3>2 DEF ReceiptSound
  <2> QED
      BY <1>1, <2>1, <2>7 DEF SessionIInv
<1>4. CASE UNCHANGED sessionVars
    BY <1>1, <1>4 DEF SessionIInv, ReceiptSound, sessionVars
<1> QED
    BY <1>2, <1>3, <1>4 DEF SessionNext

(* That is enough for all that is checked of a session.                    *)
LEMMA SessionIsSound == SessionIInv => SessionInv
<1> SUFFICES ASSUME SessionIInv
             PROVE  SessionInv
    OBVIOUS
<1> DEFINE N == Len(claims)
           K == Len(peaks)
<1>1. claims \in Seq(Claims) /\ Whole(claims, peaks) /\ ReceiptSound
    BY DEF SessionIInv
<1>2. PICK exps, lows : IsRange(claims, peaks, exps, lows) /\ lows[0] = 0 /\ lows[K] = N
    BY <1>1 DEF Whole
<1>3. /\ K \in Nat /\ N \in Nat /\ peaks \in Seq(Mountains(claims)) /\ K \in 0..K
      /\ \A p \in 0..K : lows[p] \in Nat
    BY <1>1, <1>2, LowsAre DEF IsRange
<1>4. SessionTypeOK
  <2>1. SizeUpTo(peaks, K) = N
    <3>1. SizeUpTo(peaks, K) = lows[K] - lows[0]
        BY <1>2, <1>3, SizesAre
    <3> QED
        BY <1>2, <1>3, <3>1
  <2>2. ASSUME NEW p \in 1..K
        PROVE  peaks[p].size \in {2 ^ e : e \in 0..N}
    <3> DEFINE e == exps[p]
    <3>1. /\ e \in Nat /\ peaks[p].size = Power[e] /\ lows[p] = lows[p - 1] + Power[e]
          /\ lows[p] \in Nat /\ lows[p - 1] \in Nat
        BY <1>2, LowsAre
    <3>2. lows[p] <= lows[K]
      <4>1. p \in 0..K /\ p <= K
          BY <1>3
      <4> QED
          BY <1>2, <1>3, <4>1, LowsAre
    <3> HIDE DEF e
    <3>3. e < Power[e] /\ Power[e] \in Nat /\ Power[e] = 2 ^ e
      <4>1. e < Power[e]
          BY <3>1, PowersGrow
      <4>2. Power[e] \in Nat /\ Power[e] = 2 ^ e
          BY <3>1, PowersAre
      <4> QED
          BY <4>1, <4>2
    <3> DEFINE high == lows[p]
               low == lows[p - 1]
               k == Power[e]
    <3>4. e \in Nat /\ high = low + k /\ low \in Nat /\ high \in Nat /\ high <= N /\ e < k /\ k \in Nat
        BY <1>2, <3>1, <3>2, <3>3
    <3> HIDE DEF high, low, k
    <3>5. e \in 0..N
        BY <1>3, <3>4
    <3> QED
        BY <3>1, <3>3, <3>5
  <2>3. ASSUME NEW p \in 1..K, NEW q \in 1..K, p < q
        PROVE  peaks[p].size > peaks[q].size
    <3> DEFINE e == exps[p]
               f == exps[q]
    <3>1. /\ e \in Nat /\ peaks[p].size = Power[e] /\ Power[e] \in Nat \ {0}
          /\ f \in Nat /\ peaks[q].size = Power[f] /\ Power[f] \in Nat \ {0}
        BY <1>2, LowsAre
    <3>2. e > f
        BY <1>2, <2>3 DEF IsRange
    <3> HIDE DEF e, f
    <3>3. 2 * Power[f] <= Power[e]
      <4>1. f \in 0..(e - 1)
          BY <3>1, <3>2
      <4> QED
          BY <3>1, <4>1, PowersGrow
    <3> QED
        BY <3>1, <3>3
  <2>4. DOMAIN peaks = 1..K
      BY <1>3
  <2> QED
      BY <1>1, <2>1, <2>2, <2>3, <2>4 DEF SessionTypeOK
<1>5. RootIsTreeHead
  <2>1. DOMAIN claims = 1..N
      BY <1>1
  <2> QED
      BY <1>1, <2>1, RangeIsTheTree DEF RootIsTreeHead
<1>6. ReceiptsStandAlone
    BY <1>1 DEF ReceiptSound, ReceiptsStandAlone
<1> QED
    BY <1>4, <1>5, <1>6 DEF SessionInv

(* However many claims a session holds: its root, kept peak by peak, is    *)
(* the RFC 6962 head of them, its proofs are the paths of that tree, and   *)
(* a receipt proves its claim and no other under the head of its time      *)
(* (reasoningReceipts.ts, merkleTree.ts).                                  *)
THEOREM RangesAreTrees == SessionSpec => []SessionInv
<1>1. SessionInit => SessionIInv
    BY SessionStartsSound
<1>2. SessionIInv /\ [SessionNext]_sessionVars => SessionIInv'
    BY SessionStaysSound
<1>3. SessionIInv => SessionInv
    BY SessionIsSound
<1> QED
    BY <1>1, <1>2, <1>3, PTL DEF SessionSpec

(* What TLC checks of a session where it shares its run, for every value.  *)
THEOREM ReceiptsStandForGood == MemoryRunSpec => []SessionInv
<1>1. MemoryRunInit => SessionIInv
    BY SessionStartsSound DEF MemoryRunInit
<1>2. SessionIInv /\ [MemoryRunNext]_memoryRunVars => SessionIInv'
  <2> SUFFICES ASSUME SessionIInv, [MemoryRunNext]_memoryRunVars
               PROVE  SessionIInv'
      OBVIOUS
  <2>1. [SessionNext]_sessionVars
      BY DEF MemoryRunNext, RecordsNext, SessionRun, memoryRunVars, recordVars
  <2> QED
      BY <2>1, SessionStaysSound
<1>3. SessionIInv => SessionInv
    BY SessionIsSound
<1> QED
    BY <1>1, <1>2, <1>3, PTL DEF MemoryRunSpec

=============================================================================
