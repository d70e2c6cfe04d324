------------------------ MODULE ClusterStigmergy_proofs ------------------------
(***************************************************************************)
(* Proofs about the cluster for any set of nodes and any bounds: type      *)
(* correctness, that nothing a peer sends is lost to the sequence filter,  *)
(* that a redelivered envelope changes nothing, that a veto takes effect,  *)
(* that conflict resolution does not depend on the order of arrival, and   *)
(* that capabilities are current.  Where no histories are imported, nodes  *)
(* with the same traces have the same roots and every export replays.  For *)
(* processes that share a transport and restart: membership follows what   *)
(* was heard, owners of one key are strangers, and senders that never      *)
(* restarted lose nothing.  The Redis stream under the cluster, read by    *)
(* polls that overlap, implements the contract of its transport.           *)
(***************************************************************************)
EXTENDS ClusterNode, MCProgress, SequenceTheorems, FiniteSetTheorems, WellFoundedInduction,
        NaturalsInduction, TLAPS

-----------------------------------------------------------------------------
(* The preference between entries. *)

(* Beats is transitive on entries. *)
LEMMA BeatsTransitive ==
    ASSUME NEW a \in Entry, NEW b \in Entry, NEW c \in Entry,
           Beats(a, b), Beats(b, c)
    PROVE  Beats(a, c)
BY DEF Beats, Entry

(* Two entries of different clusterHash are never tied. *)
LEMMA BeatsTotal ==
    ASSUME NEW a \in Entry, NEW b \in Entry, a.clusterHash # b.clusterHash
    PROVE  Beats(a, b) \/ Beats(b, a)
BY DEF Beats, Entry

(* An entry that does not lose to a winner's challenger: if b beats a and  *)
(* c does not beat a, c does not beat b.                                   *)
LEMMA BeatsNegTransitive ==
    ASSUME NEW a \in Entry, NEW b \in Entry, NEW c \in Entry,
           Beats(b, a), ~Beats(c, a)
    PROVE  ~Beats(c, b)
BY DEF Beats, Entry

(* The entries of one writer and one trace id admitted by n. *)
WriterSiblings(n, w, id) == {e \in verified[n] : e.writer = w /\ e.id = id}

IsPreferred(e, S) == e \in S /\ \A f \in S : f = e \/ Beats(e, f)

(* writeTraceRemote's reduce has a winner among the entries it looks at,   *)
(* and they are never tied.                                                *)
PreferredExists ==
    \A n \in Nodes : \A w \in Nodes, id \in Nat :
        /\ WriterSiblings(n, w, id) # {} =>
              \E e \in WriterSiblings(n, w, id) : IsPreferred(e, WriterSiblings(n, w, id))
        /\ \A e, f \in WriterSiblings(n, w, id) : e.clusterHash = f.clusterHash => e = f

TypeInv == TypeOK /\ PreferredExists

(* What each kind of message carries. *)
LEMMA MessageFields ==
    ASSUME NEW msg \in Message
    PROVE  /\ msg.from \in Nodes
           /\ msg.seq \in Nat
           /\ msg.intact \in BOOLEAN
           /\ msg.type = "trace" => msg.body \in Entry
           /\ msg.type = "veto" => msg.body \in Nat
           /\ msg.type = "capability" => msg.body \in Capability
           /\ msg.type \in {"trace", "veto", "capability"}
BY DEF Message, TraceId

(* A new entry leaves a winner among the siblings it joins. *)
LEMMA PreferredAfterImport ==
    ASSUME TypeInv, NEW n \in Nodes, NEW entry \in Entry, ~IsDuplicate(n, entry)
    PROVE  LET S == WriterSiblings(n, entry.writer, entry.id) \cup {entry}
           IN  /\ \E e \in S : IsPreferred(e, S)
               /\ \A e, f \in S : e.clusterHash = f.clusterHash => e = f
<1> DEFINE old == WriterSiblings(n, entry.writer, entry.id)
           S == old \cup {entry}
<1>1. entry.writer \in Nodes /\ entry.id \in Nat /\ old \subseteq Entry
  BY DEF TypeInv, TypeOK, WriterSiblings, Entry
<1>2. \A e \in old : e.clusterHash # entry.clusterHash
  BY DEF IsDuplicate, WriterSiblings
<1>3. \A e, f \in S : e.clusterHash = f.clusterHash => e = f
  BY <1>1, <1>2 DEF TypeInv, PreferredExists
<1>4. \E e \in S : IsPreferred(e, S)
  <2>1. CASE old = {}
    BY <2>1 DEF IsPreferred
  <2>2. CASE old # {}
    <3>1. PICK m \in old : IsPreferred(m, old)
      BY <1>1, <2>2 DEF TypeInv, PreferredExists
    <3>2. CASE Beats(m, entry)
      BY <3>1, <3>2 DEF IsPreferred
    <3>3. CASE Beats(entry, m)
      <4>1. \A f \in old : Beats(entry, f)
        BY <1>1, <3>1, <3>3, BeatsTransitive DEF IsPreferred
      <4>2. QED
        BY <4>1 DEF IsPreferred
    <3>4. QED
      BY <1>1, <1>2, <3>2, <3>3, BeatsTotal
  <2>3. QED
    BY <2>1, <2>2
<1>5. QED
  BY <1>3, <1>4

(* writeTraceRemote leaves well-typed replica state ... *)
LEMMA AdmitTyped ==
    ASSUME TypeInv, NEW n \in Nodes, NEW entry \in Entry
    PROVE  /\ VerifiedAfter(n, entry) \in SUBSET Entry
           /\ ActiveAfter(n, entry) \in SUBSET Entry
           /\ RootsAfter(n, entry) \in [Nodes -> Nat]
<1> DEFINE S == {e \in Siblings(verified[n] \cup {entry}, entry.id) :
                    e.writer = entry.writer}
<1>1. VerifiedAfter(n, entry) \in SUBSET Entry /\ ActiveAfter(n, entry) \in SUBSET Entry
  BY DEF TypeInv, TypeOK, VerifiedAfter, ActiveAfter, ActiveWith
<1>2. ASSUME ~IsDuplicate(n, entry) PROVE Preferred(S).hash \in Nat
  <2>1. S = WriterSiblings(n, entry.writer, entry.id) \cup {entry}
    BY DEF Siblings, WriterSiblings
  <2>2. \E e \in S : \A f \in S : f = e \/ Beats(e, f)
    BY <1>2, <2>1, PreferredAfterImport DEF IsPreferred
  <2>3. Preferred(S) \in S
    BY <2>2 DEF Preferred
  <2>4. S \subseteq Entry
    BY DEF TypeInv, TypeOK, Siblings
  <2>5. QED
    BY <2>3, <2>4 DEF Entry
<1>3. RootsAfter(n, entry) \in [Nodes -> Nat]
  BY <1>2 DEF RootsAfter, TypeInv, TypeOK
<1>4. QED
  BY <1>1, <1>3

(* ... and a winner among every set of siblings. *)
LEMMA AdmitPreferred ==
    ASSUME TypeInv, NEW n \in Nodes, NEW entry \in Entry,
           verified' = [verified EXCEPT ![n] = VerifiedAfter(n, entry)]
    PROVE  PreferredExists'
<1> SUFFICES ASSUME NEW m \in Nodes, NEW w \in Nodes, NEW id \in Nat
             PROVE  /\ WriterSiblings(m, w, id)' # {} =>
                          \E e \in WriterSiblings(m, w, id)' :
                              IsPreferred(e, WriterSiblings(m, w, id)')
                    /\ \A e, f \in WriterSiblings(m, w, id)' :
                          e.clusterHash = f.clusterHash => e = f
  BY DEF PreferredExists, IsPreferred
<1>1. m \in DOMAIN verified
  BY DEF TypeInv, TypeOK
<1>2. CASE m = n /\ ~IsDuplicate(n, entry) /\ w = entry.writer /\ id = entry.id
  <2>1. WriterSiblings(m, w, id)' = WriterSiblings(n, entry.writer, entry.id) \cup {entry}
    BY <1>1, <1>2 DEF WriterSiblings, VerifiedAfter
  <2> DEFINE T == WriterSiblings(n, entry.writer, entry.id) \cup {entry}
  <2>2. /\ \E e \in T : IsPreferred(e, T)
        /\ \A e, f \in T : e.clusterHash = f.clusterHash => e = f
    BY <1>2, PreferredAfterImport
  <2>3. WriterSiblings(m, w, id)' = T
    BY <2>1
  <2> HIDE DEF T
  <2>4. QED
    BY <2>2, <2>3
<1>3. CASE ~(m = n /\ ~IsDuplicate(n, entry) /\ w = entry.writer /\ id = entry.id)
  <2>1. WriterSiblings(m, w, id)' = WriterSiblings(m, w, id)
    BY <1>1, <1>3 DEF WriterSiblings, VerifiedAfter
  <2>2. QED
    BY <2>1 DEF TypeInv, PreferredExists
<1>4. QED
  BY <1>2, <1>3

(* Operations that import nothing leave the winners where they are. *)
LEMMA PreferredUnchanged ==
    ASSUME PreferredExists, UNCHANGED verified
    PROVE  PreferredExists'
<1>1. ASSUME NEW n \in Nodes, NEW w \in Nodes, NEW id \in Nat
      PROVE  WriterSiblings(n, w, id)' = WriterSiblings(n, w, id)
  BY DEF WriterSiblings
<1>2. QED
  BY <1>1 DEF PreferredExists, IsPreferred

-----------------------------------------------------------------------------
(* Type correctness. *)

(* A local operation appends one message and touches its node only. *)
LEMMA PublishTyped ==
    ASSUME TypeOK, NEW msg \in Message, Publish(<<msg>>)
    PROVE  /\ log' \in Seq(Message)
           /\ Len(log') = Len(log) + 1
           /\ log'[Len(log) + 1] = msg
           /\ \A k \in 1..Len(log) : log'[k] = log[k]
<1>1. log \in Seq(Message) /\ log' = Append(log, msg)
  <2>1. log \in Seq(Message) /\ log' = log \o <<msg>>
    BY DEF TypeOK, Publish
  <2>2. QED
    BY <2>1
<1>2. QED
  BY <1>1

LEMMA RetainTyped ==
    ASSUME NEW s \in Seq(Entry)
    PROVE  Retain(s) \in Seq(Entry) /\ Len(Retain(s)) <= Capacity
<1>1. Capacity \in Nat \ {0} /\ Len(s) \in Nat
  BY StigmergyAssumption DEF StigmergyAssumption
<1>2. CASE Len(s) > Capacity
  <2> DEFINE first == Len(s) - Capacity + 1
  <2>1. first \in 1..Len(s)
    BY <1>1, <1>2
  <2>2. SubSeq(s, first, Len(s)) \in Seq(Entry) /\ Len(SubSeq(s, first, Len(s))) = Capacity
    BY <1>1, <2>1, SubSeqProperties
  <2>3. QED
    BY <1>2, <2>2, <1>1 DEF Retain
<1>3. CASE ~(Len(s) > Capacity)
  <2>1. Retain(s) = s
    BY <1>3 DEF Retain
  <2>2. QED
    BY <1>1, <1>3, <2>1
<1>4. QED
  BY <1>2, <1>3

LEMMA LocalRootTyped ==
    ASSUME TypeOK, NEW n \in Nodes
    PROVE  LocalRoot(n) \in Nat
<1>1. window[n] \in Seq(Entry)
  BY DEF TypeOK
<1>2. window[n] # <<>> => window[n][Len(window[n])] \in Entry
  BY <1>1
<1>3. QED
  BY <1>2 DEF LocalRoot, NoHash, Entry

LEMMA NextMessageTyped ==
    ASSUME TypeOK, NEW n \in Nodes, Consume(n)
    PROVE  /\ NextMessage(n) \in Message
           /\ cursor[n] + 1 \in 1..Len(log)
           /\ cursor' \in [Nodes -> Nat]
           /\ \A m \in Nodes : cursor'[m] <= Len(log')
BY DEF TypeOK, Consume, NextMessage

(* A delivery, first or repeated, keeps the replica of n well-typed. *)
LEMMA HandleInboundTyped ==
    ASSUME TypeInv, NEW n \in Nodes, NEW msg \in Message, HandleInbound(n, msg)
    PROVE  /\ verified' \in [Nodes -> SUBSET Entry]
           /\ active' \in [Nodes -> SUBSET Entry]
           /\ remoteRoots' \in [Nodes -> [Nodes -> Nat]]
           /\ seen' \in [Nodes -> [Nodes -> Nat]]
           /\ vetoed' \in [Nodes -> SUBSET TraceId]
           /\ caps' \in [Nodes -> [Nodes -> Capability \cup {Unknown}]]
           /\ PreferredExists'
           /\ UNCHANGED <<minted, localSeq, window>>
<1> USE DEF TypeInv, TypeOK
<1>1. CASE UNCHANGED replicaVars
  BY <1>1, PreferredUnchanged DEF HandleInbound, replicaVars
<1>2. CASE HandleTrace(n, msg)
  <2>1. msg.body \in Entry /\ msg.from \in Nodes /\ msg.seq \in Nat
    BY <1>2, MessageFields DEF HandleTrace
  <2>2. PreferredExists'
    BY <1>2, <2>1, AdmitPreferred DEF HandleTrace
  <2>3. QED
    BY <1>2, <2>1, <2>2, AdmitTyped DEF HandleTrace, HandleInbound
<1>3. CASE HandleVeto(n, msg)
  <2>1. msg.body \in Nat /\ msg.from \in Nodes /\ msg.seq \in Nat
    BY <1>3, MessageFields DEF HandleVeto
  <2>2. QED
    BY <1>3, <2>1, PreferredUnchanged DEF HandleVeto, HandleInbound, TraceId
<1>4. CASE HandleCapability(n, msg)
  <2>1. msg.body \in Capability /\ msg.from \in Nodes /\ msg.seq \in Nat
    BY <1>4, MessageFields DEF HandleCapability
  <2>2. QED
    BY <1>4, <2>1, PreferredUnchanged DEF HandleCapability, HandleInbound
<1>5. QED
  BY <1>1, <1>2, <1>3, <1>4 DEF HandleInbound

LEMMA TypeInit == Init => TypeInv
<1> SUFFICES ASSUME Init PROVE TypeInv
  OBVIOUS
<1> USE DEF Init, TransportInit, StigmergyInit
<1>1. TypeOK
  <2>1. 0 <= Capacity /\ Len(<<>>) = 0
    BY StigmergyAssumption DEF StigmergyAssumption
  <2>2. \A n \in Nodes : Len(window[n]) <= Capacity
    BY <2>1
  <2>3. QED
    BY <2>2 DEF TypeOK, NoHash, Capability, Unknown
<1>2. PreferredExists
  BY DEF PreferredExists, WriterSiblings
<1>3. QED
  BY <1>1, <1>2 DEF TypeInv

LEMMA TypeStep == TypeInv /\ [Next]_vars => TypeInv'
<1> SUFFICES ASSUME TypeInv, [Next]_vars PROVE TypeInv'
  OBVIOUS
<1>t. TypeOK
  BY DEF TypeInv
<1>c. \A k \in Nat : k <= Len(log) => k <= Len(log) + 1
  BY <1>t DEF TypeOK
<1>1. ASSUME NEW n \in Nodes, NEW s \in Scores, NEW intact \in BOOLEAN,
             RecordTrace(n, s, intact)
      PROVE  TypeInv'
  <2> DEFINE entry == [writer |-> n, id |-> minted + 1, hash |-> minted + 1,
                       parent |-> LocalRoot(n), score |-> s,
                       clusterHash |-> minted + 1]
             msg == TraceMsg(n, localSeq[n] + 1, entry, intact)
  <2>1. LocalRoot(n) \in Nat
    BY <1>t, LocalRootTyped
  <2>2. entry \in Entry
    BY <1>t, <2>1, StigmergyAssumption DEF TypeOK, Entry, NoHash, StigmergyAssumption
  <2>3. msg \in Message
    BY <1>t, <2>2 DEF TypeOK, Message, TraceMsg
  <2>4. log' \in Seq(Message) /\ Len(log') = Len(log) + 1
    BY <1>t, <1>1, <2>3, PublishTyped DEF RecordTrace
  <2>5. /\ window' \in [Nodes -> Seq(Entry)]
        /\ \A m \in Nodes : Len(window'[m]) <= Capacity
    <3>1. Append(window[n], entry) \in Seq(Entry)
      BY <1>t, <2>2 DEF TypeOK
    <3>2. /\ Retain(Append(window[n], entry)) \in Seq(Entry)
          /\ Len(Retain(Append(window[n], entry))) <= Capacity
      BY <3>1, RetainTyped
    <3>3. QED
      BY <1>t, <1>1, <3>2 DEF TypeOK, RecordTrace
  <2>6. TypeOK'
    <3>1. /\ minted' \in Nat
          /\ localSeq' \in [Nodes -> Nat]
          /\ UNCHANGED <<cursor, replicaVars>>
      BY <1>t, <1>1 DEF TypeOK, RecordTrace
    <3>2. \A m \in Nodes : cursor'[m] <= Len(log')
      BY <1>t, <1>c, <2>4, <3>1 DEF TypeOK
    <3>3. QED
      BY <1>t, <2>4, <2>5, <3>1, <3>2 DEF TypeOK, replicaVars
  <2>7. PreferredExists'
    BY <1>1, PreferredUnchanged DEF TypeInv, RecordTrace, replicaVars
  <2>8. QED
    BY <2>6, <2>7 DEF TypeInv
<1>2. ASSUME NEW n \in Nodes, NEW id \in Nat, VetoTrace(n, id)
      PROVE  TypeInv'
  <2>1. VetoMsg(n, localSeq[n] + 1, id) \in Message
    BY <1>t DEF TypeOK, Message, VetoMsg, TraceId
  <2>2. log' \in Seq(Message) /\ Len(log') = Len(log) + 1
    BY <1>t, <1>2, <2>1, PublishTyped DEF VetoTrace
  <2>3. TypeOK'
    BY SMTT(30), <1>t, <1>c, <1>2, <2>2 DEF TypeOK, VetoTrace, TraceId
  <2>4. PreferredExists'
    BY <1>2, PreferredUnchanged DEF TypeInv, VetoTrace
  <2>5. QED
    BY <2>3, <2>4 DEF TypeInv
<1>3. ASSUME NEW n \in Nodes, NEW cuda \in Capability, AdvertiseCapability(n, cuda)
      PROVE  TypeInv'
  <2>1. CapabilityMsg(n, localSeq[n] + 1, cuda) \in Message
    BY <1>t DEF TypeOK, Message, CapabilityMsg
  <2>2. log' \in Seq(Message) /\ Len(log') = Len(log) + 1
    BY <1>t, <1>3, <2>1, PublishTyped DEF AdvertiseCapability
  <2>3. TypeOK'
    BY SMTT(30), <1>t, <1>c, <1>3, <2>2 DEF TypeOK, AdvertiseCapability
  <2>4. PreferredExists'
    BY <1>3, PreferredUnchanged DEF TypeInv, AdvertiseCapability
  <2>5. QED
    BY <2>3, <2>4 DEF TypeInv
<1>4. ASSUME NEW n \in Nodes, NEW entry \in Importable, WriteTraceRemote(n, entry)
      PROVE  TypeInv'
  <2>1. entry \in Entry
    BY StigmergyAssumption DEF StigmergyAssumption
  <2>2. TypeOK'
    BY <1>t, <1>4, <2>1, AdmitTyped DEF TypeOK, WriteTraceRemote, transportVars
  <2>3. QED
    BY <1>4, <2>1, <2>2, AdmitPreferred DEF TypeInv, WriteTraceRemote
<1>5. ASSUME NEW n \in Nodes, Deliver(n)
      PROVE  TypeInv'
  <2>1. NextMessage(n) \in Message /\ cursor' \in [Nodes -> Nat]
        /\ \A m \in Nodes : cursor'[m] <= Len(log')
    BY <1>t, <1>5, NextMessageTyped DEF Deliver
  <2>2. QED
    BY <1>t, <1>5, <2>1, HandleInboundTyped DEF Deliver, Consume, TypeInv, TypeOK
<1>6. ASSUME NEW n \in Nodes, Redeliver(n)
      PROVE  TypeInv'
  <2>1. PICK k \in 1..cursor[n] : HandleInbound(n, log[k])
    BY <1>6 DEF Redeliver
  <2>2. log[k] \in Message
    BY <1>t DEF TypeOK
  <2>3. QED
    BY <1>t, <1>6, <2>1, <2>2, HandleInboundTyped DEF Redeliver, transportVars, TypeInv, TypeOK
<1>7. CASE UNCHANGED vars
  <2>1. TypeOK'
    BY <1>t, <1>7 DEF TypeOK, vars, transportVars, stigmergyVars
  <2>2. PreferredExists'
    BY <1>7, PreferredUnchanged DEF TypeInv, vars, stigmergyVars
  <2>3. QED
    BY <2>1, <2>2 DEF TypeInv
<1>8. NamedIds \subseteq Nat
  BY <1>t, StigmergyAssumption DEF NamedIds, TypeOK, StigmergyAssumption, Entry
<1>9. QED
  BY <1>1, <1>2, <1>3, <1>4, <1>5, <1>6, <1>7, <1>8 DEF Next

(* Every variable keeps its type, and the reduce in writeTraceRemote       *)
(* always has a winner.                                                    *)
THEOREM TypeCorrect == Spec => []TypeOK
<1>1. TypeInv => TypeOK
  BY DEF TypeInv
<1>2. QED
  BY <1>1, TypeInit, TypeStep, PTL DEF Spec

-----------------------------------------------------------------------------
(* Conflict resolution. *)

(* The entries A of one node are the right choice among its admitted       *)
(* entries V, but for the ids in X.                                        *)
Resolves(A, V, X) ==
    /\ A \subseteq V
    /\ \A a, b \in A : a.id = b.id => a = b
    /\ \A e \in V : e.id \notin X => \E a \in A : a.id = e.id /\ ~Beats(e, a)

(* Importing an entry keeps the choice right. *)
LEMMA ResolvesAfterImport ==
    ASSUME TypeOK, NEW n \in Nodes, NEW entry \in Entry,
           Resolves(active[n], verified[n], vetoed[n])
    PROVE  Resolves(ActiveAfter(n, entry), VerifiedAfter(n, entry), vetoed[n])
<1> DEFINE A == ActiveAfter(n, entry)
           V == VerifiedAfter(n, entry)
<1>t. active[n] \subseteq Entry /\ verified[n] \subseteq Entry
  BY DEF TypeOK
<1>e. ~Beats(entry, entry)
  BY DEF Beats, Entry
<1>1. CASE IsDuplicate(n, entry)
  BY <1>1 DEF ActiveAfter, VerifiedAfter
<1>2. CASE ~IsDuplicate(n, entry) /\ \E a \in active[n] : a.id = entry.id /\ ~Beats(entry, a)
  <2>1. A = active[n] /\ V = verified[n] \cup {entry}
    BY <1>2 DEF ActiveAfter, ActiveWith, VerifiedAfter
  <2> HIDE DEF A, V
  <2>2. Resolves(A, V, vetoed[n])
    BY <1>2, <2>1 DEF Resolves
  <2>3. QED
    BY <2>2 DEF A, V
<1>3. CASE ~IsDuplicate(n, entry) /\ \A a \in active[n] : a.id = entry.id => Beats(entry, a)
  <2>1. A = {a \in active[n] : a.id # entry.id} \cup {entry} /\ V = verified[n] \cup {entry}
    BY <1>3 DEF ActiveAfter, ActiveWith, VerifiedAfter
  <2> HIDE DEF A, V
  <2>2. ASSUME NEW e \in V, e.id \notin vetoed[n]
        PROVE  \E a \in A : a.id = e.id /\ ~Beats(e, a)
    <3>1. CASE e.id # entry.id
      BY <2>1, <2>2, <3>1 DEF Resolves
    <3>2. CASE e = entry
      BY <1>e, <2>1, <3>2
    <3>3. CASE e.id = entry.id /\ e # entry
      <4>1. PICK a \in active[n] : a.id = e.id /\ ~Beats(e, a)
        BY <2>1, <2>2, <3>3 DEF Resolves
      <4>2. ~Beats(e, entry)
        BY <1>t, <1>3, <2>1, <3>3, <4>1, BeatsNegTransitive
      <4>3. QED
        BY <2>1, <3>3, <4>2
    <3>4. QED
      BY <3>1, <3>2, <3>3
  <2>3. A \subseteq V /\ \A a, b \in A : a.id = b.id => a = b
    BY <2>1 DEF Resolves
  <2>4. Resolves(A, V, vetoed[n])
    BY <2>2, <2>3 DEF Resolves
  <2>5. QED
    BY <2>4 DEF A, V
<1>4. QED
  BY <1>1, <1>2, <1>3

(* Taking the entries of one id off the surface needs that id vetoed. *)
LEMMA ResolvesAfterVeto ==
    ASSUME NEW A, NEW V, NEW X, NEW id, Resolves(A, V, X),
           NEW B, B = {e \in A : e.id # id},
           NEW Y, Y = X \cup {id}
    PROVE  Resolves(B, V, Y)
BY DEF Resolves

LEMMA ResolvesHandover ==
    ASSUME TypeOK, ActiveIsPreferred, NEW n \in Nodes, NEW msg \in Message,
           HandleInbound(n, msg)
    PROVE  ActiveIsPreferred'
<1>a. \A m \in Nodes : Resolves(active[m], verified[m], vetoed[m])
  BY DEF ActiveIsPreferred, Resolves
<1>t. n \in DOMAIN active /\ n \in DOMAIN verified /\ n \in DOMAIN vetoed
  BY DEF TypeOK
<1> SUFFICES ASSUME NEW m \in Nodes
             PROVE  Resolves(active'[m], verified'[m], vetoed'[m])
  BY DEF ActiveIsPreferred, Resolves
<1>1. CASE UNCHANGED replicaVars
  BY <1>a, <1>1 DEF replicaVars
<1>2. CASE HandleTrace(n, msg)
  <2>1. msg.body \in Entry
    BY <1>2, MessageFields DEF HandleTrace
  <2>2. CASE m # n
    BY <1>a, <1>2, <2>2 DEF HandleTrace, TypeOK
  <2>3. CASE m = n /\ msg.body.id \notin vetoed[n]
    <3>1. /\ active'[n] = ActiveAfter(n, msg.body)
          /\ verified'[n] = VerifiedAfter(n, msg.body)
          /\ vetoed'[n] = vetoed[n]
      BY <1>t, <1>2, <2>3 DEF HandleTrace
    <3>2. QED
      BY <1>a, <2>1, <2>3, <3>1, ResolvesAfterImport
  <2>4. CASE m = n /\ msg.body.id \in vetoed[n]
    <3>1. /\ active'[n] = {e \in ActiveAfter(n, msg.body) : e.id # msg.body.id}
          /\ verified'[n] = VerifiedAfter(n, msg.body)
          /\ vetoed'[n] = vetoed[n] \cup {msg.body.id}
      BY <1>t, <1>2, <2>4 DEF HandleTrace
    <3>2. Resolves(ActiveAfter(n, msg.body), VerifiedAfter(n, msg.body), vetoed[n])
      BY <1>a, <2>1, ResolvesAfterImport
    <3>3. Resolves(active'[n], VerifiedAfter(n, msg.body), vetoed'[n])
      BY <3>1, <3>2, ResolvesAfterVeto
    <3>4. QED
      BY <2>4, <3>1, <3>3
  <2>5. QED
    BY <2>2, <2>3, <2>4
<1>3. CASE HandleVeto(n, msg)
  <2>1. CASE m # n
    BY <1>a, <1>3, <2>1 DEF HandleVeto, TypeOK
  <2>2. CASE m = n
    <3>1. /\ active'[n] = {e \in active[n] : e.id # msg.body}
          /\ verified'[n] = verified[n]
          /\ vetoed'[n] = vetoed[n] \cup {msg.body}
      BY <1>t, <1>3 DEF HandleVeto
    <3>2. Resolves(active'[n], verified[n], vetoed'[n])
      BY <1>a, <3>1, ResolvesAfterVeto
    <3>3. QED
      BY <2>2, <3>1, <3>2
  <2>3. QED
    BY <2>1, <2>2
<1>4. CASE HandleCapability(n, msg)
  BY <1>a, <1>4 DEF HandleCapability
<1>5. QED
  BY <1>1, <1>2, <1>3, <1>4 DEF HandleInbound

LEMMA ResolvesStep ==
    ASSUME TypeInv, ActiveIsPreferred, [Next]_vars
    PROVE  ActiveIsPreferred'
<1>t. TypeOK
  BY DEF TypeInv
<1>1. ASSUME UNCHANGED <<verified, active, vetoed>> PROVE ActiveIsPreferred'
  BY <1>1 DEF ActiveIsPreferred
<1>2. ASSUME NEW n \in Nodes, NEW s \in Scores, NEW intact \in BOOLEAN,
             RecordTrace(n, s, intact)
      PROVE  ActiveIsPreferred'
  BY <1>1, <1>2 DEF RecordTrace, replicaVars
<1>3. ASSUME NEW n \in Nodes, NEW id \in NamedIds, VetoTrace(n, id)
      PROVE  ActiveIsPreferred'
  BY SMTT(30), <1>t, <1>3 DEF VetoTrace, ActiveIsPreferred, TypeOK
<1>4. ASSUME NEW n \in Nodes, NEW cuda \in Capability, AdvertiseCapability(n, cuda)
      PROVE  ActiveIsPreferred'
  BY <1>1, <1>4 DEF AdvertiseCapability
<1>5. ASSUME NEW n \in Nodes, NEW entry \in Importable, WriteTraceRemote(n, entry)
      PROVE  ActiveIsPreferred'
  <2>1. entry \in Entry
    BY StigmergyAssumption DEF StigmergyAssumption
  <2>2. Resolves(ActiveAfter(n, entry), VerifiedAfter(n, entry), vetoed[n])
    BY <1>t, <2>1, ResolvesAfterImport DEF ActiveIsPreferred, Resolves
  <2>3. ASSUME NEW m \in Nodes PROVE Resolves(active'[m], verified'[m], vetoed'[m])
    <3>1. CASE m = n
      BY SMTT(30), <1>t, <1>5, <2>2, <3>1 DEF WriteTraceRemote, TypeOK
    <3>2. CASE m # n
      BY SMTT(30), <1>t, <1>5, <3>2 DEF WriteTraceRemote, TypeOK, ActiveIsPreferred, Resolves
    <3>3. QED
      BY <3>1, <3>2
  <2>4. QED
    BY <2>3 DEF ActiveIsPreferred, Resolves
<1>6. ASSUME NEW n \in Nodes, Deliver(n) PROVE ActiveIsPreferred'
  BY <1>t, <1>6, NextMessageTyped, ResolvesHandover DEF Deliver
<1>7. ASSUME NEW n \in Nodes, Redeliver(n) PROVE ActiveIsPreferred'
  <2>1. PICK k \in 1..cursor[n] : HandleInbound(n, log[k])
    BY <1>7 DEF Redeliver
  <2>2. log[k] \in Message
    BY <1>t DEF TypeOK
  <2>3. QED
    BY <1>t, <2>1, <2>2, ResolvesHandover
<1>8. CASE UNCHANGED vars
  BY <1>1, <1>8 DEF vars, stigmergyVars
<1>9. QED
  BY <1>2, <1>3, <1>4, <1>5, <1>6, <1>7, <1>8 DEF Next

(* Conflict resolution does not depend on the order of arrival: of every   *)
(* trace id a node knows and nobody vetoed, one entry is active, and none  *)
(* the node admitted beats it.                                             *)
THEOREM ConflictsAreResolved == Spec => []ActiveIsPreferred
<1>1. Init => ActiveIsPreferred
  BY DEF Init, StigmergyInit, ActiveIsPreferred
<1>2. Spec => []TypeInv
  BY TypeInit, TypeStep, PTL DEF Spec
<1>3. QED
  BY <1>1, <1>2, ResolvesStep, PTL DEF Spec

-----------------------------------------------------------------------------
(* Message delivery: sequence numbers grow along the log, no message a    *)
(* node was handed is lost to the sequence filter, a redelivered envelope  *)
(* changes nothing, and a veto takes effect at every node handed it.       *)

(* An envelope of somebody else whose content handleInbound accepts. *)
Acceptable(n, msg) == msg.from # n /\ ~(msg.type = "trace" /\ ~msg.intact)

(* Nothing numbered is ahead of its sender, and what n has yet to be       *)
(* handed is ahead of everything n took from that sender.                  *)
BehindSender == \A k \in 1..Len(log) : log[k].seq <= localSeq[log[k].from]
AheadOfSeen ==
    \A n \in Nodes : \A k \in 1..Len(log) :
        k > cursor[n] /\ log[k].from # n => seen[n][log[k].from] < log[k].seq
SeenBehindSender == \A n, w \in Nodes : seen[n][w] <= localSeq[w]

(* What n was handed and could accept has left its mark. *)
Applied(n, msg) ==
    /\ msg.seq <= seen[n][msg.from]
    /\ msg.type = "trace" => IsDuplicate(n, msg.body)
    /\ msg.type = "veto" => msg.body \in vetoed[n]
ConsumedApplied ==
    \A n \in Nodes : \A k \in 1..cursor[n] : Acceptable(n, log[k]) => Applied(n, log[k])

DeliveryInv ==
    /\ BehindSender
    /\ SequenceIsMonotonic
    /\ AheadOfSeen
    /\ SeenBehindSender
    /\ ConsumedApplied

-----------------------------------------------------------------------------
(* Three kinds of step matter to delivery: one that publishes the next     *)
(* message of its node, an import, and a hand-over.  A trace that is       *)
(* published is minted and retained in the same step.                      *)
MintsAt(n, e) ==
    /\ e.writer = n /\ e.parent = LocalRoot(n)
    /\ e.id = minted + 1 /\ e.hash = minted + 1 /\ e.clusterHash = minted + 1
    /\ minted' = minted + 1
    /\ window' = [window EXCEPT ![n] = Retain(Append(@, e))]

PublishesNext(n, msg) ==
    /\ msg.from = n
    /\ msg.seq = localSeq[n] + 1
    /\ Publish(<<msg>>)
    /\ localSeq' = [localSeq EXCEPT ![n] = @ + 1]
    /\ \A m \in Nodes : vetoed[m] \subseteq vetoed'[m]
    /\ \A m, w \in Nodes : w # m => caps'[m][w] = caps[m][w]
    /\ IF msg.type = "trace"
       THEN MintsAt(n, msg.body) /\ (msg.intact \/ MutatingCallers)
       ELSE UNCHANGED <<minted, window>>
    /\ UNCHANGED <<cursor, seen, verified, remoteRoots>>

(* An operation of a node's own stigmergy publishes one message.           *)
LocalStep(n, intact) ==
    \/ \E s \in Scores : RecordTrace(n, s, intact)
    \/ \E id \in NamedIds : VetoTrace(n, id)
    \/ \E cuda \in Capability : AdvertiseCapability(n, cuda)

LEMMA LocalStepPublishes ==
    ASSUME TypeInv, NEW n \in Nodes, NEW intact \in BOOLEAN, intact \/ MutatingCallers,
           LocalStep(n, intact)
    PROVE  \E msg \in Message : PublishesNext(n, msg) /\ (intact => msg.intact)
<1>t. TypeOK
  BY DEF TypeInv
<1>1. ASSUME NEW s \in Scores, RecordTrace(n, s, intact)
      PROVE  \E msg \in Message : PublishesNext(n, msg) /\ (intact => msg.intact)
  <2> DEFINE entry == [writer |-> n, id |-> minted + 1, hash |-> minted + 1,
                       parent |-> LocalRoot(n), score |-> s,
                       clusterHash |-> minted + 1]
             msg == TraceMsg(n, localSeq[n] + 1, entry, intact)
  <2>1. entry \in Entry
    <3>1. LocalRoot(n) \in Nat
      BY <1>t, LocalRootTyped
    <3>2. QED
      BY <1>t, <3>1, StigmergyAssumption DEF TypeOK, Entry, NoHash, StigmergyAssumption
  <2>2. msg \in Message
    BY <1>t, <2>1 DEF TypeOK, Message, TraceMsg
  <2>3. /\ msg.from = n
        /\ msg.seq = localSeq[n] + 1
        /\ msg.type = "trace" /\ msg.body = entry /\ msg.intact = intact
        /\ entry.writer = n /\ entry.parent = LocalRoot(n) /\ entry.id = minted + 1
        /\ entry.hash = minted + 1 /\ entry.clusterHash = minted + 1
    BY DEF TraceMsg
  <2>m. MintsAt(n, entry)
    BY <1>1, <2>3 DEF RecordTrace, MintsAt
  <2>4. /\ Publish(<<msg>>)
        /\ localSeq' = [localSeq EXCEPT ![n] = @ + 1]
        /\ UNCHANGED <<cursor, replicaVars>>
    BY <1>1 DEF RecordTrace
  <2> HIDE DEF msg, entry
  <2>5. PublishesNext(n, msg)
    BY <1>t, <1>1, <2>m, <2>2, <2>3, <2>4 DEF PublishesNext, TypeOK, replicaVars
  <2> QED BY <2>2, <2>3, <2>5
<1>2. ASSUME NEW id \in Nat, VetoTrace(n, id)
      PROVE  \E msg \in Message : PublishesNext(n, msg) /\ (intact => msg.intact)
  <2>1. VetoMsg(n, localSeq[n] + 1, id) \in Message
    BY <1>t DEF TypeOK, Message, VetoMsg, TraceId
  <2>2. \A m \in Nodes : vetoed[m] \subseteq vetoed'[m]
    BY <1>t, <1>2 DEF TypeOK, VetoTrace
  <2>3. PublishesNext(n, VetoMsg(n, localSeq[n] + 1, id))
    BY <1>t, <1>2, <2>2 DEF PublishesNext, TypeOK, VetoTrace, VetoMsg
  <2>4. VetoMsg(n, localSeq[n] + 1, id).intact
    BY DEF VetoMsg
  <2> QED BY <2>1, <2>3, <2>4
<1>3. ASSUME NEW cuda \in Capability, AdvertiseCapability(n, cuda)
      PROVE  \E msg \in Message : PublishesNext(n, msg) /\ (intact => msg.intact)
  <2>1. CapabilityMsg(n, localSeq[n] + 1, cuda) \in Message
    BY <1>t DEF TypeOK, Message, CapabilityMsg
  <2>2. PublishesNext(n, CapabilityMsg(n, localSeq[n] + 1, cuda))
    BY <1>t, <1>3 DEF PublishesNext, TypeOK, AdvertiseCapability, CapabilityMsg
  <2>3. CapabilityMsg(n, localSeq[n] + 1, cuda).intact
    BY DEF CapabilityMsg
  <2> QED BY <2>1, <2>2, <2>3
<1>4. NamedIds \subseteq Nat
  <2>1. minted \in Nat
    BY <1>t DEF TypeOK
  <2>2. \A e \in Importable : e.id \in Nat
    BY StigmergyAssumption DEF StigmergyAssumption, Entry
  <2> QED BY <2>1, <2>2 DEF NamedIds
<1>5. CASE \E s \in Scores : RecordTrace(n, s, intact)
  BY <1>1, <1>5
<1>6. CASE \E id \in NamedIds : VetoTrace(n, id)
  BY <1>2, <1>4, <1>6
<1>7. CASE \E cuda \in Capability : AdvertiseCapability(n, cuda)
  BY <1>3, <1>7
<1> QED BY <1>5, <1>6, <1>7 DEF LocalStep

LEMMA StepKinds ==
    ASSUME TypeInv, [Next]_vars
    PROVE  \/ \E n \in Nodes, msg \in Message : PublishesNext(n, msg)
           \/ \E n \in Nodes, entry \in Importable \cap Entry : WriteTraceRemote(n, entry)
           \/ \E n \in Nodes : Deliver(n)
           \/ \E n \in Nodes : Redeliver(n)
           \/ UNCHANGED vars
<1>1. ASSUME NEW n \in Nodes, NEW intact \in BOOLEAN, intact \/ MutatingCallers,
             LocalStep(n, intact)
      PROVE  \E msg \in Message : PublishesNext(n, msg)
  BY <1>1, LocalStepPublishes
<1>2. Importable \subseteq Entry
  BY StigmergyAssumption DEF StigmergyAssumption
<1> QED BY <1>1, <1>2 DEF Next, LocalStep

(* Publishing appends exactly one envelope. *)
LEMMA LogGrows ==
    ASSUME TypeOK, NEW n \in Nodes, NEW msg \in Message, PublishesNext(n, msg)
    PROVE  /\ Len(log) \in Nat
           /\ Len(log') = Len(log) + 1
           /\ log'[Len(log) + 1] = msg
           /\ \A k \in 1..Len(log) : log'[k] = log[k] /\ log[k] \in Message
<1>1. log \in Seq(Message)
  BY DEF TypeOK
<1>2. QED
  BY <1>1, PublishTyped DEF PublishesNext

(* A hand-over only ever moves a node forward. *)
LEMMA HandleInboundMonotone ==
    ASSUME TypeInv, NEW n \in Nodes, NEW msg \in Message, HandleInbound(n, msg)
    PROVE  /\ \A m, w \in Nodes : \/ seen'[m][w] = seen[m][w]
                                  \/ /\ m = n /\ w = msg.from
                                     /\ Fresh(n, msg) /\ seen'[m][w] = msg.seq
           /\ \A m \in Nodes : /\ verified[m] \subseteq verified'[m]
                               /\ vetoed[m] \subseteq vetoed'[m]
           /\ Fresh(n, msg) /\ Acceptable(n, msg) => Applied(n, msg)'
<1> USE DEF TypeInv, TypeOK
<1>m. msg.from \in Nodes /\ msg.seq \in Nat
  BY MessageFields
<1>1. CASE UNCHANGED replicaVars /\ Ignored(n, msg)
  BY <1>1 DEF replicaVars, Ignored, Acceptable
<1>2. CASE Fresh(n, msg) /\ HandleTrace(n, msg)
  <2>1. verified[n] \subseteq verified'[n] /\ IsDuplicate(n, msg.body)'
    BY <1>2 DEF HandleTrace, VerifiedAfter, IsDuplicate
  <2>2. QED
    BY SMTT(30), <1>m, <1>2, <2>1 DEF HandleTrace, Applied
<1>3. CASE Fresh(n, msg) /\ HandleVeto(n, msg)
  BY SMTT(30), <1>m, <1>3 DEF HandleVeto, Applied
<1>4. CASE Fresh(n, msg) /\ HandleCapability(n, msg)
  BY SMTT(30), <1>m, <1>4 DEF HandleCapability, Applied
<1>5. QED
  BY <1>1, <1>2, <1>3, <1>4 DEF HandleInbound

-----------------------------------------------------------------------------
(* The delivery invariant is inductive. *)

LEMMA DeliveryInit == Init => DeliveryInv
<1> SUFFICES ASSUME Init PROVE DeliveryInv
  OBVIOUS
<1>1. log = <<>> /\ Len(log) = 0 /\ DOMAIN log = {}
  BY DEF Init, TransportInit
<1>2. /\ cursor = [n \in Nodes |-> 0]
      /\ seen = [n \in Nodes |-> [w \in Nodes |-> 0]]
      /\ localSeq = [n \in Nodes |-> 0]
  BY DEF Init, TransportInit, StigmergyInit
<1>3. BehindSender /\ SequenceIsMonotonic /\ AheadOfSeen
  BY <1>1 DEF BehindSender, SequenceIsMonotonic, AheadOfSeen
<1>4. SeenBehindSender /\ ConsumedApplied
  BY <1>2 DEF SeenBehindSender, ConsumedApplied
<1>5. QED
  BY <1>3, <1>4 DEF DeliveryInv

(* A new message is numbered above everything its sender published. *)
LEMMA DeliveryPublishes ==
    ASSUME TypeOK, DeliveryInv, NEW n \in Nodes, NEW msg \in Message, PublishesNext(n, msg)
    PROVE  DeliveryInv'
<1>g. /\ Len(log) \in Nat
      /\ Len(log') = Len(log) + 1
      /\ log'[Len(log) + 1] = msg
      /\ \A k \in 1..Len(log) : log'[k] = log[k] /\ log[k] \in Message
  BY LogGrows
<1>d. DOMAIN log = 1..Len(log) /\ DOMAIN log' = 1..(Len(log) + 1)
  <2>1. log \in Seq(Message) /\ log' \in Seq(Message)
    BY PublishTyped DEF TypeOK, PublishesNext
  <2>2. QED
    BY <1>g, <2>1
<1>m. \A k \in 1..Len(log) : log[k].from \in Nodes /\ log[k].seq \in Nat
  BY <1>g, MessageFields
<1>s. /\ localSeq \in [Nodes -> Nat]
      /\ localSeq' = [localSeq EXCEPT ![n] = @ + 1]
      /\ msg.from = n
      /\ msg.seq = localSeq[n] + 1
      /\ UNCHANGED <<cursor, seen, verified>>
  BY DEF TypeOK, PublishesNext
<1>1. BehindSender'
  <2>1. \A k \in 1..Len(log) : log[k].seq <= localSeq'[log[k].from]
    BY <1>m, <1>s DEF DeliveryInv, BehindSender
  <2>2. msg.seq <= localSeq'[msg.from]
    BY <1>s
  <2>3. QED
    BY <1>g, <2>1, <2>2 DEF BehindSender
<1>2. SequenceIsMonotonic'
  <2>1. ASSUME NEW i \in 1..(Len(log) + 1), NEW j \in 1..(Len(log) + 1), i < j,
               log'[i].from = log'[j].from
        PROVE  log'[i].seq < log'[j].seq
    <3>1. CASE j = Len(log) + 1
      <4>1. i \in 1..Len(log) /\ log'[i] = log[i] /\ log'[j] = msg
        BY <1>g, <2>1, <3>1
      <4>2. log[i].seq <= localSeq[n]
        BY <1>s, <2>1, <4>1 DEF DeliveryInv, BehindSender
      <4>3. QED
        BY <1>m, <1>s, <4>1, <4>2
    <3>2. CASE j # Len(log) + 1
      BY <1>d, <1>g, <2>1, <3>2 DEF DeliveryInv, SequenceIsMonotonic
    <3>3. QED
      BY <3>1, <3>2
  <2>2. QED
    BY <1>d, <2>1 DEF SequenceIsMonotonic
<1>3. AheadOfSeen'
  <2>1. ASSUME NEW m \in Nodes, NEW k \in 1..(Len(log) + 1), k > cursor[m],
               log'[k].from # m
        PROVE  seen[m][log'[k].from] < log'[k].seq
    <3>1. CASE k = Len(log) + 1
      <4>1. seen[m][n] <= localSeq[n] /\ seen[m][n] \in Nat
        BY DEF DeliveryInv, SeenBehindSender, TypeOK
      <4>2. QED
        BY <1>g, <1>s, <3>1, <4>1
    <3>2. CASE k # Len(log) + 1
      BY <1>g, <2>1, <3>2 DEF DeliveryInv, AheadOfSeen
    <3>3. QED
      BY <3>1, <3>2
  <2>2. QED
    BY <1>g, <1>s, <2>1 DEF AheadOfSeen
<1>4. SeenBehindSender'
  <2>1. ASSUME NEW m \in Nodes, NEW w \in Nodes
        PROVE  seen'[m][w] <= localSeq'[w]
    <3>1. seen[m][w] \in Nat /\ seen[m][w] <= localSeq[w]
      BY DEF TypeOK, DeliveryInv, SeenBehindSender
    <3>2. QED
      BY <1>s, <3>1
  <2>2. QED
    BY <2>1 DEF SeenBehindSender
<1>5. ConsumedApplied'
  <2>1. ASSUME NEW m \in Nodes, NEW k \in 1..cursor[m], Acceptable(m, log'[k])
        PROVE  Applied(m, log[k])'
    <3>1. k \in 1..Len(log)
      BY <1>g DEF TypeOK
    <3>2. log'[k] = log[k]
      BY <1>g, <3>1
    <3>3. Applied(m, log[k])
      BY <2>1, <3>2 DEF DeliveryInv, ConsumedApplied
    <3>4. vetoed[m] \subseteq vetoed'[m]
      BY DEF PublishesNext
    <3>5. QED
      BY <1>s, <3>2, <3>3, <3>4 DEF Applied, IsDuplicate
  <2>2. QED
    BY <1>s, <2>1 DEF ConsumedApplied, Acceptable
<1>6. QED
  BY <1>1, <1>2, <1>3, <1>4, <1>5 DEF DeliveryInv

(* An import admits an entry and moves no sequence number. *)
LEMMA DeliveryImports ==
    ASSUME TypeOK, DeliveryInv, NEW n \in Nodes, NEW entry \in Entry,
           WriteTraceRemote(n, entry)
    PROVE  DeliveryInv'
<1>1. UNCHANGED <<log, cursor, localSeq, seen, vetoed>>
  BY DEF WriteTraceRemote, transportVars
<1>2. \A m \in Nodes : verified[m] \subseteq verified'[m]
  BY DEF TypeOK, WriteTraceRemote, VerifiedAfter
<1>3. BehindSender' /\ SequenceIsMonotonic' /\ AheadOfSeen' /\ SeenBehindSender'
  BY <1>1 DEF DeliveryInv, BehindSender, SequenceIsMonotonic, AheadOfSeen, SeenBehindSender
<1>4. \A m \in Nodes : \A msg : Applied(m, msg) => Applied(m, msg)'
  BY <1>1, <1>2 DEF Applied, IsDuplicate
<1>5. ConsumedApplied'
  BY <1>1, <1>4 DEF DeliveryInv, ConsumedApplied, Acceptable
<1>6. QED
  BY <1>3, <1>5 DEF DeliveryInv

(* The first hand-over of an envelope finds it fresh; a later one finds it *)
(* applied.  Either way what was applied before stays applied.             *)
LEMMA DeliveryHandsOver ==
    ASSUME TypeInv, DeliveryInv, NEW n \in Nodes, NEW k \in 1..Len(log),
           HandleInbound(n, log[k]), UNCHANGED log, k <= cursor[n] + 1,
           \/ UNCHANGED cursor /\ k <= cursor[n]
           \/ cursor' = [cursor EXCEPT ![n] = k] /\ k = cursor[n] + 1
    PROVE  DeliveryInv'
<1> DEFINE msg == log[k]
<1>t. /\ log \in Seq(Message) /\ Len(log) \in Nat /\ DOMAIN log = 1..Len(log)
      /\ cursor \in [Nodes -> Nat]
      /\ seen \in [Nodes -> [Nodes -> Nat]]
      /\ localSeq' = localSeq
  BY DEF TypeInv, TypeOK, HandleInbound
<1>m. \A j \in 1..Len(log) : log[j] \in Message /\ log[j].from \in Nodes /\ log[j].seq \in Nat
  BY <1>t, MessageFields
<1>h. /\ \A m, w \in Nodes : \/ seen'[m][w] = seen[m][w]
                             \/ m = n /\ w = msg.from /\ Fresh(n, msg) /\ seen'[m][w] = msg.seq
      /\ \A m \in Nodes : /\ verified[m] \subseteq verified'[m]
                          /\ vetoed[m] \subseteq vetoed'[m]
      /\ Fresh(n, msg) /\ Acceptable(n, msg) => Applied(n, msg)'
  BY <1>m, HandleInboundMonotone
<1>s. \A m, w \in Nodes : /\ seen'[m][w] \in Nat /\ seen[m][w] \in Nat
                          /\ seen[m][w] <= seen'[m][w]
  <2>1. ASSUME NEW m \in Nodes, NEW w \in Nodes
        PROVE  /\ seen'[m][w] \in Nat /\ seen[m][w] \in Nat
               /\ seen[m][w] <= seen'[m][w]
    <3>1. seen[m][w] \in Nat /\ msg.seq \in Nat
      BY <1>t, <1>m
    <3>2. \/ seen'[m][w] = seen[m][w]
          \/ m = n /\ w = msg.from /\ msg.seq > seen[n][msg.from] /\ seen'[m][w] = msg.seq
      BY <1>h DEF Fresh
    <3>3. QED
      BY <3>1, <3>2
  <2>2. QED
    BY <2>1
<1> HIDE DEF msg
<1>1. BehindSender' /\ SequenceIsMonotonic'
  BY <1>t DEF DeliveryInv, BehindSender, SequenceIsMonotonic
<1>2. AheadOfSeen'
  <2>1. ASSUME NEW m \in Nodes, NEW j \in 1..Len(log), j > cursor'[m], log[j].from # m
        PROVE  seen'[m][log[j].from] < log[j].seq
    <3>1. j > cursor[m] /\ (m = n => j > k)
      BY <1>t, <2>1
    <3>2. seen[m][log[j].from] < log[j].seq
      BY <2>1, <3>1 DEF DeliveryInv, AheadOfSeen
    <3>3. CASE seen'[m][log[j].from] = seen[m][log[j].from]
      BY <3>2, <3>3
    <3>4. CASE m = n /\ log[j].from = msg.from /\ seen'[m][log[j].from] = msg.seq
      BY <1>t, <3>1, <3>4 DEF DeliveryInv, SequenceIsMonotonic, msg
    <3>5. QED
      BY <1>m, <1>h, <3>3, <3>4
  <2>2. QED
    BY <2>1 DEF AheadOfSeen
<1>3. SeenBehindSender'
  <2>1. ASSUME NEW m \in Nodes, NEW w \in Nodes PROVE seen'[m][w] <= localSeq[w]
    <3>1. CASE seen'[m][w] = seen[m][w]
      BY <3>1 DEF DeliveryInv, SeenBehindSender
    <3>2. CASE w = msg.from /\ seen'[m][w] = msg.seq
      BY <3>2 DEF DeliveryInv, BehindSender, msg
    <3> QED BY <1>h, <3>1, <3>2
  <2> QED BY <1>t, <2>1 DEF SeenBehindSender
<1>4. ASSUME NEW m \in Nodes, NEW j \in 1..Len(log), Applied(m, log[j])
      PROVE  Applied(m, log[j])'
  <2>1. log[j].seq <= seen'[m][log[j].from]
    BY <1>m, <1>s, <1>4 DEF Applied
  <2>2. verified[m] \subseteq verified'[m] /\ vetoed[m] \subseteq vetoed'[m]
    BY <1>h
  <2>3. QED
    BY <1>4, <2>1, <2>2 DEF Applied, IsDuplicate
<1>5. ConsumedApplied'
  <2>1. ASSUME NEW m \in Nodes, NEW j \in 1..cursor'[m], Acceptable(m, log[j])
        PROVE  Applied(m, log[j])'
    <3>1. CASE j \in 1..cursor[m]
      <4>1. j \in 1..Len(log)
        BY <1>t, <3>1 DEF TypeInv, TypeOK
      <4>2. QED
        BY <1>4, <2>1, <3>1, <4>1 DEF DeliveryInv, ConsumedApplied
    <3>2. CASE j \notin 1..cursor[m]
      <4>1. m = n /\ j = k /\ k > cursor[n]
        BY <1>t, <2>1, <3>2
      <4>2. Fresh(n, log[k])
        BY <1>m, <2>1, <4>1 DEF DeliveryInv, AheadOfSeen, Fresh, Acceptable
      <4>3. QED
        BY <1>h, <2>1, <4>1, <4>2 DEF msg
    <3>3. QED
      BY <3>1, <3>2
  <2>2. QED
    BY <2>1 DEF ConsumedApplied, Acceptable
<1>6. QED
  BY <1>1, <1>2, <1>3, <1>5 DEF DeliveryInv

LEMMA DeliveryStep == TypeInv /\ DeliveryInv /\ [Next]_vars => DeliveryInv'
<1> SUFFICES ASSUME TypeInv, DeliveryInv, [Next]_vars PROVE DeliveryInv'
  OBVIOUS
<1>t. TypeOK
  BY DEF TypeInv
<1>1. CASE \E n \in Nodes, msg \in Message : PublishesNext(n, msg)
  BY <1>t, <1>1, DeliveryPublishes
<1>2. CASE \E n \in Nodes, entry \in Importable \cap Entry : WriteTraceRemote(n, entry)
  BY <1>t, <1>2, DeliveryImports
<1>3. ASSUME NEW n \in Nodes, Deliver(n) PROVE DeliveryInv'
  <2>1. /\ HandleInbound(n, log[cursor[n] + 1])
        /\ cursor' = [cursor EXCEPT ![n] = cursor[n] + 1]
        /\ UNCHANGED log
        /\ cursor[n] + 1 \in 1..Len(log)
    BY <1>t, <1>3, NextMessageTyped DEF Deliver, Consume, NextMessage
  <2> DEFINE k == cursor[n] + 1
  <2>2. k <= cursor[n] + 1
    BY <1>t DEF TypeOK
  <2>3. QED
    BY <2>1, <2>2, DeliveryHandsOver
<1>4. ASSUME NEW n \in Nodes, Redeliver(n) PROVE DeliveryInv'
  <2>1. PICK k \in 1..cursor[n] : HandleInbound(n, log[k])
    BY <1>4 DEF Redeliver
  <2>2. k \in 1..Len(log) /\ k <= cursor[n] /\ k <= cursor[n] + 1
    BY <1>t DEF TypeOK
  <2>3. UNCHANGED log /\ UNCHANGED cursor
    BY <1>4 DEF Redeliver, transportVars
  <2>4. QED
    BY <2>1, <2>2, <2>3, DeliveryHandsOver
<1>5. CASE UNCHANGED vars
  BY <1>5 DEF vars, transportVars, stigmergyVars, DeliveryInv, BehindSender,
     SequenceIsMonotonic, AheadOfSeen, SeenBehindSender, ConsumedApplied, Acceptable,
     Applied, IsDuplicate
<1>6. QED
  BY <1>1, <1>2, <1>3, <1>4, <1>5, StepKinds

LEMMA DeliveryInvariant == Spec => [](TypeInv /\ DeliveryInv)
<1>1. Init => TypeInv /\ DeliveryInv
  BY TypeInit, DeliveryInit
<1>2. TypeInv /\ DeliveryInv /\ [Next]_vars => (TypeInv /\ DeliveryInv)'
  BY TypeStep, DeliveryStep
<1>3. QED
  BY <1>1, <1>2, PTL DEF Spec

-----------------------------------------------------------------------------
(* What delivery promises. *)

(* Whatever a peer sent that n was handed and that verifies is in n's      *)
(* state: the sequence filter of handleInbound never takes a new message   *)
(* for an old one, however deliveries, repetitions and imports interleave. *)
THEOREM NothingIsLost == Spec => []NothingLost
<1>1. TypeInv /\ DeliveryInv => NothingLost
  <2> SUFFICES ASSUME DeliveryInv, NEW n \in Nodes, NEW k \in 1..cursor[n],
                      log[k].from # n
               PROVE  /\ log[k].type = "trace" /\ log[k].intact => IsDuplicate(n, log[k].body)
                      /\ log[k].type = "veto" => log[k].body \in vetoed[n]
    BY DEF NothingLost, Consumed
  <2>1. QED
    BY DEF DeliveryInv, ConsumedApplied, Acceptable, Applied
<1>2. QED
  BY <1>1, DeliveryInvariant, PTL

(* handleInbound's dedup: an envelope handed over again changes nothing.   *)
LEMMA RedeliverIdle ==
    ASSUME TypeInv, DeliveryInv, NEW n \in Nodes, Redeliver(n)
    PROVE  UNCHANGED stigmergyVars
<1>1. PICK k \in 1..cursor[n] : HandleInbound(n, log[k])
  BY DEF Redeliver
<1>2. log[k] \in Message /\ log[k].from \in Nodes /\ log[k].seq \in Nat
  BY MessageFields DEF TypeInv, TypeOK
<1>3. seen[n][log[k].from] \in Nat
  BY <1>2 DEF TypeInv, TypeOK
<1>4. ~(Fresh(n, log[k]) /\ Acceptable(n, log[k]))
  BY <1>2, <1>3 DEF DeliveryInv, ConsumedApplied, Applied, Fresh
<1>5. UNCHANGED replicaVars
  BY <1>1, <1>4 DEF HandleInbound, HandleTrace, HandleVeto, HandleCapability, Fresh, Acceptable
<1>6. QED
  BY <1>1, <1>5 DEF HandleInbound, replicaVars, stigmergyVars

(* A repetition, whatever was delivered, vetoed or imported in between,    *)
(* leaves all of the node's state as it is.                                *)
THEOREM RedeliveryChangesNothing == Spec => RedeliveryIsIdempotent
<1>1. TypeInv /\ DeliveryInv /\ [Next]_vars
        => [\A n \in Nodes : Redeliver(n) => UNCHANGED stigmergyVars]_vars
  BY RedeliverIdle
<1>2. QED
  BY <1>1, DeliveryInvariant, PTL DEF Spec, RedeliveryIsIdempotent

-----------------------------------------------------------------------------
(* Capabilities: what a node believes of a peer is the newest of what it   *)
(* was handed.                                                             *)

(* The announcements of w that n was handed, by their place in the log.    *)
Announced(n, w) == {k \in 1..cursor[n] : log[k].from = w /\ log[k].type = "capability"}
NewestOf(n, w, cuda) ==
    \E k \in Announced(n, w) : (\A j \in Announced(n, w) : j <= k) /\ cuda = log[k].body

LEMMA CapabilityMeaning ==
    CapabilityIsCurrent <=>
        \A n, w \in Nodes : w # n /\ Announced(n, w) # {} => NewestOf(n, w, caps[n][w])
BY DEF CapabilityIsCurrent, Announced, NewestOf

(* A hand-over that is ignored or carries something else leaves the belief *)
(* alone; a fresh announcement replaces it.                                *)
LEMMA HandleInboundCaps ==
    ASSUME TypeInv, NEW n \in Nodes, NEW msg \in Message, HandleInbound(n, msg)
    PROVE  /\ \A m, w \in Nodes : ~(m = n /\ w = msg.from /\ msg.type = "capability")
                                      => caps'[m][w] = caps[m][w]
           /\ Fresh(n, msg) /\ msg.type = "capability" => caps'[n][msg.from] = msg.body
<1> USE DEF TypeInv, TypeOK
<1>m. msg.from \in Nodes
  BY MessageFields
<1>1. CASE UNCHANGED replicaVars /\ Ignored(n, msg)
  BY <1>1 DEF replicaVars, Ignored
<1>2. CASE HandleTrace(n, msg) \/ HandleVeto(n, msg)
  BY <1>2 DEF HandleTrace, HandleVeto
<1>3. CASE HandleCapability(n, msg)
  BY <1>m, <1>3 DEF HandleCapability
<1>4. QED
  BY <1>1, <1>2, <1>3 DEF HandleInbound

(* Nothing changes for a pair of nodes whose announcements and belief are  *)
(* what they were.                                                         *)
LEMMA NewestKept ==
    ASSUME NEW n \in Nodes, NEW w \in Nodes, NewestOf(n, w, caps[n][w]),
           Announced(n, w)' = Announced(n, w), caps'[n][w] = caps[n][w],
           \A k \in Announced(n, w) : log'[k] = log[k]
    PROVE  NewestOf(n, w, caps[n][w])'
BY DEF NewestOf

LEMMA CapabilityStep ==
    ASSUME TypeInv, DeliveryInv, CapabilityIsCurrent, [Next]_vars
    PROVE  CapabilityIsCurrent'
<1>o. TypeOK
  BY DEF TypeInv
<1>t. /\ log \in Seq(Message) /\ Len(log) \in Nat
      /\ cursor \in [Nodes -> Nat]
      /\ \A n \in Nodes : cursor[n] <= Len(log)
  BY DEF TypeInv, TypeOK
<1> SUFFICES ASSUME NEW n \in Nodes, NEW w \in Nodes, w # n, Announced(n, w)' # {}
             PROVE  NewestOf(n, w, caps[n][w])'
  <2>1. (\A n, w \in Nodes : w # n /\ Announced(n, w) # {} => NewestOf(n, w, caps[n][w]))'
            => CapabilityIsCurrent'
    BY DEF CapabilityIsCurrent, Announced, NewestOf
  <2> QED BY <2>1
<1>i. Announced(n, w) # {} => NewestOf(n, w, caps[n][w])
  BY CapabilityMeaning
<1>1. ASSUME NEW m \in Nodes, NEW msg \in Message, PublishesNext(m, msg)
      PROVE  NewestOf(n, w, caps[n][w])'
  <2>0. \A k \in 1..Len(log) : log'[k] = log[k]
    BY <1>o, <1>1, LogGrows
  <2>1. /\ cursor' = cursor /\ caps'[n][w] = caps[n][w]
        /\ \A k \in 1..cursor[n] : log'[k] = log[k]
    BY <1>t, <1>1, <2>0 DEF PublishesNext
  <2>2. Announced(n, w)' = Announced(n, w)
    BY <2>1 DEF Announced
  <2>3. \A k \in Announced(n, w) : log'[k] = log[k]
    BY <2>1 DEF Announced
  <2> QED BY <1>i, <2>1, <2>2, <2>3, NewestKept
<1>2. CASE UNCHANGED <<log, cursor, caps>>
  BY <1>i, <1>2 DEF NewestOf, Announced
<1>3. ASSUME NEW m \in Nodes, Deliver(m) PROVE NewestOf(n, w, caps[n][w])'
  <2> DEFINE k == cursor[m] + 1
             msg == log[k]
  <2>1. /\ HandleInbound(m, msg) /\ msg \in Message /\ msg.from \in Nodes /\ msg.seq \in Nat
        /\ cursor' = [cursor EXCEPT ![m] = k]
        /\ log' = log
        /\ k \in 1..Len(log)
    BY <1>t, <1>3, NextMessageTyped, MessageFields DEF Deliver, Consume, NextMessage, TypeInv
  <2>2. CASE m = n /\ msg.from = w /\ msg.type = "capability"
    <3>1. Fresh(n, msg)
      BY <2>1, <2>2, <1>t DEF Fresh, DeliveryInv, AheadOfSeen
    <3>2. caps'[n][w] = msg.body
      BY <2>1, <2>2, <3>1, HandleInboundCaps
    <3>3. k \in Announced(n, w)' /\ \A j \in Announced(n, w)' : j <= k
      BY <1>t, <2>1, <2>2 DEF Announced
    <3> QED BY <2>1, <3>2, <3>3 DEF NewestOf
  <2>3. CASE ~(m = n /\ msg.from = w /\ msg.type = "capability")
    <3>1. caps'[n][w] = caps[n][w]
      BY <2>1, <2>3, HandleInboundCaps
    <3>2. Announced(n, w)' = Announced(n, w)
      BY <1>t, <2>1, <2>3 DEF Announced
    <3> QED BY <1>i, <2>1, <3>1, <3>2, NewestKept
  <2> QED BY <2>2, <2>3
<1>4. ASSUME NEW m \in Nodes, Redeliver(m) PROVE NewestOf(n, w, caps[n][w])'
  BY <1>2, <1>4, RedeliverIdle DEF stigmergyVars, Redeliver, transportVars
<1>5. ASSUME NEW m \in Nodes, NEW entry \in Entry, WriteTraceRemote(m, entry)
      PROVE  NewestOf(n, w, caps[n][w])'
  BY <1>2, <1>5 DEF WriteTraceRemote, transportVars
<1>6. CASE UNCHANGED vars
  BY <1>2, <1>6 DEF vars, transportVars, stigmergyVars
<1>7. QED
  BY <1>1, <1>3, <1>4, <1>5, <1>6, StepKinds

(* A node's view of a peer's CUDA support is the newest advertisement it   *)
(* was handed: an older one that comes again, or comes between, never      *)
(* replaces it (nodeCapabilities).                                         *)
THEOREM CapabilitiesAreCurrent == Spec => []CapabilityIsCurrent
<1>1. Init => CapabilityIsCurrent
  BY DEF Init, TransportInit, CapabilityIsCurrent
<1>2. QED
  BY <1>1, CapabilityStep, DeliveryInvariant, PTL DEF Spec

-----------------------------------------------------------------------------
(* Roots and replay.  In a cluster that imports no bundles every trace was *)
(* minted by its writer, so the traces of a writer are a chain in the log, *)
(* and what a node holds of it is a part without holes that ends with the  *)
(* trace its root names.                                                   *)

TracesOf(w) == {k \in 1..Len(log) : log[k].type = "trace" /\ log[k].from = w}

(* Ids and hashes are handed out together; a parent is minted before.      *)
WellMinted(e, newest) ==
    /\ e.id = e.hash /\ e.clusterHash = e.hash
    /\ e.hash <= newest /\ e.parent < e.hash

(* Traces stand in the log in minting order, each under its writer's name. *)
LogMinted ==
    /\ \A k \in 1..Len(log) : log[k].type = "trace" =>
          WellMinted(log[k].body, minted) /\ log[k].body.writer = log[k].from
    /\ \A i, j \in 1..Len(log) :
          i < j /\ log[i].type = "trace" /\ log[j].type = "trace" => log[i].body.hash < log[j].body.hash

(* A window holds its node's own traces, each the parent of the next.      *)
WindowChained ==
    \A n \in Nodes :
        /\ \A i \in 1..Len(window[n]) : /\ WellMinted(window[n][i], minted)
                                        /\ window[n][i].writer = n
        /\ \A i, j \in 1..Len(window[n]) : i < j => window[n][i].hash < window[n][j].hash
        /\ \A i \in 1..Len(window[n]) :
              i > 1 => window[n][i].parent = window[n][i - 1].hash

(* The newest trace of a window is the newest its node published.          *)
RootIsLatest ==
    \A n \in Nodes :
        /\ \A k \in TracesOf(n) : log[k].body.hash <= LocalRoot(n)
        /\ LocalRoot(n) = NoHash \/ \E k \in TracesOf(n) : log[k].body.hash = LocalRoot(n)

(* In the log every trace follows an earlier one of its writer or opens    *)
(* the writer's chain, and every trace but the newest has a successor.     *)
LogChained ==
    \A w \in Nodes : \A k \in TracesOf(w) :
        /\ log[k].body.parent # NoHash =>
              \E j \in TracesOf(w) : j < k /\ log[j].body.hash = log[k].body.parent
        /\ \A j \in TracesOf(w) : j < k =>
              \E m \in TracesOf(w) : /\ j < m /\ m <= k
                                     /\ log[m].body.parent = log[j].body.hash

(* What a node admitted was sent by a peer and handed to it.               *)
AdmittedWasHanded ==
    \A n \in Nodes : \A e \in verified[n] :
        e.writer # n /\ \E k \in 1..cursor[n] : log[k].type = "trace" /\ log[k].body = e

(* The root a node knows of a peer is the newest trace it admitted.        *)
RootsFollow ==
    \A n, w \in Nodes :
        /\ \A e \in verified[n] : e.writer = w => e.hash <= remoteRoots[n][w]
        /\ \/ remoteRoots[n][w] = NoHash
           \/ \E e \in verified[n] : e.writer = w /\ e.hash = remoteRoots[n][w]

TracesIntact == \A k \in 1..Len(log) : log[k].type = "trace" => log[k].intact \/ MutatingCallers

ChainInv ==
    /\ LogMinted
    /\ WindowChained
    /\ RootIsLatest
    /\ LogChained
    /\ AdmittedWasHanded
    /\ RootsFollow
    /\ TracesIntact

(* Retaining keeps the end of a list, and at least its last element.       *)
LEMMA RetainIsSuffix ==
    ASSUME NEW S, NEW s \in Seq(S), s # <<>>
    PROVE  \E d \in Nat : /\ Len(Retain(s)) = Len(s) - d /\ Len(Retain(s)) \in Nat \ {0}
                          /\ \A i \in 1..Len(Retain(s)) : Retain(s)[i] = s[i + d]
<1>1. Capacity \in Nat \ {0} /\ Len(s) \in Nat \ {0}
  BY StigmergyAssumption, EmptySeq DEF StigmergyAssumption
<1>2. CASE Len(s) > Capacity
  <2> DEFINE d == Len(s) - Capacity
             r == SubSeq(s, d + 1, Len(s))
  <2>1. d \in Nat /\ d + 1 \in 1..Len(s)
    BY <1>1, <1>2
  <2>2. Len(r) = Len(s) - d /\ \A i \in 1..Len(r) : r[i] = s[i + d]
    BY <1>1, <2>1, SubSeqProperties
  <2>3. Retain(s) = r
    BY <1>1, <1>2 DEF Retain
  <2>4. Len(s) - d \in Nat \ {0}
    BY <1>1, <1>2
  <2> HIDE DEF r, d
  <2> QED BY <2>1, <2>2, <2>3, <2>4
<1>3. CASE ~(Len(s) > Capacity)
  <2>1. Retain(s) = s
    BY <1>3 DEF Retain
  <2>2. \A i \in 1..Len(s) : s[i] = s[i + 0]
    BY <1>1
  <2> QED BY <1>1, <2>1, <2>2
<1> QED BY <1>2, <1>3

(* Everything a minting leaves in the window is what was there, moved, or  *)
(* the new trace at its end.                                               *)
LEMMA WindowGrows ==
    ASSUME TypeOK, NEW n \in Nodes, NEW e \in Entry, MintsAt(n, e)
    PROVE  /\ Len(window[n]) \in Nat /\ Len(window'[n]) \in Nat \ {0}
           /\ window'[n][Len(window'[n])] = e
           /\ \E d \in Nat : /\ Len(window'[n]) = Len(window[n]) + 1 - d
                             /\ \A i \in 1..(Len(window'[n]) - 1) : /\ i + d \in 1..Len(window[n])
                                                                    /\ window'[n][i] = window[n][i + d]
           /\ \A m \in Nodes : m # n => window'[m] = window[m]
           /\ LocalRoot(n)' = e.hash
<1> DEFINE s == Append(window[n], e)
<1>1. window[n] \in Seq(Entry) /\ window'[n] = Retain(s) /\ \A m \in Nodes : m # n => window'[m] = window[m]
  BY DEF TypeOK, MintsAt
<1>2. /\ s \in Seq(Entry) /\ s # <<>> /\ Len(s) = Len(window[n]) + 1 /\ Len(window[n]) \in Nat
      /\ s[Len(s)] = e /\ \A i \in 1..Len(window[n]) : s[i] = window[n][i]
  BY <1>1
<1> HIDE DEF s
<1>3. PICK d \in Nat : /\ Len(Retain(s)) = Len(s) - d /\ Len(Retain(s)) \in Nat \ {0}
                       /\ \A i \in 1..Len(Retain(s)) : Retain(s)[i] = s[i + d]
  BY <1>2, RetainIsSuffix
<1>4. window'[n][Len(window'[n])] = e
  <2>1. Len(Retain(s)) \in 1..Len(Retain(s)) /\ Len(Retain(s)) + d = Len(s)
    BY <1>2, <1>3
  <2> QED BY <1>1, <1>2, <1>3, <2>1
<1>5. /\ Len(window'[n]) = Len(window[n]) + 1 - d
      /\ \A i \in 1..(Len(window'[n]) - 1) : /\ i + d \in 1..Len(window[n])
                                             /\ window'[n][i] = window[n][i + d]
  <2>1. window'[n] = Retain(s) /\ Len(Retain(s)) = Len(window[n]) + 1 - d
    BY <1>1, <1>2, <1>3
  <2>2. ASSUME NEW i \in 1..(Len(Retain(s)) - 1)
        PROVE  i + d \in 1..Len(window[n]) /\ Retain(s)[i] = window[n][i + d]
    <3>1. i \in 1..Len(Retain(s)) /\ i + d \in 1..Len(window[n])
      BY <1>2, <1>3, <2>1
    <3>2. Retain(s)[i] = s[i + d]
      BY <1>3, <3>1
    <3> QED BY <1>2, <3>1, <3>2
  <2> QED BY <2>1, <2>2
<1>6. LocalRoot(n)' = e.hash
  <2>1. window'[n] # <<>>
    BY <1>1, <1>3
  <2> QED BY <1>4, <2>1 DEF LocalRoot
<1> QED BY <1>1, <1>2, <1>3, <1>4, <1>5, <1>6

LEMMA ChainInit == Init => ChainInv
<1> SUFFICES ASSUME Init PROVE ChainInv
  OBVIOUS
<1>1. /\ log = <<>> /\ Len(log) = 0 /\ Len(<<>>) = 0 /\ minted = 0
      /\ verified = [n \in Nodes |-> {}]
      /\ window = [n \in Nodes |-> <<>>]
      /\ remoteRoots = [n \in Nodes |-> [w \in Nodes |-> NoHash]]
  BY DEF Init, TransportInit, StigmergyInit
<1>2. LogMinted /\ LogChained /\ TracesIntact
  BY <1>1 DEF LogMinted, LogChained, TracesIntact, TracesOf
<1>3. WindowChained
  <2>1. \A n \in Nodes : window[n] = <<>> /\ Len(window[n]) = 0
    BY <1>1
  <2>2. \A n \in Nodes : \A i \in 1..Len(window[n]) : FALSE
    BY <2>1
  <2> QED BY <2>2 DEF WindowChained
<1>4. RootIsLatest
  <2>1. \A n \in Nodes : \A k \in TracesOf(n) : FALSE
    BY <1>1 DEF TracesOf
  <2>2. \A n \in Nodes : LocalRoot(n) = NoHash
    BY <1>1 DEF LocalRoot
  <2> QED BY <2>1, <2>2 DEF RootIsLatest
<1>5. AdmittedWasHanded /\ RootsFollow
  BY <1>1 DEF AdmittedWasHanded, RootsFollow
<1> QED BY <1>2, <1>3, <1>4, <1>5 DEF ChainInv

(* A veto or an announcement is no part of any chain.                      *)
LEMMA ChainPublishesOther ==
    ASSUME TypeOK, ChainInv, NEW n \in Nodes, NEW msg \in Message, PublishesNext(n, msg),
           msg.type # "trace"
    PROVE  ChainInv'
<1>1. /\ Len(log) \in Nat /\ Len(log') = Len(log) + 1 /\ log'[Len(log) + 1] = msg
      /\ \A k \in 1..Len(log) : log'[k] = log[k]
  BY LogGrows
<1>2. UNCHANGED <<minted, window, cursor, verified, remoteRoots>>
  BY DEF PublishesNext
<1>3. \A k \in 1..Len(log') : log'[k].type = "trace" => k \in 1..Len(log) /\ log[k].type = "trace"
  BY <1>1
<1>4. \A k \in 1..Len(log) : log'[k].type = "trace" <=> log[k].type = "trace"
  BY <1>1
<1>5. \A w : TracesOf(w)' = TracesOf(w)
  BY <1>1, <1>3, <1>4 DEF TracesOf
<1>6. \A e : WellMinted(e, minted') <=> WellMinted(e, minted)
  BY <1>2 DEF WellMinted
<1>7. \A m \in Nodes : LocalRoot(m)' = LocalRoot(m)
  BY <1>2 DEF LocalRoot
<1>8. LogMinted'
  BY <1>1, <1>3, <1>6 DEF ChainInv, LogMinted
<1>9. TracesIntact'
  BY <1>1, <1>3 DEF ChainInv, TracesIntact
<1>10. WindowChained'
  BY <1>2, <1>6 DEF ChainInv, WindowChained
<1>11. RootIsLatest'
  <2>1. \A w : \A k \in TracesOf(w) : log'[k] = log[k]
    BY <1>1 DEF TracesOf
  <2> QED BY <1>5, <1>7, <2>1 DEF ChainInv, RootIsLatest
<1>12. LogChained'
  <2>1. \A w : \A k \in TracesOf(w) : log'[k] = log[k]
    BY <1>1 DEF TracesOf
  <2> QED BY SMTT(30), <1>5, <2>1 DEF ChainInv, LogChained
<1>13. AdmittedWasHanded'
  <2>1. \A m \in Nodes : \A k \in 1..cursor[m] : k \in 1..Len(log)
    BY DEF TypeOK
  <2> QED BY <1>1, <1>2, <1>4, <2>1 DEF ChainInv, AdmittedWasHanded
<1>14. RootsFollow'
  BY <1>2 DEF ChainInv, RootsFollow
<1> QED BY <1>8, <1>9, <1>10, <1>11, <1>12, <1>13, <1>14 DEF ChainInv

(* A recorded trace follows the newest of its writer, in the log and in    *)
(* the window.                                                             *)
LEMMA ChainPublishesTrace ==
    ASSUME TypeOK, ChainInv, NEW n \in Nodes, NEW msg \in Message, PublishesNext(n, msg),
           msg.type = "trace"
    PROVE  ChainInv'
<1> DEFINE e == msg.body
<1>0. PICK K : K = Len(log) + 1
  OBVIOUS
<1>1. /\ Len(log) \in Nat /\ Len(log') = K /\ K = Len(log) + 1 /\ log'[K] = msg
      /\ \A k \in 1..Len(log) : log'[k] = log[k] /\ log[k] \in Message
  BY <1>0, LogGrows
<1>2. /\ UNCHANGED <<cursor, verified, remoteRoots>>
      /\ msg.from = n /\ MintsAt(n, e) /\ (msg.intact \/ MutatingCallers)
  BY DEF PublishesNext
<1>3. e \in Entry /\ minted \in Nat /\ LocalRoot(n) \in Nat
  BY MessageFields, LocalRootTyped DEF TypeOK
<1>4. /\ Len(window[n]) \in Nat /\ Len(window'[n]) \in Nat \ {0}
      /\ window'[n][Len(window'[n])] = e
      /\ \E d \in Nat : /\ Len(window'[n]) = Len(window[n]) + 1 - d
                        /\ \A i \in 1..(Len(window'[n]) - 1) : /\ i + d \in 1..Len(window[n])
                                                               /\ window'[n][i] = window[n][i + d]
      /\ \A m \in Nodes : m # n => window'[m] = window[m]
      /\ LocalRoot(n)' = e.hash
  BY <1>2, <1>3, WindowGrows
<1>5. /\ e.writer = n /\ e.parent = LocalRoot(n)
      /\ e.id = minted + 1 /\ e.hash = minted + 1 /\ e.clusterHash = minted + 1
      /\ minted' = minted + 1
  BY <1>2 DEF MintsAt
<1> HIDE DEF e
<1>6. \A k \in 1..Len(log) : log'[k].type = "trace" <=> log[k].type = "trace"
  BY <1>1
<1>7. log'[K].type = "trace"
  BY <1>1
<1>8. \A w \in Nodes : /\ w # n => TracesOf(w)' = TracesOf(w)
                       /\ TracesOf(n)' = TracesOf(n) \cup {K}
                       /\ \A k \in TracesOf(w) : /\ k \in 1..Len(log) /\ log[k].type = "trace"
                                                 /\ log[k].from = w /\ log'[k] = log[k]
  BY <1>1, <1>2, <1>6, <1>7 DEF TracesOf
<1>9. LocalRoot(n) <= minted
  <2>1. CASE window[n] = <<>>
    BY <1>3, <2>1 DEF LocalRoot, NoHash
  <2>2. CASE window[n] # <<>>
    <3>1. window[n] \in Seq(Entry)
      BY DEF TypeOK
    <3>2. Len(window[n]) \in 1..Len(window[n])
      BY <2>2, <3>1, EmptySeq
    <3> QED BY <2>2, <3>2 DEF LocalRoot, ChainInv, WindowChained, WellMinted
  <2> QED BY <2>1, <2>2
<1>10. WellMinted(e, minted')
  BY <1>3, <1>5, <1>9 DEF WellMinted
<1>11. \A f \in Entry : WellMinted(f, minted) => WellMinted(f, minted') /\ f.hash < e.hash
  BY <1>3, <1>5 DEF WellMinted, Entry
<1>12. LogMinted'
  <2>1. \A k \in 1..K : log'[k].type = "trace" => WellMinted(log'[k].body, minted') /\ log'[k].body.writer = log'[k].from
    <3>1. \A k \in 1..Len(log) : log[k].type = "trace" => log[k].body \in Entry
      BY <1>1, MessageFields
    <3> QED BY <1>1, <1>2, <1>5, <1>6, <1>10, <1>11, <3>1 DEF ChainInv, LogMinted, e
  <2>2. ASSUME NEW i \in 1..K, NEW j \in 1..K, i < j, log'[i].type = "trace", log'[j].type = "trace"
        PROVE  log'[i].body.hash < log'[j].body.hash
    <3>1. i \in 1..Len(log) /\ log[i].type = "trace" /\ log'[i] = log[i] /\ log[i].body \in Entry
      BY <1>1, <1>6, <2>2, MessageFields
    <3>2. CASE j = K
      BY <1>1, <1>11, <3>1, <3>2 DEF ChainInv, LogMinted, e
    <3>3. CASE j # K
      BY <1>1, <1>6, <2>2, <3>1, <3>3 DEF ChainInv, LogMinted
    <3> QED BY <3>2, <3>3
  <2> QED BY <1>1, <2>1, <2>2 DEF LogMinted
<1>13. WindowChained'
  <2> SUFFICES ASSUME NEW m \in Nodes
               PROVE  /\ \A i \in 1..Len(window'[m]) : /\ WellMinted(window'[m][i], minted')
                                                       /\ window'[m][i].writer = m
                      /\ \A i, j \in 1..Len(window'[m]) :
                            i < j => window'[m][i].hash < window'[m][j].hash
                      /\ \A i \in 1..Len(window'[m]) :
                            i > 1 => window'[m][i].parent = window'[m][i - 1].hash
    BY DEF WindowChained
  <2>w. \A i \in 1..Len(window[m]) : /\ window[m][i] \in Entry
                                     /\ WellMinted(window[m][i], minted) /\ window[m][i].writer = m
    BY SMTT(30) DEF TypeOK, ChainInv, WindowChained
  <2>1. CASE m # n
    <3>1. window'[m] = window[m]
      BY <1>4, <2>1
    <3>2. \A i \in 1..Len(window[m]) : WellMinted(window[m][i], minted')
      BY <1>11, <2>w
    <3>3. /\ \A i, j \in 1..Len(window[m]) : i < j => window[m][i].hash < window[m][j].hash
          /\ \A i \in 1..Len(window[m]) : i > 1 => window[m][i].parent = window[m][i - 1].hash
      BY DEF ChainInv, WindowChained
    <3> HIDE DEF ChainInv
    <3> QED BY <2>w, <3>1, <3>2, <3>3
  <2>2. CASE m = n
    <3> DEFINE L == Len(window'[n])
    <3>1. PICK d \in Nat : /\ L = Len(window[n]) + 1 - d
                           /\ \A i \in 1..(L - 1) : /\ i + d \in 1..Len(window[n])
                                                    /\ window'[n][i] = window[n][i + d]
      BY <1>4
    <3>2. L \in Nat \ {0} /\ window'[n][L] = e
      BY <1>4
    <3> HIDE DEF L
    <3>3. \A i \in 1..L : i = L \/ i \in 1..(L - 1)
      BY <3>2
    <3>4. \A i \in 1..L : WellMinted(window'[n][i], minted') /\ window'[n][i].writer = n
      <4>1. WellMinted(window'[n][L], minted') /\ window'[n][L].writer = n
        BY <1>5, <1>10, <3>2
      <4>2. ASSUME NEW i \in 1..(L - 1)
            PROVE  WellMinted(window'[n][i], minted') /\ window'[n][i].writer = n
        <5>1. i + d \in 1..Len(window[n]) /\ window'[n][i] = window[n][i + d]
          BY <3>1
        <5>2. /\ window[n][i + d] \in Entry /\ WellMinted(window[n][i + d], minted)
              /\ window[n][i + d].writer = n
          BY <2>w, <2>2, <5>1
        <5> QED BY <1>11, <5>1, <5>2
      <4> QED BY <3>3, <4>1, <4>2
    <3>5. ASSUME NEW i \in 1..L, NEW j \in 1..L, i < j
          PROVE  window'[n][i].hash < window'[n][j].hash
      <4>1. i \in 1..(L - 1)
        BY <3>2, <3>5
      <4>2. CASE j = L
        BY <1>11, <2>w, <2>2, <3>1, <3>2, <4>1, <4>2
      <4>3. CASE j # L
        <5>1. j \in 1..(L - 1) /\ i + d < j + d
          BY <3>2, <3>5, <4>3
        <5> QED BY <3>1, <4>1, <5>1 DEF ChainInv, WindowChained
      <4> QED BY <4>2, <4>3
    <3>6. ASSUME NEW i \in 1..L, i > 1
          PROVE  window'[n][i].parent = window'[n][i - 1].hash
      <4>1. i - 1 \in 1..(L - 1)
        BY <3>2, <3>6
      <4>2. CASE i = L
        <5>1. window[n][Len(window[n])].hash = LocalRoot(n)
          <6>1. Len(window[n]) >= 1
            BY <1>4, <3>1, <4>1
          <6>2. window[n] # <<>>
            BY <6>1
          <6> QED BY <6>2 DEF LocalRoot
        <5>2. (i - 1) + d = Len(window[n])
          BY <1>4, <3>1, <3>2, <4>2
        <5> QED BY <1>5, <3>1, <3>2, <4>1, <4>2, <5>1, <5>2
      <4>3. CASE i # L
        <5>1. i \in 1..(L - 1) /\ i + d > 1 /\ (i + d) - 1 = (i - 1) + d
          BY <3>2, <3>6, <4>3
        <5>2. i + d \in 1..Len(window[n]) /\ window'[n][i] = window[n][i + d]
          BY <3>1, <5>1
        <5>3. window[n][i + d].parent = window[n][(i + d) - 1].hash
          BY <5>1, <5>2 DEF ChainInv, WindowChained
        <5>4. window'[n][i - 1] = window[n][(i - 1) + d]
          BY <3>1, <4>1
        <5> QED BY <5>1, <5>2, <5>3, <5>4
      <4> QED BY <4>2, <4>3
    <3> QED BY <2>2, <3>4, <3>5, <3>6 DEF L
  <2> QED BY <2>1, <2>2
<1>14. RootIsLatest'
  <2>1. \A m \in Nodes : m # n => LocalRoot(m)' = LocalRoot(m)
    BY <1>4 DEF LocalRoot
  <2>2. \A k \in TracesOf(n) : log[k].body.hash <= e.hash
    <3>1. \A k \in TracesOf(n) : log[k].body \in Entry /\ WellMinted(log[k].body, minted)
      BY <1>1, <1>8, MessageFields DEF ChainInv, LogMinted
    <3> QED BY <1>11, <3>1, <1>3 DEF Entry
  <2>3. log'[K].body.hash = e.hash /\ e.hash <= e.hash
    BY <1>1, <1>3, <1>5 DEF e
  <2> QED BY SMTT(30), <1>4, <1>8, <2>1, <2>2, <2>3 DEF ChainInv, RootIsLatest
<1>15. LogChained'
  <2>1. ASSUME NEW w \in Nodes, NEW k \in TracesOf(w)'
        PROVE  /\ log'[k].body.parent # NoHash =>
                     \E j \in TracesOf(w)' : j < k /\ log'[j].body.hash = log'[k].body.parent
               /\ \A j \in TracesOf(w)' : j < k =>
                     \E m \in TracesOf(w)' : /\ j < m /\ m <= k
                                             /\ log'[m].body.parent = log'[j].body.hash
    <3>1. CASE k # K
      <4>1. k \in TracesOf(w) /\ k \in 1..Len(log)
        BY <1>8, <2>1, <3>1
      <4>2. \A j \in TracesOf(w)' : j < k => j \in TracesOf(w)
        BY <1>1, <1>8, <4>1
      <4>3. TracesOf(w) \subseteq TracesOf(w)'
        BY <1>8
      <4>4. \A j \in TracesOf(w) : log'[j] = log[j]
        BY <1>8
      <4>5. log[k].body.parent # NoHash =>
               \E j \in TracesOf(w) : j < k /\ log[j].body.hash = log[k].body.parent
        BY <4>1 DEF ChainInv, LogChained
      <4>6. \A j \in TracesOf(w) : j < k =>
               \E m \in TracesOf(w) : /\ j < m /\ m <= k
                                      /\ log[m].body.parent = log[j].body.hash
        BY <4>1 DEF ChainInv, LogChained
      <4>7. log'[k].body.parent # NoHash =>
               \E j \in TracesOf(w)' : j < k /\ log'[j].body.hash = log'[k].body.parent
        BY <4>1, <4>3, <4>4, <4>5
      <4>8. ASSUME NEW j \in TracesOf(w)', j < k
            PROVE  \E m \in TracesOf(w)' : /\ j < m /\ m <= k
                                           /\ log'[m].body.parent = log'[j].body.hash
        <5>1. PICK m \in TracesOf(w) : /\ j < m /\ m <= k
                                       /\ log[m].body.parent = log[j].body.hash
          BY <4>2, <4>6, <4>8
        <5> QED BY <4>2, <4>3, <4>4, <4>8, <5>1
      <4> QED BY <4>7, <4>8
    <3>2. CASE k = K
      <4>1. w = n /\ log'[k].body = e
        BY <1>1, <1>8, <2>1, <3>2 DEF e
      <4>2. \A j \in TracesOf(n) : j < K /\ j \in TracesOf(n)' /\ j \in Nat /\ log'[j] = log[j]
        BY <1>1, <1>8
      <4>3. log'[k].body.parent # NoHash =>
               \E j \in TracesOf(w)' : j < k /\ log'[j].body.hash = log'[k].body.parent
        BY <1>5, <3>2, <4>1, <4>2 DEF ChainInv, RootIsLatest
      <4>4. ASSUME NEW j \in TracesOf(w)', j < k
            PROVE  \E m \in TracesOf(w)' : /\ j < m /\ m <= k
                                           /\ log'[m].body.parent = log'[j].body.hash
        <5>1. j \in TracesOf(n) /\ j \in 1..Len(log) /\ log[j].type = "trace" /\ log[j].body \in Entry
          BY <1>1, <1>8, <3>2, <4>1, <4>4, MessageFields
        <5>2. CASE log[j].body.hash = LocalRoot(n)
          BY <1>1, <1>5, <2>1, <3>2, <4>1, <4>2, <4>4, <5>1, <5>2
        <5>3. CASE log[j].body.hash # LocalRoot(n)
          <6>1. log[j].body.hash < LocalRoot(n) /\ LocalRoot(n) # NoHash
            BY SMTT(30), <1>3, <5>1, <5>3 DEF ChainInv, RootIsLatest, Entry, NoHash
          <6>2. PICK l \in TracesOf(n) : log[l].body.hash = LocalRoot(n)
            BY <6>1 DEF ChainInv, RootIsLatest
          <6>3. l \in 1..Len(log) /\ log[l].type = "trace"
            BY <1>8
          <6>4. j < l
            <7>1. CASE l < j
              <8>1. log[l].body.hash < log[j].body.hash
                BY <5>1, <6>3, <7>1 DEF ChainInv, LogMinted
              <8> QED BY SMTT(30), <5>1, <1>3, <6>1, <6>2, <8>1 DEF Entry
            <7> QED BY <5>1, <5>3, <6>2, <6>3, <7>1
          <6>5. PICK m \in TracesOf(n) : /\ j < m /\ m <= l
                                         /\ log[m].body.parent = log[j].body.hash
            BY <5>1, <6>4 DEF ChainInv, LogChained
          <6>6. m <= K /\ m \in TracesOf(n)' /\ log'[m] = log[m] /\ log'[j] = log[j]
            BY <1>1, <1>8, <5>1
          <6> QED BY <3>2, <4>1, <6>5, <6>6
        <5> QED BY <5>2, <5>3
      <4> QED BY <4>3, <4>4
    <3> QED BY <3>1, <3>2
  <2> QED BY <2>1 DEF LogChained
<1>16. AdmittedWasHanded'
  <2>1. \A m \in Nodes : \A k \in 1..cursor[m] : k \in 1..Len(log)
    BY DEF TypeOK
  <2> QED BY <1>1, <1>2, <1>6, <2>1 DEF ChainInv, AdmittedWasHanded
<1>17. RootsFollow'
  BY <1>2 DEF ChainInv, RootsFollow
<1>18. TracesIntact'
  BY <1>1, <1>2, <1>6 DEF ChainInv, TracesIntact
<1> QED BY <1>12, <1>13, <1>14, <1>15, <1>16, <1>17, <1>18 DEF ChainInv

(* Handing over a trace makes it the newest a node admitted of its writer. *)
LEMMA ChainHandsOver ==
    ASSUME TypeInv, DeliveryInv, ChainInv, NEW n \in Nodes, Deliver(n)
    PROVE  ChainInv'
<1>t. /\ TypeOK /\ log \in Seq(Message) /\ cursor \in [Nodes -> Nat]
      /\ verified \in [Nodes -> SUBSET Entry] /\ remoteRoots \in [Nodes -> [Nodes -> Nat]]
  BY DEF TypeInv, TypeOK
<1>0. PICK k : k = cursor[n] + 1
  OBVIOUS
<1> DEFINE msg == log[k]
           e == msg.body
<1>1. /\ HandleInbound(n, msg) /\ msg \in Message
      /\ k \in 1..Len(log) /\ k > cursor[n]
      /\ cursor' = [cursor EXCEPT ![n] = k]
      /\ UNCHANGED <<log, minted, window>>
  BY <1>t, <1>0, NextMessageTyped DEF Deliver, Consume, NextMessage, HandleInbound
<1> HIDE DEF msg
<1>2. /\ LogMinted' /\ WindowChained' /\ LogChained' /\ TracesIntact'
  <2>1. LogMinted' /\ TracesIntact'
    BY <1>1 DEF ChainInv, LogMinted, TracesIntact
  <2>2. WindowChained'
    BY <1>1 DEF ChainInv, WindowChained
  <2>3. LogChained'
    <3>1. PICK ms, lg : ms = minted /\ lg = log /\ minted' = ms /\ log' = lg
      BY <1>1
    <3> QED BY <3>1 DEF ChainInv, LogChained, TracesOf
  <2> QED BY <2>1, <2>2, <2>3
<1>3. RootIsLatest'
  BY <1>1 DEF ChainInv, RootIsLatest, TracesOf, LocalRoot
<1>4. \A m \in Nodes : \A j \in 1..cursor[m] : j \in 1..cursor'[m]
  <2>1. \A m \in Nodes : cursor[m] \in Nat /\ cursor'[m] = IF m = n THEN k ELSE cursor[m]
    BY <1>t, <1>1
  <2>2. k = cursor[n] + 1
    BY <1>0
  <2> QED BY <2>1, <2>2
<1>5. CASE UNCHANGED <<verified, remoteRoots>>
  <2>1. AdmittedWasHanded'
    BY <1>1, <1>4, <1>5 DEF ChainInv, AdmittedWasHanded
  <2>2. RootsFollow'
    BY <1>5 DEF ChainInv, RootsFollow
  <2> QED BY <1>2, <1>3, <2>1, <2>2 DEF ChainInv
<1>6. CASE Fresh(n, msg) /\ HandleTrace(n, msg) /\ ~IsDuplicate(n, e)
  <2>1. /\ msg.type = "trace" /\ e \in Entry /\ msg.from \in Nodes /\ e.writer = msg.from
        /\ msg.from # n /\ e.hash \in Nat
    BY <1>1, <1>6, MessageFields DEF HandleTrace, ChainInv, LogMinted, Fresh, msg, Entry
  <2>2. \A f \in verified[n] : f.hash < e.hash /\ f.id = f.hash /\ f.hash \in Nat /\ e.id = e.hash
    <3>1. ASSUME NEW f \in verified[n]
          PROVE  f.hash < e.hash /\ f.id = f.hash /\ f.hash \in Nat /\ e.id = e.hash
      <4>1. PICK j \in 1..cursor[n] : log[j].type = "trace" /\ log[j].body = f
        BY DEF ChainInv, AdmittedWasHanded
      <4>2. j \in 1..Len(log) /\ j < k
        BY <1>t, <1>1
      <4>3. f.hash < e.hash
        BY <1>1, <2>1, <4>1, <4>2 DEF ChainInv, LogMinted, msg
      <4>4. f.id = f.hash /\ e.id = e.hash
        BY <1>1, <2>1, <4>1, <4>2 DEF ChainInv, LogMinted, WellMinted, msg
      <4>5. f.hash \in Nat
        BY <1>t DEF Entry
      <4> QED BY <4>3, <4>4, <4>5
    <3> QED BY <3>1
  <2> DEFINE sameWriter == {f \in Siblings(verified[n] \cup {e}, e.id) : f.writer = e.writer}
  <2>3. sameWriter = {e}
    BY <2>1, <2>2 DEF Siblings
  <2>4. Preferred(sameWriter) = e
    BY <2>3 DEF Preferred
  <2>5. /\ verified' = [verified EXCEPT ![n] = verified[n] \cup {e}]
        /\ remoteRoots' = [remoteRoots EXCEPT ![n] = [remoteRoots[n] EXCEPT ![e.writer] = e.hash]]
    BY <1>6, <2>4 DEF HandleTrace, VerifiedAfter, RootsAfter
  <2> HIDE DEF sameWriter, e
  <2>6. AdmittedWasHanded'
    <3>1. ASSUME NEW m \in Nodes, NEW f \in verified'[m]
          PROVE  f.writer # m /\ \E j \in 1..cursor'[m] : log[j].type = "trace" /\ log[j].body = f
      <4>1. CASE f \in verified[m]
        BY <1>4, <4>1 DEF ChainInv, AdmittedWasHanded
      <4>2. CASE f \notin verified[m]
        <5>1. m = n /\ f = e
          BY <1>t, <2>5, <3>1, <4>2
        <5>2. k \in 1..cursor'[n]
          BY <1>t, <1>1
        <5> QED BY <2>1, <5>1, <5>2 DEF e, msg
      <4> QED BY <4>1, <4>2
    <3> QED BY <1>1, <3>1 DEF AdmittedWasHanded
  <2>7. RootsFollow'
    <3>1. ASSUME NEW m \in Nodes, NEW w \in Nodes
          PROVE  /\ \A f \in verified'[m] : f.writer = w => f.hash <= remoteRoots'[m][w]
                 /\ \/ remoteRoots'[m][w] = NoHash
                    \/ \E f \in verified'[m] : f.writer = w /\ f.hash = remoteRoots'[m][w]
      <4>1. CASE m = n /\ w = e.writer
        <5>1. remoteRoots'[m][w] = e.hash /\ verified'[m] = verified[n] \cup {e}
          BY <1>t, <2>1, <2>5, <4>1
        <5> QED BY <2>1, <2>2, <4>1, <5>1
      <4>2. CASE ~(m = n /\ w = e.writer)
        <5>1. remoteRoots'[m][w] = remoteRoots[m][w]
          BY <1>t, <2>1, <2>5, <4>2
        <5>2. \A f : f.writer = w => (f \in verified'[m] <=> f \in verified[m])
          BY <1>t, <2>5, <4>2
        <5> QED BY <5>1, <5>2 DEF ChainInv, RootsFollow
      <4> QED BY <4>1, <4>2
    <3> QED BY <3>1 DEF RootsFollow
  <2> QED BY <1>2, <1>3, <2>6, <2>7 DEF ChainInv
<1>7. UNCHANGED <<verified, remoteRoots>>
        \/ (Fresh(n, msg) /\ HandleTrace(n, msg) /\ ~IsDuplicate(n, e))
  <2>1. CASE UNCHANGED replicaVars
    BY <2>1 DEF replicaVars
  <2>2. CASE HandleVeto(n, msg) \/ HandleCapability(n, msg)
    BY <2>2 DEF HandleVeto, HandleCapability
  <2>3. CASE Fresh(n, msg) /\ HandleTrace(n, msg) /\ IsDuplicate(n, e)
    BY <1>t, <2>3 DEF HandleTrace, VerifiedAfter, RootsAfter
  <2> QED BY <1>1, <2>1, <2>2, <2>3 DEF HandleInbound
<1> QED BY <1>5, <1>6, <1>7

LEMMA ChainStep ==
    ASSUME Importable = {}, TypeInv, DeliveryInv, ChainInv, [Next]_vars
    PROVE  ChainInv'
<1>o. TypeOK
  BY DEF TypeInv
<1>1. ASSUME NEW n \in Nodes, NEW msg \in Message, PublishesNext(n, msg) PROVE ChainInv'
  BY <1>o, <1>1, ChainPublishesTrace, ChainPublishesOther
<1>2. ASSUME NEW n \in Nodes, Deliver(n) PROVE ChainInv'
  BY <1>2, ChainHandsOver
<1>3. CASE UNCHANGED <<log, cursor, stigmergyVars>>
  <2> USE <1>3 DEF stigmergyVars
  <2>1. LogMinted' /\ WindowChained' /\ LogChained' /\ TracesIntact'
    BY DEF ChainInv, LogMinted, WindowChained, LogChained, TracesIntact, TracesOf
  <2>2. RootIsLatest'
    BY DEF ChainInv, RootIsLatest, TracesOf, LocalRoot
  <2>3. AdmittedWasHanded' /\ RootsFollow'
    BY DEF ChainInv, AdmittedWasHanded, RootsFollow
  <2> QED BY <2>1, <2>2, <2>3 DEF ChainInv
<1>4. ASSUME NEW n \in Nodes, Redeliver(n) PROVE ChainInv'
  BY <1>3, <1>4, RedeliverIdle DEF Redeliver, transportVars
<1>5. CASE UNCHANGED vars
  BY <1>3, <1>5 DEF vars, transportVars
<1> QED BY <1>1, <1>2, <1>4, <1>5, StepKinds

LEMMA ChainInvariant ==
    ASSUME Importable = {}
    PROVE  Spec => [](TypeInv /\ DeliveryInv /\ ChainInv)
<1>1. TypeInv /\ DeliveryInv /\ ChainInv /\ [Next]_vars => ChainInv'
  BY ChainStep
<1> QED BY <1>1, ChainInit, DeliveryInvariant, PTL DEF Spec

-----------------------------------------------------------------------------
(* What the chains give. *)

(* The root a node reports of a writer is the newest trace it holds of it. *)
LEMMA RootIsNewestHeld ==
    ASSUME TypeOK, ChainInv, NEW n \in Nodes, NEW w \in Nodes
    PROVE  /\ \A e \in Observed(n) : e.writer = w => e.hash <= KnownRoots(n)[w]
           /\ \/ KnownRoots(n)[w] = NoHash
              \/ \E e \in Observed(n) : e.writer = w /\ e.hash = KnownRoots(n)[w]
           /\ KnownRoots(n)[w] \in Nat
<1>t. /\ window[n] \in Seq(Entry) /\ Len(window[n]) \in Nat /\ DOMAIN window[n] = 1..Len(window[n])
      /\ remoteRoots[n][w] \in Nat
      /\ verified[n] \subseteq Entry
  BY SMTT(30) DEF TypeOK
<1>1. CASE w # n
  <2>1. KnownRoots(n)[w] = remoteRoots[n][w]
    BY <1>1 DEF KnownRoots
  <2>2. \A e \in Observed(n) : e.writer = w <=> e \in verified[n] /\ e.writer = w
    BY <1>t, <1>1 DEF Observed, OwnTraces, ChainInv, WindowChained
  <2>3. verified[n] \subseteq Observed(n)
    BY DEF Observed
  <2> QED BY <1>t, <2>1, <2>2, <2>3 DEF ChainInv, RootsFollow
<1>2. CASE w = n
  <2>1. \A e \in Observed(n) : e.writer = w => e \in OwnTraces(n)
    BY <1>2 DEF Observed, ChainInv, AdmittedWasHanded
  <2>2. remoteRoots[n][n] = NoHash
    BY DEF ChainInv, RootsFollow, AdmittedWasHanded
  <2>3. KnownRoots(n)[w] = LocalRoot(n)
    BY <1>2, <2>2 DEF KnownRoots
  <2>4. CASE window[n] = <<>>
    <3>1. \A e \in OwnTraces(n) : FALSE
      BY <1>t, <2>4 DEF OwnTraces
    <3> QED BY <2>1, <2>3, <2>4, <3>1 DEF LocalRoot, NoHash
  <2>5. CASE window[n] # <<>>
    <3> DEFINE L == Len(window[n])
    <3>1. L \in 1..L /\ L \in DOMAIN window[n]
      BY <1>t, <2>5, EmptySeq
    <3>2. LocalRoot(n) = window[n][L].hash
      BY <2>5 DEF LocalRoot
    <3>e. \A i \in 1..L : window[n][i] \in Entry
      BY <1>t, ElementOfSeq
    <3>h. \A i \in 1..L : window[n][i].hash \in Nat
      BY <3>e DEF Entry
    <3>w. window[n][L].writer = n
      BY <3>1 DEF ChainInv, WindowChained
    <3>3. window[n][L] \in OwnTraces(n) /\ window[n][L].writer = n /\ window[n][L].hash \in Nat
      BY <3>1, <3>h, <3>w DEF OwnTraces
    <3>4. \A i \in 1..L : window[n][i].hash <= window[n][L].hash
      <4>1. ASSUME NEW i \in 1..L PROVE window[n][i].hash <= window[n][L].hash
        <5>1. window[n][i].hash \in Nat
          BY <3>h
        <5>2. CASE i = L
          BY <3>3, <5>2
        <5>3. CASE i # L
          <6>1. i < L /\ L \in 1..Len(window[n])
            BY <1>t, <3>1, <5>3
          <6>2. \A j, k \in 1..Len(window[n]) : j < k => window[n][j].hash < window[n][k].hash
            BY DEF ChainInv, WindowChained
          <6>3. window[n][i].hash < window[n][L].hash
            BY <6>1, <6>2
          <6> QED BY <3>3, <5>1, <6>3
        <5> QED BY <5>2, <5>3
      <4> QED BY <4>1
    <3>5. OwnTraces(n) \subseteq Observed(n)
      BY DEF Observed
    <3> QED BY <1>t, <1>2, <2>1, <2>3, <3>2, <3>3, <3>4, <3>5 DEF OwnTraces
  <2> QED BY <2>4, <2>5
<1> QED BY <1>1, <1>2

(* Class comment, guarantee 2: as long as no bundle is imported, nodes     *)
(* that have observed the same traces report the same roots, whatever      *)
(* their windows have dropped and in whatever order deliveries interleave. *)
THEOREM SameTracesFoldToSameRoots ==
    ASSUME Importable = {}
    PROVE  Spec => []SameTracesSameRoots
<1>1. ASSUME TypeOK, ChainInv PROVE SameTracesSameRoots
  <2> SUFFICES ASSUME NEW a \in Nodes, NEW b \in Nodes, Observed(a) = Observed(b)
               PROVE  KnownRoots(a) = KnownRoots(b)
    BY DEF SameTracesSameRoots
  <2>1. ASSUME NEW w \in Nodes PROVE KnownRoots(a)[w] = KnownRoots(b)[w]
    <3>1. Observed(a) \subseteq Entry
      <4>1. window[a] \in Seq(Entry) /\ verified[a] \subseteq Entry
        BY <1>1 DEF TypeOK
      <4>2. OwnTraces(a) \subseteq Entry
        BY <4>1, ElementOfSeq DEF OwnTraces
      <4> QED BY <4>1, <4>2 DEF Observed
    <3>2. /\ \A e \in Observed(a) : e.writer = w => e.hash <= KnownRoots(a)[w]
          /\ \/ KnownRoots(a)[w] = NoHash
             \/ \E e \in Observed(a) : e.writer = w /\ e.hash = KnownRoots(a)[w]
          /\ KnownRoots(a)[w] \in Nat
      BY <1>1, RootIsNewestHeld
    <3>3. /\ \A e \in Observed(a) : e.writer = w => e.hash <= KnownRoots(b)[w]
          /\ \/ KnownRoots(b)[w] = NoHash
             \/ \E e \in Observed(a) : e.writer = w /\ e.hash = KnownRoots(b)[w]
          /\ KnownRoots(b)[w] \in Nat
      BY <1>1, RootIsNewestHeld
    <3> QED BY <3>1, <3>2, <3>3 DEF Entry, NoHash
  <2> QED BY <2>1 DEF KnownRoots
<1>2. TypeInv => TypeOK
  BY DEF TypeInv
<1> QED BY <1>1, <1>2, ChainInvariant, PTL

(* With intact gossip a node holds every trace it was handed of a peer.    *)
LEMMA HandedIsHeld ==
    ASSUME TypeInv, DeliveryInv, ChainInv, ~MutatingCallers,
           NEW n \in Nodes, NEW k \in 1..cursor[n], log[k].type = "trace", log[k].from # n
    PROVE  log[k].body \in verified[n]
<1>1. k \in 1..Len(log) /\ \A j \in 1..cursor[n] : j \in 1..Len(log)
  BY DEF TypeInv, TypeOK
<1>2. IsDuplicate(n, log[k].body)
  BY <1>1 DEF DeliveryInv, ConsumedApplied, Acceptable, Applied, ChainInv, TracesIntact
<1>3. PICK e \in verified[n] : e.id = log[k].body.id
  BY <1>2 DEF IsDuplicate
<1>4. PICK j \in 1..cursor[n] : log[j].type = "trace" /\ log[j].body = e
  BY DEF ChainInv, AdmittedWasHanded
<1>5. log[j].body.hash = log[k].body.hash /\ log[k].body.hash \in Nat /\ log[j].body.hash \in Nat
  <2>1. log[j] \in Message /\ log[k] \in Message
    BY <1>1 DEF TypeInv, TypeOK
  <2>2. log[j].body \in Entry /\ log[k].body \in Entry
    BY <1>4, <2>1, MessageFields
  <2> QED BY <1>1, <1>3, <1>4, <2>2 DEF ChainInv, LogMinted, WellMinted, Entry
<1>6. j = k
  BY <1>1, <1>4, <1>5 DEF ChainInv, LogMinted
<1> QED BY <1>4, <1>6

(* Every trace a node holds is the parent of another, or is the root; and  *)
(* of a peer it holds the parents too.                                     *)
LEMMA HeldChain ==
    ASSUME TypeInv, DeliveryInv, ChainInv, ~MutatingCallers, NEW n \in Nodes,
           NEW e \in BundleTraces(n)
    PROVE  /\ e \in Entry /\ e.writer \in Nodes /\ WellMinted(e, minted)
           /\ e.hash # KnownRoots(n)[e.writer] =>
                 \E f \in BundleTraces(n) : f.writer = e.writer /\ f.parent = e.hash
           /\ e.parent # NoHash => \/ \E f \in BundleTraces(n) : f.writer = e.writer /\ f.hash = e.parent
                                   \/ e.writer = n /\ e = window[n][1]
           /\ \A f \in BundleTraces(n) : f.writer = e.writer /\ f.id = e.id => f = e
<1>t. /\ TypeOK /\ window[n] \in Seq(Entry) /\ Len(window[n]) \in Nat
      /\ DOMAIN window[n] = 1..Len(window[n])
      /\ verified[n] \subseteq Entry
      /\ \A j \in 1..cursor[n] : j \in 1..Len(log)
  BY DEF TypeInv, TypeOK
<1>b. BundleTraces(n) = OwnTraces(n) \cup verified[n] /\ BundleTraces(n) = Observed(n)
  BY DEF BundleTraces, Observed
<1>o. \A f \in OwnTraces(n) : f \in Entry /\ f.writer = n /\ WellMinted(f, minted)
  BY <1>t DEF OwnTraces, ChainInv, WindowChained
<1>v. \A f \in verified[n] : /\ f \in Entry /\ f.writer # n /\ WellMinted(f, minted)
                             /\ \E k \in 1..cursor[n] : /\ log[k].type = "trace" /\ log[k].body = f
                                                        /\ log[k].from = f.writer
  BY <1>t DEF ChainInv, AdmittedWasHanded, LogMinted
<1>r. e.hash <= KnownRoots(n)[e.writer] /\ KnownRoots(n)[e.writer] \in Nat
  <2>1. e.writer \in Nodes
    BY <1>b, <1>o, <1>v DEF Entry
  <2> QED BY <1>t, <1>b, <2>1, RootIsNewestHeld
<1>1. CASE e \in OwnTraces(n)
  <2>1. PICK i \in 1..Len(window[n]) : e = window[n][i]
    BY <1>t, <1>1 DEF OwnTraces
  <2>2. ASSUME i = Len(window[n]) PROVE KnownRoots(n)[e.writer] = e.hash
    <3>1. window[n] # <<>>
      BY <1>t, <2>1
    <3>2. LocalRoot(n) = e.hash
      BY <2>1, <2>2, <3>1 DEF LocalRoot
    <3>3. e.hash # NoHash /\ e.writer = n
      BY <1>o, <1>1 DEF Entry
    <3>4. KnownRoots(n)[n] = IF LocalRoot(n) # NoHash THEN LocalRoot(n) ELSE remoteRoots[n][n]
      BY DEF KnownRoots
    <3> QED BY <3>2, <3>3, <3>4
  <2>3. ASSUME i # Len(window[n])
        PROVE  \E f \in BundleTraces(n) : f.writer = e.writer /\ f.parent = e.hash
    <3>1. i + 1 \in 1..Len(window[n]) /\ i + 1 > 1 /\ (i + 1) - 1 = i
      BY <1>t, <2>3
    <3>2. window[n][i + 1] \in OwnTraces(n)
      BY <1>t, <3>1 DEF OwnTraces
    <3>3. window[n][i + 1].parent = window[n][i].hash
      BY <3>1 DEF ChainInv, WindowChained
    <3> QED BY <1>b, <1>o, <1>1, <2>1, <3>2, <3>3
  <2>4. ASSUME i # 1
        PROVE  \E f \in BundleTraces(n) : f.writer = e.writer /\ f.hash = e.parent
    <3>1. i - 1 \in 1..Len(window[n]) /\ i > 1
      BY <1>t, <2>4
    <3>2. window[n][i - 1] \in OwnTraces(n)
      BY <1>t, <3>1 DEF OwnTraces
    <3>3. window[n][i].parent = window[n][i - 1].hash
      BY <2>1, <3>1 DEF ChainInv, WindowChained
    <3> QED BY <1>b, <1>o, <1>1, <2>1, <3>2, <3>3
  <2>5. ASSUME NEW f \in BundleTraces(n), f.writer = e.writer, f.id = e.id PROVE f = e
    <3>1. f \in OwnTraces(n)
      BY <1>b, <1>o, <1>v, <1>1, <2>5
    <3>2. PICK j \in 1..Len(window[n]) : f = window[n][j]
      BY <1>t, <3>1 DEF OwnTraces
    <3>3. f.hash = e.hash /\ f.hash \in Nat
      BY <1>o, <1>1, <2>5, <3>1 DEF WellMinted, Entry
    <3>4. i = j
      BY <1>t, <2>1, <3>2, <3>3 DEF ChainInv, WindowChained
    <3> QED BY <2>1, <3>2, <3>4
  <2> QED BY <1>o, <1>1, <2>1, <2>2, <2>3, <2>4, <2>5 DEF Entry
<1>2. CASE e \in verified[n]
  <2>1. PICK k \in 1..cursor[n] : log[k].type = "trace" /\ log[k].body = e /\ log[k].from = e.writer
    BY <1>v, <1>2
  <2>2. /\ e \in Entry /\ e.writer \in Nodes /\ e.writer # n /\ k \in TracesOf(e.writer)
        /\ e.hash \in Nat /\ e.hash # NoHash
    BY <1>t, <1>v, <1>2, <2>1 DEF TracesOf, Entry
  <2>3. \A j \in TracesOf(e.writer) : j \in 1..cursor[n] => log[j].body \in BundleTraces(n)
    BY <1>b, <2>2, HandedIsHeld DEF TracesOf
  <2>4. \A j \in TracesOf(e.writer) : log[j].body.writer = e.writer
    BY DEF TracesOf, ChainInv, LogMinted
  <2>5. ASSUME e.hash # KnownRoots(n)[e.writer]
        PROVE  \E f \in BundleTraces(n) : f.writer = e.writer /\ f.parent = e.hash
    <3>1. e.hash < KnownRoots(n)[e.writer] /\ KnownRoots(n)[e.writer] # NoHash
      BY <1>r, <2>2, <2>5 DEF NoHash
    <3>2. PICK g \in Observed(n) : g.writer = e.writer /\ g.hash = KnownRoots(n)[e.writer]
      BY <1>t, <2>2, <3>1, RootIsNewestHeld
    <3>3. PICK l \in 1..cursor[n] : log[l].type = "trace" /\ log[l].body = g /\ log[l].from = g.writer
      BY <1>b, <1>o, <1>v, <2>2, <3>2
    <3>4. l \in TracesOf(e.writer) /\ k < l
      <4>1. l \in 1..Len(log) /\ k \in 1..Len(log)
        BY <1>t
      <4>2. CASE l < k
        <5>1. log[l].body.hash < log[k].body.hash
          BY <2>1, <3>3, <4>1, <4>2 DEF ChainInv, LogMinted
        <5> QED BY <1>r, <2>1, <2>2, <3>1, <3>2, <3>3, <5>1
      <4>3. l # k
        BY <1>r, <2>1, <2>2, <3>1, <3>2, <3>3
      <4>4. l \in TracesOf(e.writer)
        BY <3>2, <3>3, <4>1 DEF TracesOf
      <4> QED BY <4>1, <4>2, <4>3, <4>4
    <3>5. PICK m \in TracesOf(e.writer) : k < m /\ m <= l /\ log[m].body.parent = log[k].body.hash
      BY <2>2, <3>4 DEF ChainInv, LogChained
    <3>6. m \in 1..cursor[n]
      BY <3>5, <1>t DEF TypeOK, TracesOf
    <3> QED BY <2>1, <2>3, <2>4, <3>5, <3>6
  <2>6. ASSUME e.parent # NoHash
        PROVE  \E f \in BundleTraces(n) : f.writer = e.writer /\ f.hash = e.parent
    <3>1. PICK j \in TracesOf(e.writer) : j < k /\ log[j].body.hash = e.parent
      BY <2>1, <2>2, <2>6 DEF ChainInv, LogChained
    <3>2. j \in 1..cursor[n]
      BY <3>1, <1>t DEF TypeOK, TracesOf
    <3> QED BY <2>3, <2>4, <3>1, <3>2
  <2>7. ASSUME NEW f \in BundleTraces(n), f.writer = e.writer, f.id = e.id PROVE f = e
    <3>1. PICK l \in 1..cursor[n] : log[l].type = "trace" /\ log[l].body = f
      BY <1>b, <1>o, <1>v, <2>2, <2>7
    <3>2. f.hash = e.hash /\ f.hash \in Nat
      BY <1>b, <1>o, <1>v, <1>2, <2>7 DEF WellMinted, Entry
    <3>3. l = k
      BY <1>t, <2>1, <3>1, <3>2 DEF ChainInv, LogMinted
    <3> QED BY <2>1, <3>1, <3>3
  <2> QED BY <1>v, <1>2, <2>2, <2>5, <2>6, <2>7
<1> QED BY <1>b, <1>1, <1>2

(* What a node exports replays against the roots it reports.               *)
LEMMA BundleReplays ==
    ASSUME TypeInv, DeliveryInv, ChainInv, ~MutatingCallers, NEW n \in Nodes
    PROVE  ReplayAccepts(BundleTraces(n), Boundaries(BundleTraces(n)), KnownRoots(n))
<1> DEFINE T == BundleTraces(n)
           roots == KnownRoots(n)
           B == Boundaries(T)
<1>t. TypeOK /\ T = Observed(n)
  BY DEF TypeInv, BundleTraces, Observed
<1>e. \A e \in T : e \in Entry /\ e.writer \in Nodes /\ WellMinted(e, minted)
  BY HeldChain
<1>s. \A e \in T : e.hash # roots[e.writer] =>
         \E f \in T : f.writer = e.writer /\ f.parent = e.hash
  BY HeldChain
<1>p. \A e \in T : e.parent # NoHash => \/ \E f \in T : f.writer = e.writer /\ f.hash = e.parent
                                        \/ e.writer = n /\ e = window[n][1]
  BY HeldChain
<1>u. \A e, f \in T : f.writer = e.writer /\ f.id = e.id => f = e
  BY HeldChain
<1>r. \A w \in Nodes : /\ \A e \in T : e.writer = w => e.hash <= roots[w]
                       /\ \/ roots[w] = NoHash
                          \/ \E e \in T : e.writer = w /\ e.hash = roots[w]
                       /\ roots[w] \in Nat
  BY <1>t, RootIsNewestHeld DEF TypeInv
<1>x. \A w : \A h : h \in HashesOf(T, w) <=> \E e \in T : e.writer = w /\ e.hash = h
  BY DEF HashesOf
<1>b. \A b : b \in B <=> b \in T /\ b.parent # NoHash /\ b.parent \notin HashesOf(T, b.writer)
  BY DEF Boundaries
<1>a. ActiveByIdentity(T) = {e \in T : \A f \in T : f.writer = e.writer /\ f.id = e.id => ~Beats(f, e)}
  BY DEF ActiveByIdentity
<1> HIDE DEF T, roots, B
<1>n. \A e \in T : ~Beats(e, e)
  BY <1>e DEF Beats, Entry
<1>1. ActiveByIdentity(T) = T
  BY <1>a, <1>n, <1>u
<1>2. Committed(T, roots)
  <2>1. \A e \in T : e.hash \in Nat /\ e.hash # NoHash
    BY <1>e DEF Entry, NoHash
  <2>2. \A e \in T : e.hash <= roots[e.writer] /\ roots[e.writer] \in Nat
    BY <1>e, <1>r
  <2> QED BY <2>1, <2>2 DEF Committed, NoHash
<1>3. \A b \in B : b \in T /\ b = window[n][1] /\ b.parent \notin HashesOf(T, b.writer)
  BY <1>b, <1>p, <1>x
<1>4. BoundariesMatch(T, B)
  BY <1>3 DEF BoundariesMatch
<1>5. ASSUME NEW w \in Nodes, roots[w] # NoHash PROVE ChainMatches(T, B, w, roots[w])
  <2> DEFINE own == {e \in T : e.writer = w}
             heads == {e \in own : \A f \in own : f.parent # e.hash}
  <2>1. PICK g \in T : g.writer = w /\ g.hash = roots[w]
    BY <1>r, <1>5
  <2>2. \A e \in own : \/ e.parent = NoHash
                       \/ e.parent \in HashesOf(T, w)
                       \/ e \in B
    BY <1>b
  <2>3. \A e \in heads : e.hash = roots[w] /\ e = g
    <3>1. \A e \in heads : e \in T /\ e.writer = w /\ e.hash = roots[w]
      BY <1>s
    <3>2. \A e \in T : e.id = e.hash
      BY <1>e DEF WellMinted
    <3> QED BY <1>u, <2>1, <3>1, <3>2
  <2>4. g \in heads
    <3>1. \A f \in own : f.hash <= g.hash /\ f.parent < f.hash /\ f.hash \in Nat /\ f.parent \in Nat
      BY <1>e, <1>r, <2>1 DEF WellMinted, Entry
    <3>2. g.hash \in Nat
      BY <1>e, <2>1 DEF Entry
    <3> QED BY <2>1, <3>1, <3>2
  <2>5. heads = {g}
    BY <2>3, <2>4
  <2>6. Cardinality(heads) = 1
    BY <2>5, FS_Singleton
  <2>7. own # {}
    BY <2>1
  <2>8. ChainMatches(T, B, w, roots[w]) <=>
          /\ own # {}
          /\ \A e \in own : \/ e.parent = NoHash
                            \/ e.parent \in HashesOf(T, w)
                            \/ \E b \in B : b.writer = w /\ b.hash = e.hash /\ b.parent = e.parent
          /\ Cardinality(heads) = 1
          /\ \A e \in heads : e.hash = roots[w]
    BY DEF ChainMatches
  <2>9. \A e \in own : e \in B => \E b \in B : b.writer = w /\ b.hash = e.hash /\ b.parent = e.parent
    OBVIOUS
  <2> HIDE DEF own, heads
  <2> QED BY <2>2, <2>3, <2>6, <2>7, <2>8, <2>9
<1>6. ReplayAccepts(T, B, roots)
  BY <1>1, <1>2, <1>4, <1>5 DEF ReplayAccepts
<1> QED BY <1>6 DEF T, B, roots

(* replay(): at any moment, whatever a node's own window has dropped and   *)
(* however deliveries interleave, its exported bundle replays against the  *)
(* roots it reports.  (Callers leave their arrays alone until the trace is *)
(* delivered, and no bundle was imported.)                                 *)
THEOREM ExportsReplay ==
    ASSUME Importable = {}, ~MutatingCallers
    PROVE  Spec => []ReplayAccepted
<1>1. TypeInv /\ DeliveryInv /\ ChainInv => ReplayAccepted
  BY BundleReplays DEF ReplayAccepted
<1> QED BY <1>1, ChainInvariant, PTL

-----------------------------------------------------------------------------
(* ClusterNode: nodes that run a stigmergy, an orchestrator or both, and   *)
(* may restart.                                                            *)

NodeTypeInv == TypeInv /\ OrchestratorTypeOK /\ restarts \in [Nodes -> Nat]

(* Publishing keeps what the log held and appends what is published.       *)
LEMMA PublishKeeps ==
    ASSUME log \in Seq(Message), NEW messages \in Seq(Message), Publish(messages)
    PROVE  /\ log' \in Seq(Message)
           /\ Len(log) \in Nat /\ Len(log') = Len(log) + Len(messages)
           /\ \A k \in 1..Len(log) : log'[k] = log[k]
           /\ \A k \in 1..Len(messages) : log'[Len(log) + k] = messages[k]
BY ConcatProperties DEF Publish

LEMMA CapabilityMsgTyped ==
    ASSUME NEW n \in Nodes, NEW seq \in Nat, NEW cuda \in Capability
    PROVE  /\ CapabilityMsg(n, seq, cuda) \in Message
           /\ CapabilityMsg(n, seq, cuda).from = n
           /\ CapabilityMsg(n, seq, cuda).seq = seq
           /\ CapabilityMsg(n, seq, cuda).type = "capability"
           /\ CapabilityMsg(n, seq, cuda).body = cuda
BY DEF CapabilityMsg, Message

(* A longer log and moved counters are all the stigmergies see of a step   *)
(* of the orchestrators.                                                   *)
LEMMA TypedUnderLog ==
    ASSUME TypeInv, log' \in Seq(Message), Len(log) <= Len(log'),
           cursor' \in [Nodes -> Nat], \A n \in Nodes : cursor'[n] <= Len(log'),
           localSeq' \in [Nodes -> Nat], caps' \in [Nodes -> [Nodes -> Capability \cup {Unknown}]],
           UNCHANGED <<minted, window, verified, active, remoteRoots, seen, vetoed>>
    PROVE  TypeInv'
<1>1. TypeOK'
  BY DEF TypeInv, TypeOK
<1>2. PreferredExists'
  BY PreferredUnchanged DEF TypeInv
<1> QED BY <1>1, <1>2 DEF TypeInv

LEMMA TickTyped ==
    ASSUME OrchestratorTypeOK, NEW n \in Nodes, Tick(n)
    PROVE  OrchestratorTypeOK'
<1> USE DEF OrchestratorTypeOK, Tick
<1>1. table' \in [Nodes -> [Nodes -> Capability \cup {Absent}]]
  OBVIOUS
<1>2. \A m \in Nodes : m \in Members(m)'
  BY DEF Members, Stale
<1> QED BY <1>1, <1>2

LEMMA AnnounceTyped ==
    ASSUME OrchestratorTypeOK, NEW n \in Nodes, NEW cuda \in Capability, Announce(n, cuda)
    PROVE  OrchestratorTypeOK'
<1> USE DEF OrchestratorTypeOK, Announce
<1>1. table' \in [Nodes -> [Nodes -> Capability \cup {Absent}]]
  OBVIOUS
<1>2. \A m \in Nodes : m \in Members(m)'
  BY DEF Members, Capability, Absent
<1> QED BY <1>1, <1>2

LEMMA ObserveTyped ==
    ASSUME OrchestratorTypeOK, NEW n \in Nodes, NEW msg \in Message, Observe(n, msg),
           silence' \in [Nodes -> [Nodes -> Ages]]
    PROVE  OrchestratorTypeOK'
<1>m. /\ msg.from \in Nodes /\ msg.seq \in Nat
      /\ msg.type = "capability" => msg.body \in Capability
  BY MessageFields
<1>1. CASE Taken(n, msg)
  <2>1. CapabilityAfter(n, msg) \in Capability \cup {Absent}
    BY <1>m DEF CapabilityAfter, OrchestratorTypeOK, Capability
  <2>2. 0 \in Ages
    BY OrchestratorAssumption DEF Ages
  <2> DEFINE c == CapabilityAfter(n, msg)
  <2>3. /\ orchSeen' = [orchSeen EXCEPT ![n][msg.from] = msg.seq]
        /\ table' = [table EXCEPT ![n][msg.from] = c]
        /\ age' = [age EXCEPT ![n][msg.from] = 0]
        /\ orchSeq' = orchSeq
    BY <1>1 DEF Observe
  <2>p. c \in Capability \cup {Absent}
    BY <2>1
  <2> HIDE DEF c
  <2>4. table' \in [Nodes -> [Nodes -> Capability \cup {Absent}]]
    BY <1>m, <2>p, <2>3 DEF OrchestratorTypeOK
  <2>5. \A m \in Nodes : m \in Members(m)'
    BY <1>1, <1>m, <2>3 DEF OrchestratorTypeOK, Members, Taken
  <2>6. /\ orchSeq' \in [Nodes -> Nat] /\ orchSeen' \in [Nodes -> [Nodes -> Nat]]
        /\ age' \in [Nodes -> [Nodes -> Ages]]
    BY <1>m, <2>2, <2>3 DEF OrchestratorTypeOK
  <2> QED BY <2>4, <2>5, <2>6 DEF OrchestratorTypeOK
<1>2. CASE ~Taken(n, msg)
  BY <1>2 DEF Observe, OrchestratorTypeOK, Members
<1> QED BY <1>1, <1>2

LEMMA HeardTyped ==
    ASSUME OrchestratorTypeOK, NEW n \in Nodes, NEW msg \in Message, Heard(n, msg)
    PROVE  silence' \in [Nodes -> [Nodes -> Ages]]
<1>1. msg.from \in Nodes /\ 0 \in Ages
  BY MessageFields, OrchestratorAssumption DEF Ages
<1> QED BY <1>1 DEF Heard, OrchestratorTypeOK

LEMMA ElapseTyped ==
    ASSUME OrchestratorTypeOK, Elapse
    PROVE  OrchestratorTypeOK'
<1>1. \A a \in Ages : Older(a) \in Ages
  BY OrchestratorAssumption DEF Ages, Older
<1>2. age' \in [Nodes -> [Nodes -> Ages]] /\ silence' \in [Nodes -> [Nodes -> Ages]]
  BY <1>1 DEF Elapse, OrchestratorTypeOK
<1> QED BY <1>2 DEF Elapse, OrchestratorTypeOK, Members

LEMMA NodeTypeInit == NodeInit => NodeTypeInv
<1> SUFFICES ASSUME NodeInit PROVE NodeTypeInv
  OBVIOUS
<1>1. TypeInv
  BY TypeInit DEF NodeInit
<1>2. StaleAfter + 1 \in Ages
  BY OrchestratorAssumption DEF Ages
<1>3. OrchestratorTypeOK
  BY <1>2 DEF NodeInit, OrchestratorInit, OrchestratorTypeOK, Members, Capability, Absent
<1> QED BY <1>1, <1>3 DEF NodeInit, NodeTypeInv

(* What a step of the nodes is, by deployment: a step of the stigmergies,  *)
(* one of the orchestrators, one of both, or a restart.                    *)
LEMMA RestartTyped ==
    ASSUME NodeTypeInv, NEW n \in Nodes, Restart(n)
    PROVE  NodeTypeInv'
<1>t. TypeOK
  BY DEF NodeTypeInv, TypeInv
<1>1. /\ log' = log /\ minted' = minted
      /\ cursor' = [cursor EXCEPT ![n] = 0]
      /\ localSeq' = [localSeq EXCEPT ![n] = 0]
      /\ restarts' = [restarts EXCEPT ![n] = @ + 1]
  BY DEF Restart, ResumeAt
<1>2. /\ window' = [window EXCEPT ![n] = <<>>]
      /\ verified' = [verified EXCEPT ![n] = {}]
      /\ active' = [active EXCEPT ![n] = {}]
      /\ vetoed' = [vetoed EXCEPT ![n] = {}]
      /\ remoteRoots' = [remoteRoots EXCEPT ![n] = [w \in Nodes |-> NoHash]]
      /\ seen' = [seen EXCEPT ![n] = [w \in Nodes |-> 0]]
      /\ caps' = [caps EXCEPT ![n] = [w \in Nodes |-> IF w = n THEN "cpu" ELSE Unknown]]
  BY DEF Restart
<1>3. window' \in [Nodes -> Seq(Entry)] /\ \A m \in Nodes : Len(window'[m]) <= Capacity
  <2>1. <<>> \in Seq(Entry) /\ Len(<<>>) <= Capacity
    BY StigmergyAssumption
  <2> QED BY <1>t, <1>2, <2>1 DEF TypeOK
<1>4. /\ cursor' \in [Nodes -> Nat] /\ localSeq' \in [Nodes -> Nat]
      /\ \A m \in Nodes : cursor'[m] <= Len(log')
      /\ log' \in Seq(Message) /\ minted' \in Nat
  BY <1>t, <1>1 DEF TypeOK
<1>5. /\ verified' \in [Nodes -> SUBSET Entry] /\ active' \in [Nodes -> SUBSET Entry]
      /\ vetoed' \in [Nodes -> SUBSET TraceId]
      /\ remoteRoots' \in [Nodes -> [Nodes -> Nat]]
      /\ seen' \in [Nodes -> [Nodes -> Nat]]
      /\ caps' \in [Nodes -> [Nodes -> Capability \cup {Unknown}]]
  BY <1>t, <1>2 DEF TypeOK, NoHash, Capability
<1>6. TypeOK'
  BY <1>3, <1>4, <1>5 DEF TypeOK
<1>7. PreferredExists'
  <2>1. ASSUME NEW m \in Nodes, NEW w, NEW id
        PROVE  WriterSiblings(m, w, id)' = IF m = n THEN {} ELSE WriterSiblings(m, w, id)
    BY <1>t, <1>2, <2>1 DEF WriterSiblings, TypeOK
  <2> QED BY <2>1 DEF PreferredExists, IsPreferred, NodeTypeInv, TypeInv
<1>8. OrchestratorTypeOK'
  <2>1. StaleAfter + 1 \in Ages
    BY OrchestratorAssumption DEF Ages
  <2>2. /\ orchSeq' \in [Nodes -> Nat] /\ orchSeen' \in [Nodes -> [Nodes -> Nat]]
        /\ age' \in [Nodes -> [Nodes -> Ages]] /\ silence' \in [Nodes -> [Nodes -> Ages]]
    BY <2>1 DEF Restart, NodeTypeInv, OrchestratorTypeOK
  <2>3. /\ table' \in [Nodes -> [Nodes -> Capability \cup {Absent}]]
        /\ \A m \in Nodes : m \in Members(m)'
    BY DEF Restart, NodeTypeInv, OrchestratorTypeOK, Members, Capability, Absent
  <2> QED BY <2>2, <2>3 DEF OrchestratorTypeOK
<1> QED BY <1>1, <1>6, <1>7, <1>8 DEF NodeTypeInv, TypeInv

LEMMA NodeTypeStep == NodeTypeInv /\ [NodeNext]_nodeVars => NodeTypeInv'
<1> SUFFICES ASSUME NodeTypeInv, [NodeNext]_nodeVars PROVE NodeTypeInv'
  OBVIOUS
<1>t. /\ TypeInv /\ TypeOK /\ OrchestratorTypeOK /\ restarts \in [Nodes -> Nat]
      /\ log \in Seq(Message) /\ Len(log) \in Nat
      /\ cursor \in [Nodes -> Nat] /\ \A n \in Nodes : cursor[n] <= Len(log)
      /\ localSeq \in [Nodes -> Nat]
      /\ caps \in [Nodes -> [Nodes -> Capability \cup {Unknown}]]
  BY DEF NodeTypeInv, TypeInv, TypeOK
<1>o. ASSUME UNCHANGED orchVars PROVE OrchestratorTypeOK'
  BY <1>t, <1>o DEF orchVars, OrchestratorTypeOK, Members
<1>1. ASSUME NEW n \in Nodes, StigmergyStep(n), UNCHANGED restarts PROVE NodeTypeInv'
  <2>1. [Next]_vars
    BY <1>1 DEF StigmergyStep, Next
  <2> QED BY <1>t, <1>o, <1>1, <2>1, TypeStep DEF StigmergyStep, NodeTypeInv
<1>2. ASSUME NEW n \in Nodes, NodeDeliver(n), UNCHANGED restarts PROVE NodeTypeInv'
  <2>1. [Next]_vars
    BY <1>2 DEF NodeDeliver, Deliver, Next
  <2>2. NextMessage(n) \in Message
    BY <1>t, <1>2, NextMessageTyped DEF NodeDeliver
  <2>3. OrchestratorTypeOK'
    BY <1>t, <1>2, <2>2, HeardTyped, ObserveTyped DEF NodeDeliver
  <2> QED BY <1>t, <1>2, <2>1, <2>3, TypeStep DEF NodeTypeInv
<1>3. ASSUME NEW n \in Nodes, NodeRedeliver(n), UNCHANGED restarts PROVE NodeTypeInv'
  <2>1. PICK k \in 1..cursor[n] : HandleInbound(n, log[k]) /\ Observe(n, log[k])
    BY <1>3 DEF NodeRedeliver
  <2>2. [Next]_vars
    BY <1>3, <2>1 DEF NodeRedeliver, Redeliver, Next
  <2>3. log[k] \in Message
    BY <1>t
  <2>4. silence' \in [Nodes -> [Nodes -> Ages]]
    BY <1>t, <1>3 DEF NodeRedeliver, OrchestratorTypeOK
  <2>5. OrchestratorTypeOK'
    BY <1>t, <2>1, <2>3, <2>4, ObserveTyped
  <2> QED BY <1>t, <1>3, <2>2, <2>5, TypeStep DEF NodeTypeInv
<1>4. ASSUME NEW n \in Nodes, Tick(n), Publish(<<CapabilityMsg(n, orchSeq[n] + 1, table[n][n])>>),
             UNCHANGED <<cursor, stigmergyVars, restarts>>
      PROVE  NodeTypeInv'
  <2>1. orchSeq[n] + 1 \in Nat /\ table[n][n] \in Capability
    BY <1>t DEF OrchestratorTypeOK, Members
  <2> DEFINE m == CapabilityMsg(n, orchSeq[n] + 1, table[n][n])
  <2>2. <<m>> \in Seq(Message) /\ Len(<<m>>) = 1
    BY <2>1, CapabilityMsgTyped
  <2>3. log' \in Seq(Message) /\ Len(log') = Len(log) + 1
    BY <1>t, <1>4, <2>2, PublishKeeps
  <2>4. TypeInv'
    BY <1>t, <1>4, <2>3, TypedUnderLog DEF stigmergyVars
  <2> QED BY <1>t, <1>4, <2>4, TickTyped DEF NodeTypeInv
<1>5. ASSUME NEW n \in Nodes, NEW cuda \in Capability, NEW ms \in Seq(Message), Announce(n, cuda),
             Publish(ms), localSeq' \in [Nodes -> Nat],
             caps' \in [Nodes -> [Nodes -> Capability \cup {Unknown}]],
             UNCHANGED <<cursor, minted, window, verified, active, remoteRoots, seen, vetoed, restarts>>
      PROVE  NodeTypeInv'
  <2>1. log' \in Seq(Message) /\ Len(log') = Len(log) + Len(ms) /\ Len(ms) \in Nat
    BY <1>t, <1>5, PublishKeeps
  <2>2. TypeInv'
    BY <1>t, <1>5, <2>1, TypedUnderLog
  <2> QED BY <1>t, <1>5, <2>2, AnnounceTyped DEF NodeTypeInv
<1>6. ASSUME NEW n \in Nodes, NEW cuda \in Capability, NodeSetCapability(n, cuda), UNCHANGED restarts
      PROVE  NodeTypeInv'
  <2>1. <<CapabilityMsg(n, orchSeq[n] + 1, cuda), CapabilityMsg(n, localSeq[n] + 1, cuda)>> \in Seq(Message)
    BY <1>t, CapabilityMsgTyped DEF OrchestratorTypeOK
  <2>2. localSeq' \in [Nodes -> Nat] /\ caps' \in [Nodes -> [Nodes -> Capability \cup {Unknown}]]
    BY <1>t, <1>6 DEF NodeSetCapability
  <2> QED BY <1>5, <1>6, <2>1, <2>2 DEF NodeSetCapability
<1>7. ASSUME NEW n \in Nodes, NEW cuda \in Capability, SetCapability(n, cuda),
             UNCHANGED <<stigmergyVars, restarts>>
      PROVE  NodeTypeInv'
  <2>1. <<CapabilityMsg(n, orchSeq[n] + 1, cuda)>> \in Seq(Message)
    BY <1>t, CapabilityMsgTyped DEF OrchestratorTypeOK
  <2> QED BY <1>t, <1>5, <1>7, <2>1 DEF SetCapability, stigmergyVars
<1>8. ASSUME NEW n \in Nodes, ReceiveHeartbeat(n), UNCHANGED <<stigmergyVars, restarts>>
      PROVE  NodeTypeInv'
  <2>1. /\ NextMessage(n) \in Message /\ cursor' \in [Nodes -> Nat] /\ log' = log
        /\ \A m \in Nodes : cursor'[m] <= Len(log')
    BY <1>t, <1>8, NextMessageTyped DEF ReceiveHeartbeat, Consume
  <2>2. OrchestratorTypeOK'
    BY <1>t, <1>8, <2>1, HeardTyped, ObserveTyped DEF ReceiveHeartbeat
  <2>3. TypeInv'
    BY <1>t, <1>8, <2>1, TypedUnderLog DEF stigmergyVars
  <2> QED BY <1>t, <1>8, <2>2, <2>3 DEF NodeTypeInv
<1>9. ASSUME UNCHANGED vars PROVE TypeInv'
  BY <1>t, <1>9, TypeStep
<1>10. ASSUME NEW n \in Nodes, RereceiveHeartbeat(n), UNCHANGED <<stigmergyVars, restarts>>
       PROVE  NodeTypeInv'
  <2>1. PICK k \in 1..cursor[n] : Observe(n, log[k])
    BY <1>10 DEF RereceiveHeartbeat
  <2>2. log[k] \in Message
    BY <1>t
  <2>3. silence' \in [Nodes -> [Nodes -> Ages]]
    BY <1>t, <1>10 DEF RereceiveHeartbeat, OrchestratorTypeOK
  <2>4. OrchestratorTypeOK'
    BY <1>t, <2>1, <2>2, <2>3, ObserveTyped
  <2>5. TypeInv'
    BY <1>9, <1>10 DEF RereceiveHeartbeat, vars
  <2> QED BY <1>t, <1>10, <2>4, <2>5 DEF NodeTypeInv
<1>11. ASSUME Elapse, UNCHANGED <<vars, restarts>> PROVE NodeTypeInv'
  BY <1>t, <1>9, <1>11, ElapseTyped DEF NodeTypeInv
<1>12. ASSUME UNCHANGED nodeVars PROVE NodeTypeInv'
  BY <1>t, <1>o, <1>9, <1>12 DEF nodeVars, NodeTypeInv
<1>13. ASSUME OrchestrationNext, UNCHANGED <<stigmergyVars, restarts>> PROVE NodeTypeInv'
  BY <1>4, <1>7, <1>8, <1>10, <1>11, <1>13 DEF OrchestrationNext, Heartbeat, vars
<1>14. ASSUME NEW n \in Nodes, BoundStep(n), UNCHANGED restarts PROVE NodeTypeInv'
  BY <1>4, <1>6, <1>14 DEF BoundStep, NodeTick
<1> QED BY <1>1, <1>2, <1>3, <1>11, <1>12, <1>13, <1>14, RestartTyped DEF NodeNext

LEMMA NodeTypeInvariant == NodeSpec => []NodeTypeInv
  BY NodeTypeInit, NodeTypeStep, PTL DEF NodeSpec

(* Every set of ranks that is not empty has a smallest.                    *)
LEMMA LeastRank ==
    ASSUME NEW S \in SUBSET Nat, S # {}
    PROVE  \E x \in S : \A y \in S : x <= y
<1> DEFINE R == {p \in Nat \X Nat : p[1] < p[2]}
<1>1. IsWellFoundedOn(R, Nat)
  BY NatLessThanWellFounded DEF OpToRel
<1>2. \A p : p \in R <=> p \in Nat \X Nat /\ p[1] < p[2]
  OBVIOUS
<1> HIDE DEF R
<1>3. PICK x \in S : \A y \in S : ~ (<<y, x>> \in R)
  BY <1>1, WFMin
<1>4. \A y \in S : ~ (y < x)
  BY <1>2, <1>3
<1> QED BY <1>4

(* The leader of a key is a member that no member precedes.                *)
LEMMA LeaderRanksFirst ==
    ASSUME NodeTypeInv, NEW n \in Nodes, NEW key \in Keys
    PROVE  /\ LeaderForKey(n, key) \in Members(n)
           /\ \A o \in Members(n) : Rank[key][LeaderForKey(n, key)] <= Rank[key][o]
<1> DEFINE S == {Rank[key][m] : m \in Members(n)}
<1>1. S \in SUBSET Nat /\ S # {}
  BY OrchestratorAssumption DEF NodeTypeInv, OrchestratorTypeOK, Members
<1>2. PICK x \in S : \A y \in S : x <= y
  BY <1>1, LeastRank
<1>3. \E m \in Members(n) : \A o \in Members(n) : Rank[key][m] <= Rank[key][o]
  BY <1>2
<1> QED BY <1>3 DEF LeaderForKey

-----------------------------------------------------------------------------
(* Orchestrators alone: their numbering is not shared, so every heartbeat  *)
(* is taken, and the table tells what was heard within the window.         *)

OrchestratorsInv ==
    /\ \A k \in 1..Len(log) : log[k].type = "capability" /\ log[k].seq <= orchSeq[log[k].from]
    /\ \A i, j \in 1..Len(log) : i < j /\ log[i].from = log[j].from => log[i].seq < log[j].seq
    /\ \A n \in Nodes : \A k \in 1..Len(log) : log[k].from # n =>
          /\ k > cursor[n] => orchSeen[n][log[k].from] < log[k].seq
          /\ k <= cursor[n] => log[k].seq <= orchSeen[n][log[k].from]
    /\ \A n, m \in Nodes : orchSeen[n][m] <= orchSeq[m]
    /\ \A n, m \in Nodes : m # n => age[n][m] <= silence[n][m]
    /\ \A n, m \in Nodes : m # n /\ silence[n][m] <= StaleAfter => table[n][m] # Absent
    /\ \A n, m \in Nodes : m # n /\ table[n][m] # Absent /\ Announced(n, m) # {} =>
          NewestOf(n, m, table[n][m])

LEMMA OrchestratorsInvMeaning == OrchestratorsInv => ObservedPeerIsMember /\ MemberCapabilityIsCurrent
BY DEF OrchestratorsInv, ObservedPeerIsMember, MemberCapabilityIsCurrent, Members, Announced, NewestOf

(* The types the following steps use.                                      *)
NodeTypes ==
    /\ log \in Seq(Message) /\ orchSeq \in [Nodes -> Nat] /\ orchSeen \in [Nodes -> [Nodes -> Nat]]
    /\ cursor \in [Nodes -> Nat] /\ \A m \in Nodes : cursor[m] <= Len(log)
    /\ age \in [Nodes -> [Nodes -> Nat]] /\ silence \in [Nodes -> [Nodes -> Nat]]
    /\ table \in [Nodes -> [Nodes -> Capability \cup {Absent}]]
    /\ StaleAfter \in Nat

LEMMA NodeTyped == ASSUME NodeTypeInv PROVE NodeTypes
<1>1. Ages \subseteq Nat /\ StaleAfter \in Nat
  BY OrchestratorAssumption DEF Ages
<1>2. age \in [Nodes -> [Nodes -> Nat]] /\ silence \in [Nodes -> [Nodes -> Nat]]
  BY <1>1 DEF NodeTypeInv, OrchestratorTypeOK
<1> QED BY <1>1, <1>2 DEF NodeTypes, NodeTypeInv, TypeInv, TypeOK, OrchestratorTypeOK

(* An announcement is numbered above all before it.                        *)
LEMMA OrchestratorPublishes ==
    ASSUME NodeTypeInv, OrchestratorsInv, NEW n \in Nodes, NEW cuda \in Capability,
           Publish(<<CapabilityMsg(n, orchSeq[n] + 1, cuda)>>),
           orchSeq' = [orchSeq EXCEPT ![n] = @ + 1],
           \A a, b \in Nodes : a # b => \/ table'[a][b] = table[a][b]
                                        \/ table'[a][b] = Absent /\ age[a][b] > StaleAfter,
           UNCHANGED <<cursor, orchSeen, age, silence>>
    PROVE  OrchestratorsInv'
<1> DEFINE msg == CapabilityMsg(n, orchSeq[n] + 1, cuda)
<1>t. NodeTypes
  BY NodeTyped
<1> USE DEF NodeTypes
<1>m. msg \in Message /\ msg.from = n /\ msg.seq = orchSeq[n] + 1 /\ msg.type = "capability"
  BY <1>t, CapabilityMsgTyped
<1> HIDE DEF msg
<1>g. /\ Len(log) \in Nat /\ Len(log') = Len(log) + 1 /\ log'[Len(log) + 1] = msg
      /\ \A k \in 1..Len(log) : log'[k] = log[k] /\ log[k].from \in Nodes /\ log[k].seq \in Nat
  <2>1. <<msg>> \in Seq(Message) /\ Len(<<msg>>) = 1 /\ <<msg>>[1] = msg /\ 1 \in 1..1
    BY <1>m
  <2>2. /\ Len(log) \in Nat /\ Len(log') = Len(log) + 1
        /\ \A k \in 1..Len(log) : log'[k] = log[k]
        /\ log'[Len(log) + 1] = msg
    BY <1>t, <2>1, PublishKeeps DEF msg
  <2>3. \A k \in 1..Len(log) : log[k] \in Message
    BY <1>t
  <2> QED BY <2>2, <2>3, MessageFields
<1>k. \A k \in 1..Len(log') : k \in 1..Len(log) \/ k = Len(log) + 1
  BY <1>g
<1>q. \A m \in Nodes : orchSeq'[m] = IF m = n THEN orchSeq[n] + 1 ELSE orchSeq[m]
  BY <1>t
<1>1. \A k \in 1..Len(log') : log'[k].type = "capability" /\ log'[k].seq <= orchSeq'[log'[k].from]
  <2>1. \A k \in 1..Len(log) : log[k].type = "capability" /\ log[k].seq <= orchSeq[log[k].from]
    BY DEF OrchestratorsInv
  <2>2. \A m \in Nodes : orchSeq[m] <= orchSeq'[m] /\ orchSeq[m] \in Nat /\ orchSeq'[m] \in Nat
    <3>1. \A m \in Nodes : orchSeq[m] \in Nat
      BY <1>t
    <3>2. ASSUME NEW m \in Nodes PROVE orchSeq[m] <= orchSeq'[m] /\ orchSeq'[m] \in Nat
      <4>1. CASE m = n
        BY <1>q, <3>1, <4>1
      <4>2. CASE m # n
        BY <1>q, <3>1, <4>2
      <4> QED BY <4>1, <4>2
    <3> QED BY <3>1, <3>2
  <2>3. \A k \in 1..Len(log) : log'[k].seq <= orchSeq'[log'[k].from]
    BY <1>g, <2>1, <2>2
  <2>4. msg.seq <= orchSeq'[msg.from]
    BY <1>m, <1>q, <2>2
  <2> QED BY <1>g, <1>k, <1>m, <2>1, <2>3, <2>4
<1>2. \A i, j \in 1..Len(log') : i < j /\ log'[i].from = log'[j].from => log'[i].seq < log'[j].seq
  <2> SUFFICES ASSUME NEW i \in 1..Len(log'), NEW j \in 1..Len(log'), i < j, log'[i].from = log'[j].from
               PROVE  log'[i].seq < log'[j].seq
    OBVIOUS
  <2>1. i \in 1..Len(log)
    BY <1>g
  <2>2. CASE j \in 1..Len(log)
    BY <1>g, <2>1, <2>2 DEF OrchestratorsInv
  <2>3. CASE j = Len(log) + 1
    <3>1. log[i].seq <= orchSeq[n] /\ log[i].seq \in Nat /\ orchSeq[n] \in Nat
      <4>1. log[i].from = n
        BY <1>g, <1>m, <2>1, <2>3
      <4>2. log[i].seq <= orchSeq[log[i].from]
        BY <2>1 DEF OrchestratorsInv
      <4> QED BY <1>t, <1>g, <2>1, <4>1, <4>2
    <3> QED BY <1>g, <1>m, <2>1, <2>3, <3>1
  <2> QED BY <1>k, <2>2, <2>3
<1>3. \A m \in Nodes : \A k \in 1..Len(log') : log'[k].from # m =>
         /\ k > cursor'[m] => orchSeen'[m][log'[k].from] < log'[k].seq
         /\ k <= cursor'[m] => log'[k].seq <= orchSeen'[m][log'[k].from]
  <2> SUFFICES ASSUME NEW m \in Nodes, NEW k \in 1..Len(log'), log'[k].from # m
               PROVE  /\ k > cursor[m] => orchSeen[m][log'[k].from] < log'[k].seq
                      /\ k <= cursor[m] => log'[k].seq <= orchSeen[m][log'[k].from]
    OBVIOUS
  <2>1. CASE k \in 1..Len(log)
    BY <1>g, <2>1 DEF OrchestratorsInv
  <2>2. CASE k = Len(log) + 1
    <3>1. cursor[m] \in Nat /\ cursor[m] <= Len(log)
      BY <1>t
    <3>2. orchSeen[m][n] <= orchSeq[n] /\ orchSeen[m][n] \in Nat /\ orchSeq[n] \in Nat
      BY <1>t DEF OrchestratorsInv
    <3> QED BY <1>g, <1>m, <2>2, <3>1, <3>2
  <2> QED BY <1>k, <2>1, <2>2
<1>4. \A m, w \in Nodes : orchSeen'[m][w] <= orchSeq'[w]
  <2>1. \A m, w \in Nodes : orchSeen[m][w] <= orchSeq[w] /\ orchSeen[m][w] \in Nat /\ orchSeq[w] \in Nat
    BY <1>t DEF OrchestratorsInv
  <2> QED BY <1>q, <2>1
<1>5. \A m, w \in Nodes : w # m => age'[m][w] <= silence'[m][w]
  BY DEF OrchestratorsInv
<1>6. \A m, w \in Nodes : w # m /\ silence'[m][w] <= StaleAfter => table'[m][w] # Absent
  <2> SUFFICES ASSUME NEW m \in Nodes, NEW w \in Nodes, w # m, silence[m][w] <= StaleAfter
               PROVE  table'[m][w] # Absent
    OBVIOUS
  <2>1. age[m][w] <= silence[m][w] /\ age[m][w] \in Nat /\ silence[m][w] \in Nat
    BY <1>t DEF OrchestratorsInv
  <2>t. StaleAfter \in Nat
    BY OrchestratorAssumption
  <2> HIDE DEF NodeTypes
  <2>2. ~(age[m][w] > StaleAfter)
    BY <2>1, <2>t
  <2>3. table'[m][w] = table[m][w]
    BY <2>2
  <2> QED BY <2>3 DEF OrchestratorsInv
<1>7. \A m, w \in Nodes : w # m /\ table'[m][w] # Absent /\ Announced(m, w)' # {} =>
         NewestOf(m, w, table[m][w])'
  <2> SUFFICES ASSUME NEW m \in Nodes, NEW w \in Nodes, w # m, table'[m][w] # Absent,
                      Announced(m, w)' # {}
               PROVE  NewestOf(m, w, table[m][w])'
    OBVIOUS
  <2>1. table'[m][w] = table[m][w]
    OBVIOUS
  <2>2. \A k \in 1..cursor[m] : log'[k] = log[k]
    BY <1>t, <1>g
  <2>3. Announced(m, w)' = Announced(m, w) /\ \A k \in Announced(m, w) : log'[k] = log[k]
    BY <2>2 DEF Announced
  <2>4. NewestOf(m, w, table[m][w])
    BY <2>1, <2>3 DEF OrchestratorsInv
  <2> QED BY <2>1, <2>3, <2>4 DEF NewestOf
<1> QED BY <1>1, <1>2, <1>3, <1>4, <1>5, <1>6, <1>7 DEF OrchestratorsInv

(* A heartbeat handed over for the first time is above all taken before:   *)
(* it replaces the entry of its sender.                                    *)
LEMMA OrchestratorReceives ==
    ASSUME NodeTypeInv, OrchestratorsInv, NEW n \in Nodes, ReceiveHeartbeat(n)
    PROVE  OrchestratorsInv'
<1> DEFINE at == cursor[n] + 1
           msg == log[at]
           w == msg.from
<1>t. NodeTypes
  BY NodeTyped
<1>p. \A m, v \in Nodes : /\ orchSeen[m][v] \in Nat /\ age[m][v] \in Nat /\ silence[m][v] \in Nat
                          /\ cursor[m] \in Nat /\ orchSeq[m] \in Nat
  BY <1>t DEF NodeTypes
<1>1. /\ log' = log /\ cursor' = [cursor EXCEPT ![n] = at] /\ at \in 1..Len(log)
      /\ msg \in Message /\ NextMessage(n) = msg /\ w \in Nodes /\ msg.seq \in Nat
  BY <1>t, MessageFields DEF NodeTypes, ReceiveHeartbeat, Consume, NextMessage
<1>o. /\ orchSeq' = orchSeq
      /\ silence' = [silence EXCEPT ![n][w] = 0]
      /\ IF Taken(n, msg)
         THEN /\ orchSeen' = [orchSeen EXCEPT ![n][w] = msg.seq]
              /\ table' = [table EXCEPT ![n][w] = CapabilityAfter(n, msg)]
              /\ age' = [age EXCEPT ![n][w] = 0]
         ELSE UNCHANGED <<orchSeen, table, age>>
  BY <1>1 DEF ReceiveHeartbeat, Observe, Heard
<1>s. \A k \in 1..Len(log) : log[k].from \in Nodes /\ log[k].seq \in Nat /\ k \in Nat
  BY <1>t, MessageFields DEF NodeTypes
<1>a. at = cursor[n] + 1 /\ log[at] = msg /\ msg.from = w
  OBVIOUS
<1> HIDE DEF msg, w, at
<1>f. msg.type = "capability" /\ msg.seq <= orchSeq[w]
  BY <1>1, <1>a DEF OrchestratorsInv
<1>g. w # n => orchSeen[n][w] < msg.seq
  <2>1. at > cursor[n]
    BY <1>a, <1>p
  <2> QED BY <1>1, <1>a, <2>1 DEF OrchestratorsInv
<1>c. msg.body \in Capability /\ msg.body # Absent
  BY <1>1, <1>f, MessageFields DEF Capability, Absent
<1>u. \A m \in Nodes : cursor'[m] = IF m = n THEN at ELSE cursor[m]
  BY <1>1, <1>t DEF NodeTypes
<1>v. \A m, v \in Nodes : silence'[m][v] = IF m = n /\ v = w THEN 0 ELSE silence[m][v]
  BY <1>1, <1>o, <1>t DEF NodeTypes
<1>h. \A m, v \in Nodes : ~(m = n /\ v = w) => Announced(m, v)' = Announced(m, v)
  <2> SUFFICES ASSUME NEW m \in Nodes, NEW v \in Nodes, ~(m = n /\ v = w)
               PROVE  Announced(m, v)' = Announced(m, v)
    OBVIOUS
  <2>1. CASE m # n
    BY <1>1, <1>u, <2>1 DEF Announced
  <2>2. CASE m = n /\ v # w
    <3>1. \A k : k \in 1..at <=> k \in 1..cursor[n] \/ k = at
      BY <1>a, <1>p
    <3> QED BY <1>1, <1>a, <1>u, <2>2, <3>1 DEF Announced
  <2> QED BY <2>1, <2>2
<1>2. CASE w = n
  <2>1. UNCHANGED <<orchSeen, table, age>>
    BY <1>a, <1>o, <1>2 DEF Taken
  <2>2. \A m \in Nodes : \A k \in 1..Len(log) : log[k].from # m =>
           /\ k > cursor'[m] => orchSeen[m][log[k].from] < log[k].seq
           /\ k <= cursor'[m] => log[k].seq <= orchSeen[m][log[k].from]
    <3> SUFFICES ASSUME NEW m \in Nodes, NEW k \in 1..Len(log), log[k].from # m
                 PROVE  /\ k > cursor'[m] => orchSeen[m][log[k].from] < log[k].seq
                        /\ k <= cursor'[m] => log[k].seq <= orchSeen[m][log[k].from]
      OBVIOUS
    <3>1. m = n => k # at
      BY <1>2, <1>a
    <3>2. /\ k > cursor'[m] => k > cursor[m]
          /\ k <= cursor'[m] => k <= cursor[m]
      BY <1>a, <1>p, <1>u, <1>s, <3>1
    <3> QED BY <3>2 DEF OrchestratorsInv
  <2>3. \A m, v \in Nodes : v # m => Announced(m, v)' = Announced(m, v) /\ silence'[m][v] = silence[m][v]
    BY <1>2, <1>h, <1>v
  <2>4. \A m, v \in Nodes : v # m => age'[m][v] <= silence'[m][v]
    BY <2>1, <2>3 DEF OrchestratorsInv
  <2>5. /\ \A k \in 1..Len(log') : log'[k].type = "capability" /\ log'[k].seq <= orchSeq'[log'[k].from]
        /\ \A i, j \in 1..Len(log') :
              i < j /\ log'[i].from = log'[j].from => log'[i].seq < log'[j].seq
    BY <1>1, <1>o DEF OrchestratorsInv
  <2>6. /\ \A m \in Nodes : \A k \in 1..Len(log') : log'[k].from # m =>
              /\ k > cursor'[m] => orchSeen'[m][log'[k].from] < log'[k].seq
              /\ k <= cursor'[m] => log'[k].seq <= orchSeen'[m][log'[k].from]
        /\ \A m, v \in Nodes : orchSeen'[m][v] <= orchSeq'[v]
    BY <1>1, <1>o, <2>1, <2>2 DEF OrchestratorsInv
  <2>7. \A m, v \in Nodes : v # m /\ silence'[m][v] <= StaleAfter => table'[m][v] # Absent
    BY <2>1, <2>3 DEF OrchestratorsInv
  <2>8. \A m, v \in Nodes : v # m /\ table'[m][v] # Absent /\ Announced(m, v)' # {} =>
            NewestOf(m, v, table[m][v])'
    BY <1>1, <2>1, <2>3 DEF OrchestratorsInv, NewestOf
  <2> QED BY <2>1, <2>4, <2>5, <2>6, <2>7, <2>8 DEF OrchestratorsInv
<1>3. CASE w # n
  <2>1. Taken(n, msg) /\ CapabilityAfter(n, msg) = msg.body
    <3>1. Taken(n, msg)
      BY <1>1, <1>3, <1>a, <1>g, <1>p DEF Taken
    <3> QED BY <1>f, <3>1 DEF CapabilityAfter
  <2>q. /\ orchSeen' = [orchSeen EXCEPT ![n][w] = msg.seq]
        /\ table' = [table EXCEPT ![n][w] = msg.body]
        /\ age' = [age EXCEPT ![n][w] = 0]
    BY <1>o, <2>1
  <2>k. /\ orchSeen \in [Nodes -> [Nodes -> Nat]] /\ age \in [Nodes -> [Nodes -> Nat]]
        /\ table \in [Nodes -> [Nodes -> Capability \cup {Absent}]]
    BY <1>t DEF NodeTypes
  <2>s. \A m, v \in Nodes : orchSeen'[m][v] = IF m = n /\ v = w THEN msg.seq ELSE orchSeen[m][v]
    BY <1>1, <2>k, <2>q
  <2>b. \A m, v \in Nodes : table'[m][v] = IF m = n /\ v = w THEN msg.body ELSE table[m][v]
    BY <1>1, <2>k, <2>q
  <2>a. \A m, v \in Nodes : age'[m][v] = IF m = n /\ v = w THEN 0 ELSE age[m][v]
    BY <1>1, <2>k, <2>q
  <2>2. \A m \in Nodes : \A k \in 1..Len(log) : log[k].from # m =>
           /\ k > cursor'[m] => orchSeen'[m][log[k].from] < log[k].seq
           /\ k <= cursor'[m] => log[k].seq <= orchSeen'[m][log[k].from]
    <3> SUFFICES ASSUME NEW m \in Nodes, NEW k \in 1..Len(log), log[k].from # m
                 PROVE  /\ k > cursor'[m] => orchSeen'[m][log[k].from] < log[k].seq
                        /\ k <= cursor'[m] => log[k].seq <= orchSeen'[m][log[k].from]
      OBVIOUS
    <3>1. CASE m = n /\ log[k].from = w
      <4>1. orchSeen'[m][log[k].from] = msg.seq /\ cursor'[m] = at /\ at \in Nat /\ k \in Nat
        BY <1>1, <1>s, <1>u, <2>s, <3>1
      <4>2. k > at => msg.seq < log[k].seq
        BY <1>1, <1>a, <3>1 DEF OrchestratorsInv
      <4>3. k < at => log[k].seq < msg.seq
        BY <1>1, <1>a, <3>1 DEF OrchestratorsInv
      <4>4. k = at => log[k].seq = msg.seq
        BY <1>a
      <4> QED BY <1>1, <1>s, <4>1, <4>2, <4>3, <4>4
    <3>2. CASE ~(m = n /\ log[k].from = w)
      <4>1. orchSeen'[m][log[k].from] = orchSeen[m][log[k].from]
        BY <1>s, <2>s, <3>2
      <4>2. k # at \/ m # n
        BY <1>a, <3>2
      <4>3. /\ k > cursor'[m] => k > cursor[m]
            /\ k <= cursor'[m] => k <= cursor[m]
        BY <1>a, <1>p, <1>u, <1>s, <4>2
      <4> QED BY <4>1, <4>3 DEF OrchestratorsInv
    <3> QED BY <3>1, <3>2
  <2>3. \A m, v \in Nodes : orchSeen'[m][v] <= orchSeq[v]
    BY <1>f, <2>s DEF OrchestratorsInv
  <2>4. \A m, v \in Nodes : v # m => age'[m][v] <= silence'[m][v]
    BY <1>v, <2>a DEF OrchestratorsInv
  <2>5. \A m, v \in Nodes : v # m /\ silence'[m][v] <= StaleAfter => table'[m][v] # Absent
    BY <1>c, <1>v, <2>b DEF OrchestratorsInv
  <2>6. \A m, v \in Nodes : v # m /\ table'[m][v] # Absent /\ Announced(m, v)' # {} =>
           NewestOf(m, v, table[m][v])'
    <3> SUFFICES ASSUME NEW m \in Nodes, NEW v \in Nodes, v # m, table'[m][v] # Absent,
                        Announced(m, v)' # {}
                 PROVE  NewestOf(m, v, table[m][v])'
      OBVIOUS
    <3>1. CASE m = n /\ v = w
      <4>1. table'[m][v] = msg.body
        BY <2>b, <3>1
      <4>2. at \in Announced(m, v)' /\ \A j \in Announced(m, v)' : j <= at
        BY <1>1, <1>a, <1>f, <1>u, <3>1 DEF Announced
      <4> QED BY <1>1, <1>a, <4>1, <4>2 DEF NewestOf
    <3>2. CASE ~(m = n /\ v = w)
      <4>1. table'[m][v] = table[m][v]
        BY <2>b, <3>2
      <4>2. Announced(m, v)' = Announced(m, v)
        BY <1>h, <3>2
      <4> QED BY <1>1, <4>1, <4>2 DEF OrchestratorsInv, NewestOf
    <3> QED BY <3>1, <3>2
  <2> QED BY <1>1, <1>o, <2>2, <2>3, <2>4, <2>5, <2>6 DEF OrchestratorsInv
<1> QED BY <1>2, <1>3

(* A heartbeat handed over again is taken only if it is the newest heard   *)
(* of its sender, and then says nothing new.                               *)
LEMMA OrchestratorRereceives ==
    ASSUME NodeTypeInv, OrchestratorsInv, NEW n \in Nodes, RereceiveHeartbeat(n)
    PROVE  OrchestratorsInv'
<1>t. NodeTypes
  BY NodeTyped
<1>0. PICK k \in 1..cursor[n] : Observe(n, log[k])
  BY DEF RereceiveHeartbeat
<1> DEFINE msg == log[k]
           w == msg.from
<1>1. /\ log' = log /\ cursor' = cursor /\ silence' = silence /\ orchSeq' = orchSeq
      /\ k \in 1..Len(log)
  BY <1>0, <1>t DEF NodeTypes, RereceiveHeartbeat, transportVars, Observe
<1>2. msg \in Message /\ w \in Nodes /\ msg.seq \in Nat /\ msg.type = "capability"
  <2>1. msg \in Message
    BY <1>1, <1>t DEF NodeTypes
  <2> QED BY <1>1, <2>1, MessageFields DEF OrchestratorsInv
<1>c. msg.body \in Capability /\ msg.body # Absent
  BY <1>2, MessageFields DEF Capability, Absent
<1>s. \A j \in 1..Len(log) : log[j].from \in Nodes /\ log[j].seq \in Nat /\ j \in Nat
  BY <1>t, MessageFields DEF NodeTypes
<1>h. \A m, v \in Nodes : Announced(m, v)' = Announced(m, v)
  BY <1>1 DEF Announced
<1>3. CASE ~Taken(n, msg)
  <2>1. UNCHANGED <<orchSeen, table, age>>
    BY <1>0, <1>3 DEF Observe
  <2> QED BY <1>1, <1>h, <2>1 DEF OrchestratorsInv, NewestOf
<1>4. CASE Taken(n, msg)
  <2>1. w # n /\ msg.seq = orchSeen[n][w]
    <3>1. w # n /\ msg.seq >= orchSeen[n][w]
      BY <1>4 DEF Taken
    <3>2. k <= cursor[n]
      BY <1>0, <1>t DEF NodeTypes
    <3>3. msg.seq <= orchSeen[n][w] /\ orchSeen[n][w] \in Nat
      BY <1>1, <1>2, <1>t, <3>1, <3>2 DEF OrchestratorsInv, NodeTypes
    <3> QED BY <1>2, <3>1, <3>3
  <2>2. CapabilityAfter(n, msg) = msg.body
    BY <1>2 DEF CapabilityAfter
  <2>q. /\ orchSeen' = [orchSeen EXCEPT ![n][w] = msg.seq]
        /\ table' = [table EXCEPT ![n][w] = msg.body]
        /\ age' = [age EXCEPT ![n][w] = 0]
    BY <1>0, <1>4, <2>2 DEF Observe
  <2>k. /\ orchSeen \in [Nodes -> [Nodes -> Nat]] /\ age \in [Nodes -> [Nodes -> Nat]]
        /\ silence \in [Nodes -> [Nodes -> Nat]]
        /\ table \in [Nodes -> [Nodes -> Capability \cup {Absent}]]
    BY <1>t DEF NodeTypes
  <2> HIDE DEF msg, w
  <2>s. orchSeen' = orchSeen
    BY <1>2, <2>1, <2>k, <2>q
  <2>b. \A m, v \in Nodes : table'[m][v] = IF m = n /\ v = w THEN msg.body ELSE table[m][v]
    BY <1>2, <2>k, <2>q
  <2>a. \A m, v \in Nodes : age'[m][v] = IF m = n /\ v = w THEN 0 ELSE age[m][v]
    BY <1>2, <2>k, <2>q
  <2>4. \A m, v \in Nodes : v # m => age'[m][v] <= silence'[m][v]
    <3> SUFFICES ASSUME NEW m \in Nodes, NEW v \in Nodes, v # m PROVE age'[m][v] <= silence[m][v]
      BY <1>1
    <3>1. age[m][v] <= silence[m][v] /\ 0 <= silence[m][v]
      BY <2>k DEF OrchestratorsInv
    <3> QED BY <2>a, <3>1
  <2>5. \A m, v \in Nodes : v # m /\ silence'[m][v] <= StaleAfter => table'[m][v] # Absent
    BY <1>c, <1>1, <2>b DEF OrchestratorsInv
  <2>6. \A m, v \in Nodes : v # m /\ table'[m][v] # Absent /\ Announced(m, v)' # {} =>
           NewestOf(m, v, table[m][v])'
    <3> SUFFICES ASSUME NEW m \in Nodes, NEW v \in Nodes, v # m, table'[m][v] # Absent,
                        Announced(m, v)' # {}
                 PROVE  NewestOf(m, v, table[m][v])'
      OBVIOUS
    <3>1. CASE m = n /\ v = w
      <4>1. table'[m][v] = msg.body
        BY <2>b, <3>1
      <4>2. k \in Announced(m, v)
        BY <1>0, <1>2, <3>1 DEF Announced, msg, w
      <4>3. ASSUME NEW j \in Announced(m, v) PROVE j <= k
        <5>1. /\ j \in 1..Len(log) /\ j <= cursor[n] /\ log[j].from = w
          <6>1. cursor[n] \in Nat /\ Len(log) \in Nat /\ cursor[n] <= Len(log)
            BY <1>t DEF NodeTypes
          <6>2. j \in 1..cursor[n] /\ log[j].from = w
            BY <3>1 DEF Announced
          <6> QED BY <6>1, <6>2
        <5>2. log[j].seq <= orchSeen[n][w]
          BY <2>1, <5>1 DEF OrchestratorsInv
        <5>3. k < j => log[k].seq < log[j].seq
          BY <1>1, <5>1 DEF OrchestratorsInv, w, msg
        <5>4. log[j].seq \in Nat /\ log[k].seq = orchSeen[n][w] /\ orchSeen[n][w] \in Nat
          BY <1>s, <1>2, <2>1, <5>1 DEF msg
        <5> QED BY <1>s, <1>1, <5>1, <5>2, <5>3, <5>4
      <4> QED BY <1>1, <1>h, <4>1, <4>2, <4>3 DEF NewestOf, msg
    <3>2. CASE ~(m = n /\ v = w)
      <4>1. table'[m][v] = table[m][v]
        BY <2>b, <3>2
      <4> QED BY <1>1, <1>h, <4>1 DEF OrchestratorsInv, NewestOf
    <3> QED BY <3>1, <3>2
  <2> QED BY <1>1, <2>s, <2>4, <2>5, <2>6 DEF OrchestratorsInv
<1> QED BY <1>3, <1>4

LEMMA OrchestratorElapses ==
    ASSUME NodeTypeInv, OrchestratorsInv, Elapse, UNCHANGED transportVars
    PROVE  OrchestratorsInv'
<1>1. /\ log' = log /\ cursor' = cursor /\ UNCHANGED <<orchSeq, orchSeen, table>>
      /\ \A m, v \in Nodes : age'[m][v] = Older(age[m][v]) /\ silence'[m][v] = Older(silence[m][v])
  BY DEF Elapse, transportVars
<1>2. \A m, v \in Nodes : age[m][v] \in Ages /\ silence[m][v] \in Ages
  BY DEF NodeTypeInv, OrchestratorTypeOK
<1>3. \A a, b \in Ages : a <= b => Older(a) <= Older(b)
  BY OrchestratorAssumption DEF Ages, Older
<1>4. \A b \in Ages : Older(b) <= StaleAfter => b <= StaleAfter
  BY OrchestratorAssumption DEF Ages, Older
<1>5. \A m, v \in Nodes : v # m => age'[m][v] <= silence'[m][v]
  BY <1>1, <1>2, <1>3 DEF OrchestratorsInv
<1>6. \A m, v \in Nodes : v # m /\ silence'[m][v] <= StaleAfter => table'[m][v] # Absent
  BY <1>1, <1>2, <1>4 DEF OrchestratorsInv
<1>7. \A m, v \in Nodes : Announced(m, v)' = Announced(m, v)
  BY <1>1 DEF Announced
<1> QED BY <1>1, <1>5, <1>6, <1>7 DEF OrchestratorsInv, NewestOf

LEMMA OrchestratorsStep ==
    ASSUME NodeTypeInv, OrchestratorsInv, OrchestrationNext
    PROVE  OrchestratorsInv'
<1>t. NodeTypes
  BY NodeTyped
<1>1. ASSUME NEW n \in Nodes, Heartbeat(n) PROVE OrchestratorsInv'
  <2>1. table[n][n] \in Capability
    BY DEF NodeTypeInv, OrchestratorTypeOK, Members
  <2>2. ASSUME NEW a \in Nodes, NEW b \in Nodes, a # b
        PROVE  \/ table'[a][b] = table[a][b]
               \/ table'[a][b] = Absent /\ age[a][b] > StaleAfter
    <3> DEFINE row == [m \in Nodes |-> IF Stale(n, m) THEN Absent ELSE table[n][m]]
    <3>1. table' = [table EXCEPT ![n] = row]
      BY <1>1 DEF Heartbeat, Tick
    <3>2. table \in [Nodes -> [Nodes -> Capability \cup {Absent}]]
      BY <1>t DEF NodeTypes
    <3>3. row[b] = IF Stale(n, b) THEN Absent ELSE table[n][b]
      OBVIOUS
    <3> HIDE DEF row
    <3>4. table'[a][b] = IF a = n THEN row[b] ELSE table[a][b]
      BY <3>1, <3>2
    <3> QED BY <3>3, <3>4 DEF Stale
  <2> QED BY <1>1, <2>1, <2>2, OrchestratorPublishes DEF Heartbeat, Tick
<1>2. ASSUME NEW n \in Nodes, NEW cuda \in Capability, SetCapability(n, cuda) PROVE OrchestratorsInv'
  <2>1. \A a, b \in Nodes : a # b => table'[a][b] = table[a][b]
    BY <1>t, <1>2 DEF SetCapability, Announce, NodeTypes
  <2> QED BY <1>2, <2>1, OrchestratorPublishes DEF SetCapability, Announce
<1> QED BY <1>1, <1>2, OrchestratorReceives, OrchestratorRereceives, OrchestratorElapses
        DEF OrchestrationNext

(* staleAfterMs, onMessage: where orchestrators number their messages      *)
(* alone, every peer heard of within the window is in the table with the   *)
(* capability it announced last, for any nodes, window and interleaving of *)
(* heartbeats, repetitions, announcements and ticks.                       *)
THEOREM TablesAreCurrent == NodeSpec => []TableIsCurrent
<1> DEFINE I == deployment = "orchestrators" => OrchestratorsInv
<1>1. NodeInit => I
  BY OrchestratorAssumption DEF NodeInit, Init, TransportInit, OrchestratorInit, OrchestratorsInv, Announced
<1>2. NodeTypeInv /\ I /\ [NodeNext]_nodeVars => I'
  <2> SUFFICES ASSUME NodeTypeInv, deployment' = "orchestrators" => I, [NodeNext]_nodeVars, deployment' = "orchestrators"
               PROVE  OrchestratorsInv'
    OBVIOUS
  <2>1. deployment = "orchestrators"
    BY DEF NodeNext, nodeVars
  <2>2. CASE OrchestrationNext
    BY <2>1, <2>2, OrchestratorsStep
  <2>3. CASE UNCHANGED nodeVars
    BY <2>1, <2>3 DEF nodeVars, vars, transportVars, orchVars, OrchestratorsInv, NewestOf, Announced
  <2> QED BY <2>1, <2>2, <2>3 DEF NodeNext
<1>3. I => TableIsCurrent
  BY OrchestratorsInvMeaning DEF TableIsCurrent
<1> HIDE DEF I
<1> QED BY <1>1, <1>2, <1>3, NodeTypeInvariant, PTL DEF NodeSpec

(* isLeaderFor(): in orchestrators alone a key is owned by two nodes only  *)
(* while one of them was handed nothing of the other for longer than the   *)
(* window, for any nodes, keys and ranks, whatever is repeated or late.    *)
THEOREM OwnersAreOutOfTouch == NodeSpec => []SplitOwnersAreOutOfTouch
<1>1. ASSUME NodeTypeInv, TableIsCurrent PROVE SplitOwnersAreOutOfTouch
  <2> SUFFICES ASSUME deployment = "orchestrators",
                      NEW key \in Keys, NEW n \in Nodes, NEW m \in Nodes, n # m,
                      LeaderForKey(n, key) = n, LeaderForKey(m, key) = m,
                      ~(silence[n][m] > StaleAfter), ~(silence[m][n] > StaleAfter)
               PROVE  FALSE
    BY DEF SplitOwnersAreOutOfTouch, IsLeaderFor
  <2>1. \A a, b \in Nodes : silence[a][b] \in Nat
    BY <1>1, NodeTyped DEF NodeTypes
  <2>2. silence[n][m] <= StaleAfter /\ silence[m][n] <= StaleAfter
    BY <2>1, OrchestratorAssumption
  <2>3. m \in Members(n) /\ n \in Members(m)
    BY <1>1, <2>2 DEF TableIsCurrent, ObservedPeerIsMember
  <2>4. Rank[key][n] <= Rank[key][m] /\ Rank[key][m] <= Rank[key][n]
    BY <1>1, <2>3, LeaderRanksFirst
  <2>5. Rank[key][n] \in Nat /\ Rank[key][m] \in Nat
    BY OrchestratorAssumption
  <2>6. Rank[key][n] = Rank[key][m]
    BY <2>4, <2>5
  <2> QED BY <2>6, OrchestratorAssumption
<1> QED BY <1>1, NodeTypeInvariant, TablesAreCurrent, PTL

-----------------------------------------------------------------------------
(* Stigmergies that restart.  What is said of a sender holds while it has  *)
(* not restarted, for its numbering then begins anew.                      *)

Steady(w) ==
    /\ \A k \in 1..Len(log) : log[k].from = w => log[k].seq \in 1..localSeq[w]
    /\ \A i, j \in 1..Len(log) : i < j /\ log[i].from = w /\ log[j].from = w => log[i].seq < log[j].seq
    /\ \A n \in Nodes : seen[n][w] <= localSeq[w]
    /\ \A n \in Nodes : \A k \in 1..Len(log) : n # w /\ log[k].from = w =>
          /\ k > cursor[n] => seen[n][w] < log[k].seq
          /\ k <= cursor[n] => Applied(n, log[k])

SteadyInv ==
    /\ \A k \in 1..Len(log) : log[k].type = "trace" => log[k].intact
    /\ \A w \in Nodes : restarts[w] = 0 => Steady(w)

StigmergyTypes ==
    /\ log \in Seq(Message)
    /\ cursor \in [Nodes -> Nat] /\ \A m \in Nodes : cursor[m] <= Len(log)
    /\ localSeq \in [Nodes -> Nat] /\ seen \in [Nodes -> [Nodes -> Nat]]

(* What has left its mark keeps it while the node takes, vetoes and counts *)
(* on.                                                                     *)
LEMMA AppliedStays ==
    ASSUME NEW n \in Nodes, NEW msg \in Message, Applied(n, msg),
           seen[n][msg.from] \in Nat, seen'[n][msg.from] \in Nat,
           seen[n][msg.from] <= seen'[n][msg.from],
           verified[n] \subseteq verified'[n], vetoed[n] \subseteq vetoed'[n]
    PROVE  Applied(n, msg)'
<1>1. msg.seq \in Nat
  BY MessageFields
<1> QED BY <1>1 DEF Applied, IsDuplicate

LEMMA SteadyPublishes ==
    ASSUME TypeOK, SteadyInv, NEW n \in Nodes, NEW msg \in Message, PublishesNext(n, msg), msg.intact,
           UNCHANGED restarts
    PROVE  SteadyInv'
<1>t. StigmergyTypes
  BY DEF TypeOK, StigmergyTypes
<1>p. \A m, v \in Nodes : seen[m][v] \in Nat /\ cursor[m] \in Nat /\ localSeq[m] \in Nat
  BY <1>t DEF StigmergyTypes
<1>g. /\ Len(log) \in Nat /\ Len(log') = Len(log) + 1 /\ log'[Len(log) + 1] = msg
      /\ \A k \in 1..Len(log) : log'[k] = log[k] /\ log[k] \in Message
  BY LogGrows
<1>k. \A k \in 1..Len(log') : k \in 1..Len(log) \/ k = Len(log) + 1
  BY <1>g
<1>m. /\ msg.from = n /\ msg.seq = localSeq[n] + 1 /\ cursor' = cursor /\ seen' = seen
      /\ verified' = verified /\ \A m \in Nodes : vetoed[m] \subseteq vetoed'[m]
  BY DEF PublishesNext
<1>q. \A m \in Nodes : localSeq'[m] = IF m = n THEN localSeq[n] + 1 ELSE localSeq[m]
  BY <1>t DEF PublishesNext, StigmergyTypes
<1>s. \A k \in 1..Len(log) : log[k].seq \in Nat /\ log[k].from \in Nodes
  BY <1>g, MessageFields
<1>1. \A k \in 1..Len(log') : log'[k].type = "trace" => log'[k].intact
  BY <1>g, <1>k DEF SteadyInv
<1>2. ASSUME NEW w \in Nodes, Steady(w) PROVE Steady(w)'
  <2>1. \A k \in 1..Len(log) : log[k].from = w => log[k].seq \in 1..localSeq[w]
    BY <1>2 DEF Steady
  <2>2. ASSUME NEW k \in 1..Len(log'), log'[k].from = w PROVE log'[k].seq \in 1..localSeq'[w]
    <3>1. CASE k \in 1..Len(log)
      <4>1. log'[k].seq \in 1..localSeq[w]
        BY <1>g, <2>1, <2>2, <3>1
      <4>2. localSeq[w] \in Nat /\ localSeq'[w] \in Nat /\ localSeq[w] <= localSeq'[w]
        BY <1>p, <1>q
      <4> QED BY <4>1, <4>2
    <3>2. CASE k = Len(log) + 1
      BY <1>g, <1>m, <1>p, <1>q, <2>2, <3>2
    <3> QED BY <1>k, <3>1, <3>2
  <2>3. ASSUME NEW i \in 1..Len(log'), NEW j \in 1..Len(log'), i < j, log'[i].from = w, log'[j].from = w
        PROVE  log'[i].seq < log'[j].seq
    <3>1. i \in 1..Len(log)
      BY <1>g, <2>3
    <3>2. CASE j \in 1..Len(log)
      <4>1. \A a, b \in 1..Len(log) : a < b /\ log[a].from = w /\ log[b].from = w => log[a].seq < log[b].seq
        BY <1>2 DEF Steady
      <4> QED BY <1>g, <2>3, <3>1, <3>2, <4>1
    <3>3. CASE j = Len(log) + 1
      <4>1. w = n /\ log[i].seq \in 1..localSeq[n]
        BY <1>g, <1>m, <2>1, <2>3, <3>1, <3>3
      <4> QED BY <1>g, <1>m, <1>p, <3>1, <3>3, <4>1
    <3> QED BY <1>k, <3>2, <3>3
  <2>4. \A m \in Nodes : seen'[m][w] <= localSeq'[w]
    <3>1. \A m \in Nodes : seen[m][w] <= localSeq[w]
      BY <1>2 DEF Steady
    <3> QED BY <1>m, <1>p, <1>q, <3>1
  <2>5. ASSUME NEW m \in Nodes, NEW k \in 1..Len(log'), m # w, log'[k].from = w
        PROVE  /\ k > cursor'[m] => seen'[m][w] < log'[k].seq
               /\ k <= cursor'[m] => Applied(m, log[k])'
    <3>1. CASE k \in 1..Len(log)
      <4>1. /\ k > cursor[m] => seen[m][w] < log[k].seq
            /\ k <= cursor[m] => Applied(m, log[k])
        BY <1>2, <1>g, <2>5, <3>1 DEF Steady
      <4>x. PICK x \in Message : x = log[k] /\ x = log'[k]
        BY <1>g, <3>1
      <4>y. x.from = w
        BY <2>5, <4>x
      <4>2. Applied(m, x) => Applied(m, x)'
        <5>1. seen[m][x.from] \in Nat /\ seen'[m][x.from] = seen[m][x.from]
          BY <1>m, <1>p, <4>y, <2>5
        <5>2. verified[m] \subseteq verified'[m] /\ vetoed[m] \subseteq vetoed'[m]
          BY <1>m
        <5> QED BY <5>1, <5>2, AppliedStays
      <4>3. Applied(m, log[k])' <=> Applied(m, x)'
        BY <4>x DEF Applied, IsDuplicate
      <4>4. cursor'[m] = cursor[m] /\ seen'[m][w] = seen[m][w]
        BY <1>m
      <4>5. k > cursor'[m] => seen'[m][w] < log'[k].seq
        BY <4>1, <4>4, <4>x
      <4>6. k <= cursor'[m] => Applied(m, x)'
        BY <4>1, <4>2, <4>4, <4>x
      <4> QED BY <4>3, <4>5, <4>6
    <3>2. CASE k = Len(log) + 1
      <4>1. w = n /\ cursor[m] <= Len(log) /\ seen[m][n] <= localSeq[n]
        <5>1. w = n
          BY <1>g, <1>m, <2>5, <3>2
        <5>2. seen[m][n] <= localSeq[n]
          BY <1>2, <5>1 DEF Steady
        <5> QED BY <1>t, <5>1, <5>2 DEF StigmergyTypes
      <4>2. ~(k <= cursor[m]) /\ log'[k].seq = localSeq[n] + 1 /\ seen'[m][w] = seen[m][n]
        BY <1>g, <1>m, <1>p, <3>2, <4>1
      <4>3. cursor'[m] = cursor[m] /\ seen[m][n] \in Nat /\ localSeq[n] \in Nat
        BY <1>m, <1>p
      <4>4. ~(k <= cursor'[m])
        BY <4>2, <4>3
      <4>5. seen'[m][w] < log'[k].seq
        BY <4>1, <4>2, <4>3
      <4> QED BY <4>4, <4>5
    <3> QED BY <1>k, <3>1, <3>2
  <2> QED BY <2>2, <2>3, <2>4, <2>5 DEF Steady
<1> QED BY <1>1, <1>2 DEF SteadyInv

(* Handing over an envelope moves its receiver past it and no further.     *)
LEMMA SteadyHandsOver ==
    ASSUME TypeInv, SteadyInv, NEW n \in Nodes, UNCHANGED restarts,
           NEW k \in 1..Len(log), HandleInbound(n, log[k]), log' = log, cursor' \in [Nodes -> Nat],
           \/ k <= cursor[n] /\ cursor' = cursor
           \/ k = cursor[n] + 1 /\ cursor' = [cursor EXCEPT ![n] = k]
    PROVE  SteadyInv'
<1>t. StigmergyTypes
  BY DEF TypeInv, TypeOK, StigmergyTypes
<1>s. \A j \in 1..Len(log) : log[j] \in Message /\ log[j].seq \in Nat /\ log[j].from \in Nodes /\ j \in Nat
  BY <1>t, MessageFields DEF StigmergyTypes
<1>0. PICK msg \in Message : msg = log[k]
  BY <1>s
<1>h. HandleInbound(n, msg)
  BY <1>0
<1>v. /\ verified' \in [Nodes -> SUBSET Entry] /\ seen' \in [Nodes -> [Nodes -> Nat]]
      /\ UNCHANGED <<minted, localSeq, window>>
  BY <1>h, HandleInboundTyped
<1>p. \A m, v \in Nodes : /\ seen[m][v] \in Nat /\ seen'[m][v] \in Nat /\ cursor[m] \in Nat
                          /\ localSeq[m] \in Nat
  BY <1>t, <1>v DEF StigmergyTypes
<1>m. /\ \A m, v \in Nodes : \/ seen'[m][v] = seen[m][v]
                             \/ m = n /\ v = msg.from /\ Fresh(n, msg) /\ seen'[m][v] = msg.seq
      /\ \A m \in Nodes : verified[m] \subseteq verified'[m] /\ vetoed[m] \subseteq vetoed'[m]
      /\ Fresh(n, msg) /\ Acceptable(n, msg) => Applied(n, msg)'
  BY <1>h, HandleInboundMonotone
<1>u. ASSUME NEW m \in Nodes, NEW v \in Nodes PROVE seen[m][v] <= seen'[m][v]
  <2>1. msg.seq \in Nat /\ seen[m][v] \in Nat /\ seen'[m][v] \in Nat
    BY <1>0, <1>p, <1>s
  <2>2. CASE seen'[m][v] = seen[m][v]
    BY <2>1, <2>2
  <2>3. CASE m = n /\ v = msg.from /\ Fresh(n, msg) /\ seen'[m][v] = msg.seq
    <3>1. msg.seq > seen[m][v]
      BY <2>3 DEF Fresh
    <3> QED BY <2>1, <2>3, <3>1
  <2> QED BY <1>m, <2>2, <2>3
<1>i. msg.from # n => Acceptable(n, msg)
  BY <1>0 DEF SteadyInv, Acceptable
<1>1. \A j \in 1..Len(log') : log'[j].type = "trace" => log'[j].intact
  BY DEF SteadyInv
<1>2. ASSUME NEW w \in Nodes, Steady(w) PROVE Steady(w)'
  <2>1. \A j \in 1..Len(log) : log[j].from = w => log[j].seq \in 1..localSeq[w]
    BY <1>2 DEF Steady
  <2>2. \A i, j \in 1..Len(log) : i < j /\ log[i].from = w /\ log[j].from = w => log[i].seq < log[j].seq
    BY <1>2 DEF Steady
  <2>3. \A m \in Nodes : seen'[m][w] <= localSeq[w]
    <3>1. \A m \in Nodes : seen[m][w] <= localSeq[w]
      BY <1>2 DEF Steady
    <3>2. msg.from = w => msg.seq <= localSeq[w]
      BY <1>0, <1>p, <1>s, <2>1
    <3> QED BY <1>m, <3>1, <3>2
  <2>4. ASSUME NEW m \in Nodes, NEW j \in 1..Len(log), m # w, log[j].from = w
        PROVE  /\ j > cursor'[m] => seen'[m][w] < log[j].seq
               /\ j <= cursor'[m] => Applied(m, log[j])'
    <3>0. PICK x \in Message : x = log[j] /\ x = log'[j] /\ x.from = w
      BY <1>s, <2>4
    <3>1. /\ j > cursor[m] => seen[m][w] < x.seq
          /\ j <= cursor[m] => Applied(m, x)
      BY <1>2, <2>4, <3>0 DEF Steady
    <3>2. Applied(m, x) => Applied(m, x)'
      BY <1>m, <1>p, <1>u, <3>0, AppliedStays
    <3>3. CASE m = n /\ k = cursor[n] + 1 /\ cursor' = [cursor EXCEPT ![n] = k]
      <4>1. cursor'[m] = k
        BY <1>t, <3>3 DEF StigmergyTypes
      <4>2. j > k => seen'[m][w] < x.seq
        <5> SUFFICES ASSUME j > k PROVE seen'[m][w] < x.seq
          OBVIOUS
        <5>1. seen[m][w] < x.seq
          BY <1>p, <1>s, <3>1, <3>3
        <5>2. msg.from = w => msg.seq < x.seq
          BY <1>0, <2>2, <2>4, <3>0
        <5> QED BY <1>m, <5>1, <5>2
      <4>3. j = k => Applied(m, x)'
        <5> SUFFICES ASSUME j = k PROVE Applied(m, x)'
          OBVIOUS
        <5>1. x = msg /\ msg.from = w /\ w # n
          BY <1>0, <2>4, <3>0, <3>3
        <5>2. Fresh(n, msg)
          BY <1>p, <3>1, <3>3, <5>1 DEF Fresh
        <5> QED BY <1>i, <1>m, <3>3, <5>1, <5>2
      <4>4. j < k => Applied(m, x)'
        BY <1>p, <1>s, <3>1, <3>2, <3>3
      <4> QED BY <1>s, <3>0, <4>1, <4>2, <4>3, <4>4
    <3>4. CASE cursor'[m] = cursor[m] /\ (m # n \/ k <= cursor[n])
      <4>1. seen'[m][w] = seen[m][w]
        <5>1. CASE m = n /\ msg.from = w
          <6>1. Applied(n, msg)
            BY <1>0, <1>2, <2>4, <3>4, <5>1 DEF Steady
          <6>2. ~Fresh(n, msg)
            BY <1>0, <1>p, <1>s, <6>1, <5>1 DEF Applied, Fresh
          <6> QED BY <1>m, <6>2
        <5>2. CASE ~(m = n /\ msg.from = w)
          BY <1>m, <5>2
        <5> QED BY <5>1, <5>2
      <4> QED BY <3>0, <3>1, <3>2, <3>4, <4>1
    <3> QED BY <1>t, <3>3, <3>4 DEF StigmergyTypes
  <2> QED BY <1>v, <2>1, <2>2, <2>3, <2>4 DEF Steady
<1> QED BY <1>1, <1>2 DEF SteadyInv

(* Who restarts is steady no more; what it is handed begins anew.          *)
LEMMA SteadyRestarts ==
    ASSUME NodeTypeInv, SteadyInv, NEW n \in Nodes, Restart(n)
    PROVE  SteadyInv'
<1>t. StigmergyTypes /\ restarts \in [Nodes -> Nat] /\ verified \in [Nodes -> SUBSET Entry]
      /\ vetoed \in [Nodes -> SUBSET TraceId]
  BY DEF NodeTypeInv, TypeInv, TypeOK, StigmergyTypes
<1>1. /\ log' = log
      /\ \A m \in Nodes : /\ cursor'[m] = IF m = n THEN 0 ELSE cursor[m]
                          /\ localSeq'[m] = IF m = n THEN 0 ELSE localSeq[m]
                          /\ restarts'[m] = IF m = n THEN restarts[n] + 1 ELSE restarts[m]
                          /\ m # n => verified'[m] = verified[m] /\ vetoed'[m] = vetoed[m]
      /\ \A m, v \in Nodes : seen'[m][v] = IF m = n THEN 0 ELSE seen[m][v]
  BY <1>t DEF Restart, ResumeAt, StigmergyTypes
<1>2. ASSUME NEW w \in Nodes, w # n, Steady(w) PROVE Steady(w)'
  <2>1. \A j \in 1..Len(log) : log[j].from = w => log[j].seq \in 1..localSeq[w]
    BY <1>2 DEF Steady
  <2>p. localSeq[w] \in Nat /\ \A j \in 1..Len(log) : j \in Nat /\ log[j] \in Message
    BY <1>t DEF StigmergyTypes
  <2>2. \A m \in Nodes : seen'[m][w] <= localSeq'[w]
    <3>1. \A m \in Nodes : seen[m][w] <= localSeq[w]
      BY <1>2 DEF Steady
    <3> QED BY <1>1, <1>2, <2>p, <3>1
  <2>3. ASSUME NEW m \in Nodes, NEW j \in 1..Len(log), m # w, log[j].from = w
        PROVE  /\ j > cursor'[m] => seen'[m][w] < log[j].seq
               /\ j <= cursor'[m] => Applied(m, log[j])'
    <3>1. CASE m = n
      <4>1. log[j].seq \in 1..localSeq[w] /\ ~(j <= 0) /\ cursor'[m] = 0 /\ seen'[m][w] = 0
        BY <1>1, <2>1, <2>3, <3>1
      <4> QED BY <2>p, <4>1
    <3>2. CASE m # n
      <4>0. PICK x \in Message : x = log[j] /\ x = log'[j] /\ x.from = w
        BY <1>1, <2>p, <2>3
      <4>1. /\ j > cursor[m] => seen[m][w] < x.seq
            /\ j <= cursor[m] => Applied(m, x)
        BY <1>2, <2>3, <4>0 DEF Steady
      <4>2. Applied(m, x) => Applied(m, x)'
        BY <1>1, <3>2, <4>0 DEF Applied, IsDuplicate
      <4> QED BY <1>1, <3>2, <4>0, <4>1, <4>2
    <3> QED BY <3>1, <3>2
  <2>4. \A i, j \in 1..Len(log) : i < j /\ log[i].from = w /\ log[j].from = w => log[i].seq < log[j].seq
    BY <1>2 DEF Steady
  <2> QED BY <1>1, <1>2, <2>1, <2>2, <2>3, <2>4 DEF Steady
<1>3. \A w \in Nodes : restarts'[w] = 0 => w # n /\ restarts[w] = 0
  BY <1>1, <1>t
<1> QED BY <1>1, <1>2, <1>3 DEF SteadyInv

(* A restarted receiver reads the stream again and misses nothing of a     *)
(* sender that did not restart: the trace is admitted, the veto kept       *)
(* (fresh seenSequences, lastId = '0-0').                                  *)
THEOREM SteadySendersAreHeard == NodeSpec => []SteadySendersLoseNothing
<1> DEFINE I == deployment = "stigmergies" => SteadyInv
<1>1. NodeInit => I
  BY DEF NodeInit, Init, TransportInit, StigmergyInit, SteadyInv, Steady
<1>2. NodeTypeInv /\ I /\ [NodeNext]_nodeVars => I'
  <2> SUFFICES ASSUME NodeTypeInv, I, [NodeNext]_nodeVars, deployment' = "stigmergies" PROVE SteadyInv'
    OBVIOUS
  <2>1. deployment = "stigmergies" /\ SteadyInv
    BY DEF NodeNext, nodeVars
  <2>t. TypeInv /\ TypeOK
    BY DEF NodeTypeInv, TypeInv
  <2>2. ASSUME NEW n \in Nodes, StigmergyStep(n), UNCHANGED restarts PROVE SteadyInv'
    <3>1. LocalStep(n, TRUE)
      BY <2>2 DEF StigmergyStep, LocalStep
    <3>2. PICK msg \in Message : PublishesNext(n, msg) /\ msg.intact
      BY <2>t, <3>1, LocalStepPublishes
    <3> QED BY <2>1, <2>2, <2>t, <3>2, SteadyPublishes
  <2>3. ASSUME NEW n \in Nodes, NodeDeliver(n), UNCHANGED restarts PROVE SteadyInv'
    <3>1. PICK k \in 1..Len(log) : k = cursor[n] + 1
      BY <2>3, <2>t, NextMessageTyped DEF NodeDeliver
    <3>2. /\ HandleInbound(n, log[k]) /\ log' = log /\ cursor' \in [Nodes -> Nat]
          /\ cursor' = [cursor EXCEPT ![n] = k]
      BY <2>3, <2>t, <3>1, NextMessageTyped DEF NodeDeliver, NextMessage, Consume
    <3> QED BY <2>1, <2>3, <2>t, <3>1, <3>2, SteadyHandsOver
  <2>4. ASSUME NEW n \in Nodes, NodeRedeliver(n), UNCHANGED restarts PROVE SteadyInv'
    <3>1. PICK k \in 1..cursor[n] : HandleInbound(n, log[k])
      BY <2>4 DEF NodeRedeliver
    <3>2. /\ k \in 1..Len(log) /\ k <= cursor[n] /\ log' = log /\ cursor' = cursor
          /\ cursor' \in [Nodes -> Nat]
      BY <2>4, <2>t, <3>1 DEF NodeRedeliver, transportVars, TypeOK
    <3> QED BY <2>1, <2>4, <2>t, <3>1, <3>2, SteadyHandsOver
  <2>5. ASSUME UNCHANGED nodeVars PROVE SteadyInv'
    <3>1. ASSUME NEW m, NEW x PROVE Applied(m, x)' = Applied(m, x)
      BY <2>5 DEF nodeVars, vars, stigmergyVars, Applied, IsDuplicate
    <3>2. UNCHANGED <<log, cursor, seen, localSeq, restarts>>
      BY <2>5 DEF nodeVars, vars, stigmergyVars, transportVars
    <3> QED BY <2>1, <2>5, <3>1, <3>2 DEF SteadyInv, Steady, Applied, IsDuplicate, nodeVars, vars, stigmergyVars
  <2> QED BY <2>1, <2>2, <2>3, <2>4, <2>5, SteadyRestarts DEF NodeNext
<1>3. NodeTypeInv /\ I => SteadySendersLoseNothing
  <2> SUFFICES ASSUME NodeTypeInv, deployment = "stigmergies", SteadyInv,
                      NEW n \in Nodes, NEW k \in 1..cursor[n],
                      log[k].from # n, restarts[log[k].from] = 0
               PROVE  /\ log[k].type = "trace" => IsDuplicate(n, log[k].body)
                      /\ log[k].type = "veto" => log[k].body \in vetoed[n]
    BY DEF SteadySendersLoseNothing, Consumed
  <2>1. k \in 1..Len(log) /\ k <= cursor[n] /\ log[k].from \in Nodes
    BY MessageFields DEF NodeTypeInv, TypeInv, TypeOK
  <2>2. Applied(n, log[k])
    BY <2>1 DEF SteadyInv, Steady
  <2> QED BY <2>2 DEF Applied
<1> HIDE DEF I
<1> QED BY <1>1, <1>2, <1>3, NodeTypeInvariant, PTL DEF NodeSpec

-----------------------------------------------------------------------------
(* Numbers. *)

(* A set of numbers that is not empty has a least element.                 *)
LEMMA LeastIs ==
    ASSUME NEW S \in SUBSET Nat, S # {}
    PROVE  /\ Min(S) \in S /\ \A i \in S : Min(S) <= i
           /\ \E i \in S : \A j \in S : i <= j
<1>1. IsWellFoundedOn(OpToRel(<, Nat), Nat)
    BY NatLessThanWellFounded
<1>2. PICK i \in S : \A j \in S : ~(<<j, i>> \in OpToRel(<, Nat))
    BY <1>1, WFMin
<1>3. \A j \in S : ~(j < i)
    BY <1>2 DEF OpToRel
<1>4. \A j \in S : i \in Nat /\ j \in Nat
    OBVIOUS
<1>5. \E x \in S : \A j \in S : x <= j
    BY <1>3, <1>4
<1> QED
    BY <1>5 DEF Min

(* What holds at 0 and passes from each number to the next holds of every  *)
(* number up to the last.                                                  *)
LEMMA CountingUp ==
    ASSUME NEW last \in Nat, NEW holds, 0 \in holds,
           \A n \in 1..last : n - 1 \in holds => n \in holds
    PROVE  \A n \in 0..last : n \in holds
<1> SUFFICES ASSUME NEW bad \in 0..last, bad \notin holds
             PROVE  FALSE
    OBVIOUS
<1> DEFINE bads == {n \in 0..last : n \notin holds}
<1>1. bads \in SUBSET Nat /\ bads # {}
    OBVIOUS
<1>2. PICK least \in bads : \A n \in bads : least <= n
    BY <1>1, LeastIs
<1>3. least \in 1..last
    OBVIOUS
<1>4. least - 1 \in 0..last /\ ~(least <= least - 1)
    BY <1>3
<1>5. least - 1 \in holds
    BY <1>2, <1>4
<1> QED
    BY <1>2, <1>3, <1>5

(* A value computed in steps from a first one, each from the one before:   *)
(* if step n leads from values of one set to values of the next, there is  *)
(* a function of all the values on the way.                                *)
IsFunctionOn(f, D) == f = [x \in D |-> f[x]]
IsTheWay(on, values, first, last, move) ==
    /\ IsFunctionOn(on, 0..last) /\ on[0] = first
    /\ \A n \in 0..last : on[n] \in values[n]
    /\ \A n \in 1..last : on[n] = move[n][on[n - 1]]
(* A value computed step by step from the one before it exists.            *)
LEMMA StepsAreAFunction ==
    ASSUME NEW values, NEW first \in values[0], NEW last \in Nat, NEW move,
           \A n \in 1..last : \A v \in values[n - 1] : move[n][v] \in values[n]
    PROVE  \E on : IsTheWay(on, values, first, last, move)
<1> DEFINE Follows(on, upto) ==
              /\ IsFunctionOn(on, 0..upto) /\ on[0] = first
              /\ \A n \in 0..upto : on[n] \in values[n]
              /\ \A n \in 1..upto : on[n] = move[n][on[n - 1]]
           holds == {upto \in 0..last : \E on : Follows(on, upto)}
<1>1. 0 \in holds
  <2> DEFINE start == [n \in 0..0 |-> first]
  <2>1. Follows(start, 0)
      BY DEF IsFunctionOn
  <2> HIDE DEF start
  <2> QED
      BY <2>1
<1>2. ASSUME NEW upto \in 1..last, upto - 1 \in holds
      PROVE  upto \in holds
  <2>1. PICK on : Follows(on, upto - 1)
      BY <1>2
  <2> DEFINE next == [n \in 0..upto |-> IF n = upto THEN move[upto][on[upto - 1]] ELSE on[n]]
  <2>2. on[upto - 1] \in values[upto - 1]
      BY <2>1
  <2>3. move[upto][on[upto - 1]] \in values[upto]
      BY <2>2
  <2>4. \A n \in 0..upto : next[n] = IF n = upto THEN move[upto][on[upto - 1]] ELSE on[n]
      OBVIOUS
  <2>5. IsFunctionOn(next, 0..upto)
      BY DEF IsFunctionOn
  <2> HIDE DEF next
  <2>6. next[0] = first
      BY <2>1, <2>4
  <2>7. \A n \in 0..upto : next[n] \in values[n]
    <3> TAKE n \in 0..upto
    <3>1. CASE n = upto
        BY <2>3, <2>4, <3>1
    <3>2. CASE n # upto
      <4>1. n \in 0..(upto - 1) /\ next[n] = on[n]
          BY <2>4, <3>2
      <4> QED
          BY <2>1, <4>1
    <3> QED
        BY <3>1, <3>2
  <2>8. \A n \in 1..upto : next[n] = move[n][next[n - 1]]
    <3> TAKE n \in 1..upto
    <3>1. n - 1 \in 0..upto /\ n - 1 # upto /\ n \in 0..upto
        OBVIOUS
    <3>2. next[n - 1] = on[n - 1]
        BY <2>4, <3>1
    <3>3. CASE n = upto
        BY <2>4, <3>1, <3>2, <3>3
    <3>4. CASE n # upto
      <4>1. n \in 1..(upto - 1) /\ next[n] = on[n]
          BY <2>4, <3>1, <3>4
      <4> QED
          BY <2>1, <3>2, <4>1
    <3> QED
        BY <3>3, <3>4
  <2>9. Follows(next, upto)
      BY <2>5, <2>6, <2>7, <2>8
  <2> QED
      BY <2>9
<1> HIDE DEF holds
<1>3. last \in holds
    BY <1>1, <1>2, CountingUp
<1>4. PICK on : Follows(on, last)
    BY <1>3 DEF holds
<1> QED
    BY <1>4 DEF IsTheWay

-----------------------------------------------------------------------------
(* The Redis stream under the cluster. *)

(* How many ids a node has seen, and a run of ids after one of them.       *)
SeenBy(n) == Cardinality(seenIds[n])
IdsAfter(id, m) == [j \in 1..m |-> id + j]
Runs(past, last) == {IdsAfter(p[1], p[2]) : p \in {q \in (0..past) \X Nat : q[1] + q[2] <= last}}

(* However polls overlap: what a node has seen is a prefix of the stream,  *)
(* and a poll on its way begins somewhere in it.                           *)
PollsBeginInSeen ==
    \A n \in Readers :
        /\ SeenBy(n) \in 0..Len(stream) /\ seenIds[n] = 1..SeenBy(n)
        /\ lastId[n] \in 0..SeenBy(n)
        /\ asked[n] \in Seq(0..SeenBy(n))
        /\ answers[n] \in Seq(Runs(SeenBy(n), Len(stream)))
        /\ inbox[n] \in Seq(1..Len(stream))
RedisIInv ==
    /\ stream \in Seq(Readers) /\ Len(stream) <= MaxEntries
    /\ seenIds \in [Readers -> SUBSET Nat]
    /\ lastId \in [Readers -> Nat]
    /\ asked \in [Readers -> Seq(Nat)]
    /\ answers \in [Readers -> Seq(Seq(Nat))]
    /\ inbox \in [Readers -> Seq(Nat)]
    /\ PollsBeginInSeen

(* A list without one of its items is a list of the same.                  *)
LEMMA RemovedIsTyped ==
    ASSUME NEW T, NEW s \in Seq(T), NEW i \in 1..Len(s)
    PROVE  RemoveAt(s, i) \in Seq(T)
<1>1. Len(s) \in Nat /\ DOMAIN s = 1..Len(s) /\ \A j \in 1..Len(s) : s[j] \in T
    OBVIOUS
<1>2. SubSeq(s, 1, i - 1) \in Seq(T)
    BY <1>1, SubSeqProperties
<1>3. SubSeq(s, i + 1, Len(s)) \in Seq(T)
    BY <1>1, SubSeqProperties
<1> QED
    BY <1>2, <1>3, ConcatProperties DEF RemoveAt

(* Runs that were possible stay so.                                        *)
LEMMA RunsStay ==
    ASSUME NEW past \in Nat, NEW last \in Nat, NEW seenNow \in Nat, NEW lastNow \in Nat,
           past <= seenNow, last <= lastNow
    PROVE  Runs(past, last) \subseteq Runs(seenNow, lastNow)
BY DEF Runs

(* A list of some is a list of more.                                       *)
LEMMA ListsOfMore ==
    ASSUME NEW S, NEW T, S \subseteq T
    PROVE  Seq(S) \subseteq Seq(T)
OBVIOUS

(* What a poll brings, found entry by entry.                               *)
IsFresh(fresh, n, batch) ==
    /\ fresh[0] = <<>>
    /\ \A i \in 1..Len(batch) :
          fresh[i] = IF batch[i] \in seenIds[n] \/ stream[batch[i]] = n THEN fresh[i - 1]
                     ELSE Append(fresh[i - 1], batch[i])
LEMMA FreshIs ==
    ASSUME NEW n, NEW batch \in Seq(Nat)
    PROVE  \E fresh : /\ IsFresh(fresh, n, batch)
                      /\ FreshEntries(n, batch) = fresh[Len(batch)]
<1> DEFINE last == Len(batch)
           Value(f, i) == IF i = 0 THEN <<>>
                          ELSE IF batch[i] \in seenIds[n] \/ stream[batch[i]] = n THEN f[i - 1]
                          ELSE Append(f[i - 1], batch[i])
           IsBrought(f) == f = [i \in 0..last |-> Value(f, i)]
           fresh == CHOOSE f : IsBrought(f)
           values == [i \in 0..last |-> Seq(Nat)]
           move == [i \in 1..last |-> [v \in Seq(Nat) |->
                       IF batch[i] \in seenIds[n] \/ stream[batch[i]] = n THEN v
                       ELSE Append(v, batch[i])]]
<1>1. last \in Nat /\ \A i \in 1..last : batch[i] \in Nat
    OBVIOUS
<1>2. \A i \in 1..last, v \in Seq(Nat) :
          /\ move[i][v] = IF batch[i] \in seenIds[n] \/ stream[batch[i]] = n THEN v
                          ELSE Append(v, batch[i])
          /\ move[i][v] \in Seq(Nat)
    BY <1>1
<1>3. (\A i \in 0..last : values[i] = Seq(Nat)) /\ <<>> \in values[0]
    BY <1>1
<1> HIDE DEF move, values
<1>4. \A i \in 1..last : \A v \in values[i - 1] : move[i][v] \in values[i]
  <2> TAKE i \in 1..last
  <2>1. i - 1 \in 0..last /\ i \in 0..last
      BY <1>1
  <2> QED
      BY <1>2, <1>3, <2>1
<1>5. PICK on : IsTheWay(on, values, <<>>, last, move)
    BY <1>1, <1>3, <1>4, StepsAreAFunction
<1>6. ASSUME NEW i \in 0..last
      PROVE  on[i] = Value(on, i)
  <2>1. CASE i = 0
      BY <1>5, <2>1 DEF IsTheWay
  <2>2. CASE i # 0
    <3>1. i \in 1..last /\ i - 1 \in 0..last
        BY <1>1, <2>2
    <3>2. on[i] = move[i][on[i - 1]] /\ on[i - 1] \in Seq(Nat)
        BY <1>3, <1>5, <3>1 DEF IsTheWay
    <3> QED
        BY <1>2, <2>2, <3>1, <3>2
  <2> QED
      BY <2>1, <2>2
<1>7. on = [i \in 0..last |-> on[i]]
    BY <1>5 DEF IsTheWay, IsFunctionOn
<1>8. IsBrought(on)
    BY <1>6, <1>7
<1>9. IsBrought(fresh)
    BY <1>8
<1>10. FreshEntries(n, batch) = fresh[last]
    BY DEF FreshEntries
<1> HIDE DEF fresh
<1>11. \A i \in 0..last : fresh[i] = Value(fresh, i)
    BY <1>9
<1>12. fresh[0] = <<>>
    BY <1>1, <1>11
<1>13. \A i \in 1..last : i \in 0..last /\ i # 0
    BY <1>1
<1>14. IsFresh(fresh, n, batch)
    BY <1>11, <1>12, <1>13 DEF IsFresh
<1> QED
    BY <1>10, <1>14

(* What the contract hands over, found place by place.                     *)
ArePlaces(places, n, from, to) ==
    /\ places[from] = <<>>
    /\ \A k \in (from + 1)..to :
          places[k] = IF stream[k] = n THEN places[k - 1] ELSE Append(places[k - 1], k)
LEMMA PlacesAre ==
    ASSUME NEW n, NEW from \in Nat, NEW to \in Nat, from <= to
    PROVE  \E places : /\ ArePlaces(places, n, from, to)
                       /\ Contract!PeersPlaces(n, from, to) = places[to]
<1> DEFINE last == to - from
           Value(f, k) == IF k = from THEN <<>>
                          ELSE IF stream[k] = n THEN f[k - 1] ELSE Append(f[k - 1], k)
           Places(f) == f = [k \in from..to |-> Value(f, k)]
           places == CHOOSE f : Places(f)
           values == [i \in 0..last |-> Seq(Nat)]
           move == [i \in 1..last |-> [v \in Seq(Nat) |->
                       IF stream[from + i] = n THEN v ELSE Append(v, from + i)]]
<1>1. last \in Nat
    OBVIOUS
<1>2. \A i \in 1..last, v \in Seq(Nat) :
          /\ move[i][v] = IF stream[from + i] = n THEN v ELSE Append(v, from + i)
          /\ move[i][v] \in Seq(Nat)
    BY <1>1
<1>3. (\A i \in 0..last : values[i] = Seq(Nat)) /\ <<>> \in values[0]
    BY <1>1
<1> HIDE DEF move, values
<1>4. \A i \in 1..last : \A v \in values[i - 1] : move[i][v] \in values[i]
  <2> TAKE i \in 1..last
  <2>1. i - 1 \in 0..last /\ i \in 0..last
      BY <1>1
  <2> QED
      BY <1>2, <1>3, <2>1
<1>5. PICK on : IsTheWay(on, values, <<>>, last, move)
    BY <1>1, <1>3, <1>4, StepsAreAFunction
<1> DEFINE here == [k \in from..to |-> on[k - from]]
<1>6. ASSUME NEW k \in from..to
      PROVE  here[k] = Value(here, k)
  <2>1. k - from \in 0..last /\ here[k] = on[k - from]
      OBVIOUS
  <2>2. CASE k = from
      BY <1>5, <2>1, <2>2 DEF IsTheWay
  <2>3. CASE k # from
    <3>1. /\ k - from \in 1..last /\ k - 1 \in from..to /\ (k - from) - 1 = (k - 1) - from
          /\ (k - from) - 1 \in 0..last /\ from + (k - from) = k
        BY <2>3
    <3>2. on[k - from] = move[k - from][on[(k - from) - 1]] /\ on[(k - from) - 1] \in Seq(Nat)
        BY <1>3, <1>5, <3>1 DEF IsTheWay
    <3>3. here[k - 1] = on[(k - from) - 1]
        BY <3>1
    <3> HIDE DEF here, last
    <3> QED
        BY <1>2, <2>1, <2>3, <3>1, <3>2, <3>3
  <2> QED
      BY <2>2, <2>3
<1>7. Places(here)
    BY <1>6
<1>8. Places(places)
    BY <1>7
<1>9. Contract!PeersPlaces(n, from, to) = places[to]
    BY DEF Contract!PeersPlaces
<1> HIDE DEF places
<1>10. \A k \in from..to : places[k] = Value(places, k)
    BY <1>8
<1>11. places[from] = <<>>
    BY <1>10
<1>12. \A k \in (from + 1)..to : k \in from..to /\ k # from
    OBVIOUS
<1>13. ArePlaces(places, n, from, to)
    BY <1>10, <1>11, <1>12 DEF ArePlaces
<1> QED
    BY <1>9, <1>13

(* A poll that begins in what was seen brings nothing up to there, and     *)
(* from there on what the contract hands over.                             *)
LEMMA FreshIsHandedOver ==
    ASSUME NEW n \in Readers, NEW id \in Nat, NEW m \in Nat, NEW past \in Nat, id <= past,
           seenIds[n] = 1..past
    PROVE  /\ id + m <= past => FreshEntries(n, IdsAfter(id, m)) = <<>>
           /\ past <= id + m => FreshEntries(n, IdsAfter(id, m)) = Contract!PeersPlaces(n, past, id + m)
<1> DEFINE batch == IdsAfter(id, m)
<1>1. /\ batch \in Seq(Nat) /\ Len(batch) = m
      /\ \A i \in 1..m : batch[i] = id + i
    BY DEF IdsAfter
<1> HIDE DEF batch
<1>2. PICK fresh : IsFresh(fresh, n, batch) /\ FreshEntries(n, batch) = fresh[m]
    BY <1>1, FreshIs
<1>3. /\ fresh[0] = <<>>
      /\ \A i \in 1..m : fresh[i] = IF id + i \in 1..past \/ stream[id + i] = n THEN fresh[i - 1]
                                    ELSE Append(fresh[i - 1], id + i)
    BY <1>1, <1>2 DEF IsFresh
<1> DEFINE old == {i \in 0..m : id + i <= past => fresh[i] = <<>>}
<1>4. \A i \in 0..m : i \in old
  <2>1. 0 \in old
      BY <1>3
  <2>2. ASSUME NEW i \in 1..m, i - 1 \in old
        PROVE  i \in old
    <3>1. CASE id + i <= past
      <4>1. id + i \in 1..past /\ id + (i - 1) <= past /\ i \in 0..m
          BY <3>1
      <4>2. fresh[i] = fresh[i - 1]
          BY <1>3, <4>1
      <4> QED
          BY <2>2, <4>1, <4>2
    <3>2. CASE ~(id + i <= past)
        BY <3>2
    <3> QED
        BY <3>1, <3>2
  <2> HIDE DEF old
  <2> QED
      BY <2>1, <2>2, CountingUp
<1>5. ASSUME id + m <= past
      PROVE  FreshEntries(n, batch) = <<>>
  <2>1. m \in 0..m
      OBVIOUS
  <2> QED
      BY <1>2, <1>4, <1>5, <2>1
<1>6. ASSUME past <= id + m
      PROVE  FreshEntries(n, batch) = Contract!PeersPlaces(n, past, id + m)
  <2>1. PICK places : /\ ArePlaces(places, n, past, id + m)
                      /\ Contract!PeersPlaces(n, past, id + m) = places[id + m]
      BY <1>6, PlacesAre
  <2>2. /\ places[past] = <<>>
        /\ \A k \in (past + 1)..(id + m) :
              places[k] = IF stream[k] = n THEN places[k - 1] ELSE Append(places[k - 1], k)
      BY <2>1 DEF ArePlaces
  <2> DEFINE new == {i \in 0..m : past <= id + i => fresh[i] = places[id + i]}
  <2>3. ASSUME NEW i \in 0..m, id + i = past
        PROVE  i \in new
    <3>1. fresh[i] = <<>>
        BY <1>4, <2>3
    <3> QED
        BY <2>2, <2>3, <3>1
  <2>4. 0 \in new
    <3>1. 0 \in 0..m
        OBVIOUS
    <3>2. CASE id = past
        BY <2>3, <3>1, <3>2
    <3>3. CASE id < past
        BY <3>1, <3>3
    <3> QED
        BY <3>2, <3>3
  <2>5. ASSUME NEW i \in 1..m, i - 1 \in new
        PROVE  i \in new
    <3>1. CASE id + i = past
        BY <2>3, <3>1
    <3>2. CASE id + i < past
        BY <3>2
    <3>3. CASE id + i > past
      <4>1. /\ past <= id + (i - 1) /\ id + i \notin 1..past /\ id + i \in (past + 1)..(id + m)
            /\ (id + i) - 1 = id + (i - 1)
          BY <3>3
      <4>2. fresh[i] = IF stream[id + i] = n THEN fresh[i - 1] ELSE Append(fresh[i - 1], id + i)
          BY <1>3, <4>1
      <4>3. places[id + i] = IF stream[id + i] = n THEN places[id + (i - 1)]
                             ELSE Append(places[id + (i - 1)], id + i)
          BY <2>2, <4>1
      <4>4. fresh[i - 1] = places[id + (i - 1)]
          BY <2>5, <4>1
      <4> QED
          BY <4>2, <4>3, <4>4
    <3> QED
        BY <3>1, <3>2, <3>3
  <2> HIDE DEF new
  <2>6. \A i \in 0..m : i \in new
      BY <2>4, <2>5, CountingUp
  <2>7. m \in 0..m
      OBVIOUS
  <2>8. fresh[m] = places[id + m]
      BY <1>6, <2>6, <2>7 DEF new
  <2> QED
      BY <1>2, <2>1, <2>8
<1> QED
    BY <1>5, <1>6 DEF batch

(* And they are ids of the stream.                                         *)
LEMMA FreshIsTyped ==
    ASSUME NEW n, NEW id \in Nat, NEW m \in Nat, NEW last \in Nat, id + m <= last
    PROVE  FreshEntries(n, IdsAfter(id, m)) \in Seq(1..last)
<1> DEFINE batch == IdsAfter(id, m)
<1>1. /\ batch \in Seq(Nat) /\ Len(batch) = m
      /\ \A i \in 1..m : batch[i] = id + i
    BY DEF IdsAfter
<1> HIDE DEF batch
<1>2. PICK fresh : IsFresh(fresh, n, batch) /\ FreshEntries(n, batch) = fresh[m]
    BY <1>1, FreshIs
<1>3. /\ fresh[0] = <<>>
      /\ \A i \in 1..m : fresh[i] = fresh[i - 1] \/ fresh[i] = Append(fresh[i - 1], id + i)
    BY <1>1, <1>2 DEF IsFresh
<1> DEFINE typed == {i \in 0..m : fresh[i] \in Seq(1..last)}
<1>4. 0 \in typed
  <2>1. <<>> \in Seq(1..last) /\ 0 \in 0..m
      OBVIOUS
  <2> QED
      BY <1>3, <2>1
<1>5. ASSUME NEW i \in 1..m, i - 1 \in typed
      PROVE  i \in typed
  <2>1. id + i \in 1..last /\ fresh[i - 1] \in Seq(1..last) /\ i \in 0..m
      BY <1>5
  <2>2. Append(fresh[i - 1], id + i) \in Seq(1..last)
      BY <2>1
  <2> QED
      BY <1>3, <2>1, <2>2
<1> HIDE DEF typed
<1>6. \A i \in 0..m : i \in typed
    BY <1>4, <1>5, CountingUp
<1>7. m \in 0..m
    OBVIOUS
<1> QED
    BY <1>2, <1>6, <1>7 DEF typed, batch

(* Before the first entry nothing is seen, asked or brought.               *)
LEMMA PollsStartInSeen == RedisInit => RedisIInv
<1> SUFFICES ASSUME RedisInit
             PROVE  RedisIInv
    OBVIOUS
<1>1. Cardinality({}) = 0
    BY FS_EmptySet
<1>2. MaxEntries \in Nat
    BY RedisAssumption
<1>3. \A n \in Readers : SeenBy(n) = 0 /\ seenIds[n] = {}
    BY <1>1 DEF RedisInit, SeenBy
<1>4. PollsBeginInSeen
    BY <1>3 DEF RedisInit, PollsBeginInSeen
<1> QED
    BY <1>2, <1>4 DEF RedisInit, RedisIInv

(* What one reader has, when the others are left alone.                    *)
ReaderSound(n) ==
    /\ SeenBy(n) \in 0..Len(stream) /\ seenIds[n] = 1..SeenBy(n)
    /\ lastId[n] \in 0..SeenBy(n)
    /\ asked[n] \in Seq(0..SeenBy(n))
    /\ answers[n] \in Seq(Runs(SeenBy(n), Len(stream)))
    /\ inbox[n] \in Seq(1..Len(stream))
ReadersTyped ==
    /\ stream \in Seq(Readers) /\ Len(stream) <= MaxEntries
    /\ seenIds \in [Readers -> SUBSET Nat]
    /\ lastId \in [Readers -> Nat]
    /\ asked \in [Readers -> Seq(Nat)]
    /\ answers \in [Readers -> Seq(Seq(Nat))]
    /\ inbox \in [Readers -> Seq(Nat)]

(* A new entry leaves every reader as sound as it was.                     *)
LEMMA AddedIsSound ==
    ASSUME RedisIInv, NEW n \in Readers, AddEntry(n)
    PROVE  /\ RedisIInv' /\ stream' = stream \o <<n>> /\ Len(stream) + 1 <= MaxEntries
           /\ UNCHANGED <<seenIds, inbox>>
<1>1. /\ stream \in Seq(Readers) /\ MaxEntries \in Nat /\ Len(stream) < MaxEntries
      /\ Len(stream) \in Nat /\ stream' = Append(stream, n)
      /\ UNCHANGED <<lastId, seenIds, asked, answers, inbox>>
    BY RedisAssumption DEF RedisIInv, AddEntry
<1>2. stream' \in Seq(Readers) /\ Len(stream') = Len(stream) + 1 /\ stream' = stream \o <<n>>
    BY <1>1
<1>3. ASSUME NEW r \in Readers
      PROVE  ReaderSound(r)'
  <2>1. ReaderSound(r)
      BY DEF RedisIInv, PollsBeginInSeen, ReaderSound
  <2>2. SeenBy(r)' = SeenBy(r) /\ SeenBy(r) \in Nat
      BY <1>1, <2>1 DEF SeenBy, ReaderSound
  <2>3. Runs(SeenBy(r), Len(stream)) \subseteq Runs(SeenBy(r), Len(stream'))
      BY <1>1, <1>2, <2>2, RunsStay
  <2>4. 1..Len(stream) \subseteq 1..Len(stream') /\ 0..Len(stream) \subseteq 0..Len(stream')
      BY <1>1, <1>2
  <2>5. answers[r] \in Seq(Runs(SeenBy(r), Len(stream')))
      BY <2>1, <2>3, ListsOfMore DEF ReaderSound
  <2>6. inbox[r] \in Seq(1..Len(stream'))
      BY <2>1, <2>4, ListsOfMore DEF ReaderSound
  <2> QED
      BY <1>1, <2>1, <2>2, <2>4, <2>5, <2>6 DEF ReaderSound
<1>4. ReadersTyped'
    BY <1>1, <1>2 DEF RedisIInv, ReadersTyped
<1>5. RedisIInv'
    BY <1>3, <1>4 DEF RedisIInv, ReadersTyped, PollsBeginInSeen, ReaderSound
<1> QED
    BY <1>1, <1>2, <1>5

(* A poll that starts or is served hands nothing over.                     *)
LEMMA StartedIsSound ==
    ASSUME RedisIInv, NEW n \in Readers, StartPoll(n)
    PROVE  RedisIInv' /\ UNCHANGED <<stream, seenIds, inbox>>
<1>1. /\ asked' = [asked EXCEPT ![n] = Append(@, lastId[n])]
      /\ UNCHANGED <<stream, lastId, seenIds, answers, inbox>>
    BY DEF StartPoll
<1>2. ASSUME NEW r \in Readers
      PROVE  ReaderSound(r)'
  <2>1. ReaderSound(r) /\ asked \in [Readers -> Seq(Nat)]
      BY DEF RedisIInv, PollsBeginInSeen, ReaderSound
  <2>2. SeenBy(r)' = SeenBy(r)
      BY <1>1 DEF SeenBy
  <2>3. asked'[r] \in Seq(0..SeenBy(r))
    <3>1. CASE r = n
      <4>1. asked'[r] = Append(asked[r], lastId[r])
          BY <1>1, <2>1, <3>1
      <4> QED
          BY <2>1, <4>1 DEF ReaderSound
    <3>2. CASE r # n
        BY <1>1, <2>1, <3>2 DEF ReaderSound
    <3> QED
        BY <3>1, <3>2
  <2> QED
      BY <1>1, <2>1, <2>2, <2>3 DEF ReaderSound
<1>3. ReadersTyped'
  <2>1. asked \in [Readers -> Seq(Nat)] /\ lastId[n] \in Nat
      BY DEF RedisIInv
  <2>2. Append(asked[n], lastId[n]) \in Seq(Nat)
      BY <2>1
  <2>3. asked' \in [Readers -> Seq(Nat)]
      BY <1>1, <2>1, <2>2
  <2> QED
      BY <1>1, <2>3 DEF RedisIInv, ReadersTyped
<1> QED
    BY <1>1, <1>2, <1>3 DEF RedisIInv, ReadersTyped, PollsBeginInSeen, ReaderSound

(* What the server answers with follows the id it was asked for.           *)
LEMMA ServedIsSound ==
    ASSUME RedisIInv, NEW n \in Readers, ServeRead(n)
    PROVE  RedisIInv' /\ UNCHANGED <<stream, seenIds, inbox>>
<1>1. PICK i \in DOMAIN asked[n] :
          /\ answers' = [answers EXCEPT ![n] = Append(@, EntriesAfter(asked[n][i]))]
          /\ asked' = [asked EXCEPT ![n] = RemoveAt(@, i)]
          /\ UNCHANGED <<stream, lastId, seenIds, inbox>>
    BY DEF ServeRead
<1> DEFINE past == SeenBy(n)
           id == asked[n][i]
           m == Min({BatchSize, Len(stream) - id})
<1>2. /\ ReaderSound(n) /\ asked \in [Readers -> Seq(Nat)] /\ answers \in [Readers -> Seq(Seq(Nat))]
      /\ Len(stream) \in Nat /\ BatchSize \in Nat
    BY RedisAssumption DEF RedisIInv, PollsBeginInSeen, ReaderSound
<1>3. asked[n] \in Seq(0..past) /\ past \in 0..Len(stream) /\ answers[n] \in Seq(Runs(past, Len(stream)))
    BY <1>2 DEF ReaderSound
<1> HIDE DEF past
<1>4. id \in 0..past /\ id \in Nat /\ Len(stream) - id \in Nat /\ i \in 1..Len(asked[n])
    BY <1>2, <1>3
<1>5. m \in Nat /\ m <= Len(stream) - id
  <2>1. {BatchSize, Len(stream) - id} \in SUBSET Nat /\ {BatchSize, Len(stream) - id} # {}
      BY <1>2, <1>4
  <2>2. m \in {BatchSize, Len(stream) - id} /\ \A x \in {BatchSize, Len(stream) - id} : m <= x
      BY <2>1, LeastIs
  <2> QED
      BY <1>2, <1>4, <2>2
<1>6. EntriesAfter(id) = IdsAfter(id, m)
    BY DEF EntriesAfter, IdsAfter
<1> HIDE DEF id, m
<1>7. IdsAfter(id, m) \in Runs(past, Len(stream)) /\ IdsAfter(id, m) \in Seq(Nat)
  <2>1. <<id, m>> \in (0..past) \X Nat /\ id + m <= Len(stream)
      BY <1>2, <1>4, <1>5
  <2>2. <<id, m>> \in {q \in (0..past) \X Nat : q[1] + q[2] <= Len(stream)}
      BY <2>1
  <2>3. IdsAfter(id, m) \in Runs(past, Len(stream))
      BY <2>2 DEF Runs
  <2>4. \A j \in 1..m : id + j \in Nat
      BY <1>4
  <2>5. IdsAfter(id, m) \in Seq(Nat)
      BY <1>5, <2>4 DEF IdsAfter
  <2> QED
      BY <2>3, <2>5
<1>8. /\ answers'[n] = Append(answers[n], IdsAfter(id, m)) /\ asked'[n] = RemoveAt(asked[n], i)
      /\ \A r \in Readers : r # n => answers'[r] = answers[r] /\ asked'[r] = asked[r]
    BY <1>1, <1>2, <1>6 DEF id
<1>9. /\ answers'[n] \in Seq(Runs(past, Len(stream))) /\ asked'[n] \in Seq(0..past)
      /\ answers'[n] \in Seq(Seq(Nat)) /\ asked'[n] \in Seq(Nat)
  <2>1. asked[n] \in Seq(Nat) /\ answers[n] \in Seq(Seq(Nat))
      BY <1>2
  <2>2. RemoveAt(asked[n], i) \in Seq(0..past) /\ RemoveAt(asked[n], i) \in Seq(Nat)
      BY <1>3, <1>4, <2>1, RemovedIsTyped
  <2> QED
      BY <1>3, <1>7, <1>8, <2>1, <2>2
<1>10. ASSUME NEW r \in Readers
       PROVE  ReaderSound(r)'
  <2>1. ReaderSound(r) /\ SeenBy(r)' = SeenBy(r)
      BY <1>1 DEF RedisIInv, PollsBeginInSeen, ReaderSound, SeenBy
  <2>2. asked'[r] \in Seq(0..SeenBy(r)) /\ answers'[r] \in Seq(Runs(SeenBy(r), Len(stream)))
    <3>1. CASE r = n
        BY <1>9, <3>1 DEF past
    <3>2. CASE r # n
        BY <1>8, <2>1, <3>2 DEF ReaderSound
    <3> QED
        BY <3>1, <3>2
  <2> QED
      BY <1>1, <2>1, <2>2 DEF ReaderSound
<1>11. ReadersTyped'
  <2>1. answers' \in [Readers -> Seq(Seq(Nat))]
      BY <1>1, <1>2, <1>9
  <2>2. asked' \in [Readers -> Seq(Nat)]
      BY <1>1, <1>2, <1>9
  <2> QED
      BY <1>1, <2>1, <2>2 DEF RedisIInv, ReadersTyped
<1> QED
    BY <1>1, <1>10, <1>11 DEF RedisIInv, ReadersTyped, PollsBeginInSeen, ReaderSound

(* Taking an answer hands over what was not yet seen of it, in the order   *)
(* of the stream, or nothing.                                              *)
TakenUpTo(n, upTo) ==
    /\ SeenBy(n)' = upTo /\ seenIds' = [seenIds EXCEPT ![n] = 1..upTo]
    /\ \/ /\ upTo = SeenBy(n) /\ UNCHANGED <<inbox, seenIds>>
       \/ /\ upTo \in (SeenBy(n) + 1)..Len(stream)
          /\ inbox' = [inbox EXCEPT ![n] = @ \o Contract!PeersPlaces(n, SeenBy(n), upTo)]
LEMMA TakenIsSound ==
    ASSUME RedisIInv, NEW n \in Readers, TakeAnswer(n)
    PROVE  /\ RedisIInv' /\ UNCHANGED stream
           /\ \E upTo \in SeenBy(n)..Len(stream) : TakenUpTo(n, upTo)
<1>1. PICK i \in DOMAIN answers[n] :
          /\ lastId' = [lastId EXCEPT ![n] = LastIdAfter(n, answers[n][i])]
          /\ seenIds' = [seenIds EXCEPT ![n] = @ \cup Range(answers[n][i])]
          /\ inbox' = [inbox EXCEPT ![n] = @ \o FreshEntries(n, answers[n][i])]
          /\ answers' = [answers EXCEPT ![n] = RemoveAt(@, i)]
          /\ UNCHANGED <<stream, asked>>
    BY DEF TakeAnswer
<1> DEFINE past == SeenBy(n)
           last == Len(stream)
<1>2. /\ ReaderSound(n) /\ answers \in [Readers -> Seq(Seq(Nat))] /\ lastId \in [Readers -> Nat]
      /\ seenIds \in [Readers -> SUBSET Nat] /\ inbox \in [Readers -> Seq(Nat)] /\ last \in Nat
    BY DEF RedisIInv, PollsBeginInSeen, ReaderSound
<1>3. /\ answers[n] \in Seq(Runs(past, last)) /\ past \in 0..last /\ seenIds[n] = 1..past
      /\ inbox[n] \in Seq(1..last) /\ lastId[n] \in 0..past
    BY <1>2 DEF ReaderSound
<1>4. i \in 1..Len(answers[n]) /\ answers[n][i] \in Runs(past, last)
    BY <1>2, <1>3
<1>5. PICK id \in 0..past, m \in Nat : id + m <= last /\ answers[n][i] = IdsAfter(id, m)
    BY <1>4 DEF Runs
<1> DEFINE upTo == IF id + m <= past THEN past ELSE id + m
<1>6. upTo \in past..last /\ upTo \in Nat /\ past \in Nat /\ id \in Nat
    BY <1>2, <1>3, <1>5
<1>7. seenIds[n] \cup Range(IdsAfter(id, m)) = 1..upTo
  <2>1. Range(IdsAfter(id, m)) = (id + 1)..(id + m)
    <3>1. Range(IdsAfter(id, m)) = {id + j : j \in 1..m}
        BY DEF Range, IdsAfter
    <3>2. \A x \in (id + 1)..(id + m) : x - id \in 1..m /\ x = id + (x - id)
        BY <1>5, <1>6
    <3>3. \A j \in 1..m : id + j \in (id + 1)..(id + m)
        BY <1>5, <1>6
    <3> QED
        BY <3>1, <3>2, <3>3
  <2> QED
      BY <1>3, <1>5, <1>6, <2>1
<1>8. LastIdAfter(n, IdsAfter(id, m)) \in 0..upTo
  <2>1. Len(IdsAfter(id, m)) = m /\ (m > 0 => IdsAfter(id, m)[m] = id + m)
      BY DEF IdsAfter
  <2>2. CASE m = 0
    <3>1. IdsAfter(id, m) = <<>>
        BY <2>2 DEF IdsAfter
    <3> QED
        BY <1>3, <1>6, <3>1 DEF LastIdAfter
  <2>3. CASE m # 0
    <3>1. IdsAfter(id, m) # <<>> /\ Last(IdsAfter(id, m)) = id + m
        BY <2>1, <2>3 DEF Last
    <3> QED
        BY <1>5, <1>6, <3>1 DEF LastIdAfter
  <2> QED
      BY <2>2, <2>3
<1>9. /\ id + m <= past => FreshEntries(n, IdsAfter(id, m)) = <<>>
      /\ past <= id + m =>
            FreshEntries(n, IdsAfter(id, m)) = Contract!PeersPlaces(n, past, id + m)
      /\ FreshEntries(n, IdsAfter(id, m)) \in Seq(1..last)
  <2>1. id <= past
      BY <1>3, <1>5, <1>6
  <2>2. FreshEntries(n, IdsAfter(id, m)) \in Seq(1..last)
      BY <1>2, <1>5, <1>6, FreshIsTyped
  <2>3. seenIds[n] = 1..past
      BY <1>3
  <2> HIDE DEF past, last, upTo
  <2> QED
      BY <1>6, <2>1, <2>2, <2>3, FreshIsHandedOver
<1> HIDE DEF upTo
<1>10. /\ lastId'[n] \in 0..upTo /\ seenIds'[n] = 1..upTo
       /\ inbox'[n] = inbox[n] \o FreshEntries(n, IdsAfter(id, m))
       /\ answers'[n] = RemoveAt(answers[n], i)
       /\ \A r \in Readers : r # n => /\ lastId'[r] = lastId[r] /\ seenIds'[r] = seenIds[r]
                                      /\ inbox'[r] = inbox[r] /\ answers'[r] = answers[r]
    BY <1>1, <1>2, <1>5, <1>7, <1>8
<1>11. Cardinality(1..upTo) = upTo
    BY <1>6, FS_Interval
<1>12. SeenBy(n)' = upTo
    BY <1>10, <1>11 DEF SeenBy
<1>13. inbox'[n] \in Seq(1..last) /\ answers'[n] \in Seq(Runs(upTo, last))
  <2>1. RemoveAt(answers[n], i) \in Seq(Runs(past, last))
      BY <1>3, <1>4, RemovedIsTyped
  <2>2. Runs(past, last) \subseteq Runs(upTo, last)
      BY <1>2, <1>6, RunsStay
  <2>3. RemoveAt(answers[n], i) \in Seq(Runs(upTo, last))
      BY <2>1, <2>2, ListsOfMore
  <2>4. inbox[n] \o FreshEntries(n, IdsAfter(id, m)) \in Seq(1..last)
      BY <1>3, <1>9, ConcatProperties
  <2> QED
      BY <1>10, <2>3, <2>4
<1>14. ASSUME NEW r \in Readers
       PROVE  ReaderSound(r)'
  <2>1. ReaderSound(r) /\ asked' = asked /\ stream' = stream
      BY <1>1 DEF RedisIInv, PollsBeginInSeen, ReaderSound
  <2>2. CASE r = n
    <3>1. asked[n] \in Seq(0..upTo)
      <4>1. 0..past \subseteq 0..upTo
          BY <1>6
      <4> QED
          BY <1>2, <4>1, ListsOfMore DEF ReaderSound
    <3>2. upTo \in 0..Len(stream)
        BY <1>6
    <3> QED
        BY <1>10, <1>12, <1>13, <2>1, <2>2, <3>1, <3>2 DEF ReaderSound
  <2>3. CASE r # n
    <3>1. SeenBy(r)' = SeenBy(r)
        BY <1>10, <2>3 DEF SeenBy
    <3> QED
        BY <1>10, <2>1, <2>3, <3>1 DEF ReaderSound
  <2> QED
      BY <2>2, <2>3
<1>15. ReadersTyped'
  <2>1. 0..upTo \subseteq Nat /\ 1..upTo \subseteq Nat /\ 1..last \subseteq Nat
      BY <1>6
  <2>2. lastId' \in [Readers -> Nat]
    <3>1. lastId'[n] \in Nat
        BY <1>10, <2>1
    <3> QED
        BY <1>1, <1>2, <3>1
  <2>3. seenIds' \in [Readers -> SUBSET Nat]
    <3>1. seenIds'[n] \in SUBSET Nat
        BY <1>10, <2>1
    <3> QED
        BY <1>1, <1>2, <3>1
  <2>4. inbox' \in [Readers -> Seq(Nat)]
    <3>1. inbox'[n] \in Seq(Nat)
        BY <1>13, <2>1, ListsOfMore
    <3> QED
        BY <1>1, <1>2, <3>1
  <2>5. answers' \in [Readers -> Seq(Seq(Nat))]
    <3>1. answers[n] \in Seq(Seq(Nat))
        BY <1>2
    <3>2. answers'[n] \in Seq(Seq(Nat))
        BY <1>4, <1>10, <3>1, RemovedIsTyped
    <3> QED
        BY <1>1, <1>2, <3>2
  <2> QED
      BY <1>1, <2>2, <2>3, <2>4, <2>5 DEF RedisIInv, ReadersTyped
<1>16. RedisIInv'
    BY <1>14, <1>15 DEF RedisIInv, ReadersTyped, PollsBeginInSeen, ReaderSound
<1>17. TakenUpTo(n, upTo)
  <2>1. seenIds' = [seenIds EXCEPT ![n] = 1..upTo]
      BY <1>1, <1>5, <1>7
  <2>2. CASE id + m <= past
    <3>1. upTo = past /\ FreshEntries(n, IdsAfter(id, m)) = <<>>
        BY <1>9, <2>2 DEF upTo
    <3>2. seenIds' = seenIds
        BY <1>2, <1>3, <2>1, <3>1
    <3>3. inbox[n] \o <<>> = inbox[n]
        BY <1>3, ConcatEmptySeq
    <3>4. inbox' = inbox
        BY <1>1, <1>2, <1>5, <3>1, <3>3
    <3> QED
        BY <1>12, <2>1, <3>1, <3>2, <3>4 DEF TakenUpTo
  <2>3. CASE ~(id + m <= past)
    <3>1. /\ upTo = id + m /\ upTo \in (past + 1)..Len(stream)
          /\ FreshEntries(n, IdsAfter(id, m)) = Contract!PeersPlaces(n, past, upTo)
        BY <1>2, <1>5, <1>6, <1>9, <2>3 DEF upTo
    <3>2. inbox' = [inbox EXCEPT ![n] = @ \o Contract!PeersPlaces(n, past, upTo)]
        BY <1>1, <1>5, <3>1
    <3> QED
        BY <1>12, <2>1, <3>1, <3>2 DEF TakenUpTo
  <2> QED
      BY <2>2, <2>3
<1> QED
    BY <1>1, <1>6, <1>16, <1>17

(* Each step of the stream's readers is one of the contract, or none.      *)
LEMMA RedisStepsKeepTheContract ==
    ASSUME RedisIInv, [RedisNext]_redisVars
    PROVE  RedisIInv' /\ [Contract!BroadcastNext]_(Contract!broadcastVars)
<1> DEFINE places == [r \in Readers |-> Cardinality(seenIds[r])]
<1>1. \A r \in Readers : places[r] = SeenBy(r)
    BY DEF SeenBy
<1>2. CASE UNCHANGED redisVars
  <2>1. UNCHANGED Contract!broadcastVars
      BY <1>2 DEF Contract!broadcastVars, Contract!transportVars, redisVars
  <2>2. RedisIInv'
      BY <1>2 DEF redisVars, RedisIInv, PollsBeginInSeen, SeenBy
  <2> QED
      BY <2>1, <2>2
<1>3. ASSUME NEW n \in Readers, AddEntry(n)
      PROVE  RedisIInv' /\ Contract!BroadcastNext
  <2>1. /\ RedisIInv' /\ stream' = stream \o <<n>> /\ Len(stream) + 1 <= MaxEntries
        /\ UNCHANGED <<seenIds, inbox>>
      BY <1>3, AddedIsSound
  <2>2. Len(<<n>>) = 1
      OBVIOUS
  <2>3. Contract!Publish(<<n>>)
      BY <2>1, <2>2 DEF Contract!Publish
  <2> QED
      BY <2>1, <2>3 DEF Contract!BroadcastNext
<1>4. ASSUME NEW n \in Readers, StartPoll(n) \/ ServeRead(n)
      PROVE  RedisIInv' /\ UNCHANGED Contract!broadcastVars
  <2>1. RedisIInv' /\ UNCHANGED <<stream, seenIds, inbox>>
      BY <1>4, StartedIsSound, ServedIsSound
  <2> QED
      BY <2>1 DEF Contract!broadcastVars, Contract!transportVars
<1>5. ASSUME NEW n \in Readers, TakeAnswer(n)
      PROVE  RedisIInv' /\ [Contract!BroadcastNext]_(Contract!broadcastVars)
  <2>1. RedisIInv' /\ UNCHANGED stream
      BY <1>5, TakenIsSound
  <2>2. PICK upTo \in SeenBy(n)..Len(stream) : TakenUpTo(n, upTo)
      BY <1>5, TakenIsSound
  <2>3. CASE UNCHANGED <<inbox, seenIds>>
      BY <2>1, <2>3 DEF Contract!broadcastVars, Contract!transportVars
  <2>4. CASE /\ upTo \in (SeenBy(n) + 1)..Len(stream)
             /\ inbox' = [inbox EXCEPT ![n] = @ \o Contract!PeersPlaces(n, SeenBy(n), upTo)]
    <3>1. /\ SeenBy(n)' = upTo /\ seenIds' = [seenIds EXCEPT ![n] = 1..upTo]
          /\ seenIds \in [Readers -> SUBSET Nat]
        BY <2>2 DEF TakenUpTo, RedisIInv
    <3>2. places' = [places EXCEPT ![n] = upTo]
      <4>1. \A r \in Readers : r # n => seenIds'[r] = seenIds[r]
          BY <3>1
      <4>2. Cardinality(seenIds'[n]) = upTo
          BY <3>1 DEF SeenBy
      <4> QED
          BY <4>1, <4>2
    <3>3. Contract!HandOver(n, upTo)
        BY <1>1, <2>1, <2>4, <3>2 DEF Contract!HandOver
    <3> QED
        BY <1>1, <2>1, <2>4, <3>3 DEF Contract!BroadcastNext
  <2> QED
      BY <2>2, <2>3, <2>4 DEF TakenUpTo
<1> QED
    BY <1>2, <1>3, <1>4, <1>5 DEF RedisNext

(* An empty stream is an empty log.                                        *)
LEMMA RedisStartsTheContract == RedisInit => Contract!BroadcastInit
<1> SUFFICES ASSUME RedisInit
             PROVE  Contract!BroadcastInit
    OBVIOUS
<1>1. Cardinality({}) = 0
    BY FS_EmptySet
<1>2. [r \in Readers |-> Cardinality(seenIds[r])] = [r \in Readers |-> 0]
    BY <1>1 DEF RedisInit
<1> QED
    BY <1>2 DEF RedisInit, Contract!BroadcastInit, Contract!TransportInit

(* However polls overlap and answers are taken out of order, the stream's  *)
(* readers are handed what their peers published in its order, none of it  *)
(* skipped and none twice (redisStreamsGossipTransport.ts).                *)
THEOREM StreamKeepsTheContract == RedisSpec => ImplementsContract
<1>1. RedisInit => RedisIInv /\ Contract!BroadcastInit
    BY PollsStartInSeen, RedisStartsTheContract
<1>2. RedisIInv /\ [RedisNext]_redisVars =>
          RedisIInv' /\ [Contract!BroadcastNext]_(Contract!broadcastVars)
    BY RedisStepsKeepTheContract
<1> QED
    BY <1>1, <1>2, PTL DEF RedisSpec, ImplementsContract, Contract!BroadcastSpec

(* The same where TLC runs the stream beside the cluster and its clients.  *)
THEOREM ContractHoldsInProgress == ProgressSpec => ImplementsContract
<1>1. ProgressInit => RedisIInv /\ Contract!BroadcastInit
    BY PollsStartInSeen, RedisStartsTheContract DEF ProgressInit
<1>2. RedisIInv /\ [ProgressNext]_progressVars =>
          RedisIInv' /\ [Contract!BroadcastNext]_(Contract!broadcastVars)
  <2>1. [ProgressNext]_progressVars => [RedisNext]_redisVars
      BY DEF ProgressNext, progressVars
  <2> QED
      BY <2>1, RedisStepsKeepTheContract
<1> QED
    BY <1>1, <1>2, PTL DEF ProgressSpec, ImplementsContract, Contract!BroadcastSpec
=============================================================================
