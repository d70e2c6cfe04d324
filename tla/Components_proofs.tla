--------------------------- MODULE Components_proofs ---------------------------
(***************************************************************************)
(* Proofs about single components, for every value of their constants: the *)
(* ring buffer implements the bounded log; memories and etches follow      *)
(* their files over restarts, failing writes and restores; the sentinel's  *)
(* signals await their consumer; films that overlap stand alone; the       *)
(* proteome's root tells its steps, and the tuner's decisions the life of  *)
(* its genome; overlapping stages grow a tree of evolutions; the           *)
(* controller does not wind up; and a completion client posts no more      *)
(* often than it was configured to, after delays that grow to their cap.   *)
(***************************************************************************)
EXTENDS RingBuffer, NovaEvolve, CompletionClient, FilmRun,
        Proteome, DriftSentinel, HardeningStage, FastControl, TraceMemory, EtchStore,
        SequenceTheorems, FiniteSetTheorems, WellFoundedInduction, TLAPS

-----------------------------------------------------------------------------
(* The ring buffer. *)

(* The oldest item lies in the array, and so does each that follows it. *)
LEMMA SlotsInArray ==
    ASSUME RingTypeOK
    PROVE  /\ Start \in Slots
           /\ \A i \in 0..(Capacity - 1) : Slot(i) \in Slots
           /\ Following(head) \in Slots /\ Preceding(Following(head)) = head
BY RingAssumption DEF RingTypeOK, Start, Slots, Slot, Following, Preceding

(* The array holds what its type says at every step, of any capacity.      *)
LEMMA RingTypeStep ==
    ASSUME RingTypeOK, [RingNext]_ringVars
    PROVE  RingTypeOK'
<1> USE RingAssumption DEF RingTypeOK, Slots
<1>1. CASE Clear
  BY <1>1 DEF Clear
<1>2. ASSUME NEW x \in Items, Push(x) PROVE RingTypeOK'
  <2>1. head' \in Slots
    BY <1>2, SlotsInArray DEF Push
  <2>2. buf' \in [Slots -> Items \cup {NoItem}]
    BY <1>2 DEF Push
  <2> QED BY <1>2, <2>1, <2>2 DEF Push
<1>3. CASE UNCHANGED ringVars
  BY <1>3 DEF ringVars
<1> QED BY <1>1, <1>2, <1>3 DEF RingNext

(* However often it wraps or is cleared, head and count stay in the array, *)
(* which is as long as it was made (CircularBuffer).                       *)
THEOREM RingTyped == RingSpec => []RingTypeOK
<1>1. RingInit => RingTypeOK
  BY RingAssumption DEF RingInit, RingTypeOK, Slots
<1> QED BY <1>1, RingTypeStep, PTL DEF RingSpec

(* A full ring starts at its head, where the next item goes; one that is   *)
(* not keeps its start when an item comes.                                 *)
LEMMA StartMoves ==
    ASSUME RingTypeOK, NEW x \in Items, Push(x)
    PROVE  /\ count = Capacity => Start = head /\ Start' = head'
           /\ count < Capacity => Start' = Start
BY RingAssumption DEF RingTypeOK, Push, Start, Following, Slots

(* A full ring shifts by one: what was second is first now, and the new    *)
(* item lies where the oldest one was.                                     *)
LEMMA FullSlotsMove ==
    ASSUME RingTypeOK, NEW x \in Items, Push(x), count = Capacity
    PROVE  /\ \A i \in 0..(Capacity - 2) : Slot(i)' = Slot(i + 1) /\ Slot(i + 1) # head
           /\ Slot(Capacity - 1)' = head
<1>1. Start = head /\ Start' = head' /\ head' = Following(head) /\ head \in Slots
  BY StartMoves DEF Push, RingTypeOK
<1>2. ASSUME NEW i \in 0..(Capacity - 2) PROVE Slot(i)' = Slot(i + 1) /\ Slot(i + 1) # head
  <2>1. CASE head = Capacity - 1
    BY <1>1, <2>1, RingAssumption DEF Slot, Following, Slots
  <2>2. CASE head # Capacity - 1
    BY <1>1, <2>2, RingAssumption DEF Slot, Following, Slots
  <2> QED BY <2>1, <2>2
<1>3. Slot(Capacity - 1)' = head
  BY <1>1, RingAssumption DEF Slot, Following, Slots
<1> QED BY <1>2, <1>3

(* One with room keeps its items where they are, the new one behind them.  *)
LEMMA RoomySlotsStay ==
    ASSUME RingTypeOK, NEW x \in Items, Push(x), count < Capacity
    PROVE  \A i \in 0..count : Slot(i)' = Slot(i) /\ (Slot(i) = head <=> i = count)
<1>1. Start' = Start /\ head \in Slots /\ count \in Nat
  BY StartMoves DEF RingTypeOK
<1>2. Slot(count) = head
  BY <1>1, RingAssumption DEF Slot, Start, Slots
<1>3. ASSUME NEW i \in 0..(count - 1) PROVE Slot(i) # head
  BY <1>1, RingAssumption DEF Slot, Start, Slots
<1>4. ASSUME NEW i \in 0..count PROVE Slot(i)' = Slot(i)
  BY <1>1 DEF Slot
<1> QED BY <1>1, <1>2, <1>3, <1>4

(* toArray() lists as many items as there are, oldest first.               *)
LEMMA ArrayListsItems ==
    RingTypeOK =>
        /\ ToArray \in Seq(Items \cup {NoItem})
        /\ Len(ToArray) = count
        /\ \A i \in 1..count : ToArray[i] = buf[Slot(i - 1)]
<1> SUFFICES ASSUME RingTypeOK
             PROVE  /\ ToArray \in Seq(Items \cup {NoItem})
                    /\ Len(ToArray) = count
                    /\ \A i \in 1..count : ToArray[i] = buf[Slot(i - 1)]
  OBVIOUS
<1>1. ASSUME NEW i \in 1..count PROVE buf[Slot(i - 1)] \in Items \cup {NoItem}
  <2>1. i - 1 \in 0..(Capacity - 1)
    BY RingAssumption DEF RingTypeOK
  <2>2. Slot(i - 1) \in Slots
    BY <2>1, SlotsInArray
  <2> QED BY <2>2 DEF RingTypeOK
<1>2. count \in Nat
  BY DEF RingTypeOK
<1> QED BY <1>1, <1>2 DEF ToArray

(* toArray() after a push is what the bounded log keeps.                   *)
LEMMA PushKeeps ==
    ASSUME RingTypeOK, NEW x \in Items, Push(x)
    PROVE  ToArray' = Log!Kept(ToArray, x)
<1> DEFINE Held == Items \cup {NoItem}
<1>1. /\ RingTypeOK' /\ Capacity \in Nat \ {0} /\ count \in 0..Capacity /\ head \in Slots
  BY RingTypeStep, RingAssumption DEF RingNext, RingTypeOK
<1>2. /\ ToArray \in Seq(Held) /\ Len(ToArray) = count
      /\ \A i \in 1..count : ToArray[i] = buf[Slot(i - 1)]
  BY ArrayListsItems
<1>3. /\ ToArray' \in Seq(Held) /\ Len(ToArray') = count'
      /\ \A i \in 1..count' : ToArray'[i] = buf'[Slot(i - 1)']
  <2>1. RingTypeOK' => (/\ ToArray \in Seq(Items \cup {NoItem})
                        /\ Len(ToArray) = count
                        /\ \A i \in 1..count : ToArray[i] = buf[Slot(i - 1)])'
    BY ArrayListsItems, PTL
  <2> QED BY <1>1, <2>1
<1>4. \A j \in Slots : buf'[j] = IF j = head THEN x ELSE buf[j]
  BY DEF Push, RingTypeOK
<1>5. CASE count = Capacity
  <2>1. count' = Capacity
    BY <1>1, <1>5 DEF Push
  <2>2. Log!Kept(ToArray, x) = Append(Tail(ToArray), x)
    BY <1>2, <1>5 DEF Log!Kept
  <2>3. /\ Tail(ToArray) \in Seq(Held) /\ Len(Tail(ToArray)) = Capacity - 1
        /\ \A i \in 1..(Capacity - 1) : Tail(ToArray)[i] = ToArray[i + 1]
    <3>1. ToArray # <<>>
      BY <1>1, <1>2, <1>5, EmptySeq
    <3> QED BY <1>1, <1>2, <1>5, <3>1, HeadTailProperties
  <2>4. ASSUME NEW i \in 1..(Capacity - 1) PROVE ToArray'[i] = Tail(ToArray)[i]
    <3>1. i \in 1..count' /\ i + 1 \in 1..count /\ i - 1 \in 0..(Capacity - 2)
      BY <1>1, <1>5, <2>1
    <3>2. Slot(i - 1)' = Slot(i) /\ Slot(i) # head /\ Slot(i) \in Slots
      BY <1>1, <1>5, <3>1, FullSlotsMove, SlotsInArray
    <3> QED BY <1>2, <1>3, <1>4, <2>3, <3>1, <3>2
  <2>5. ToArray'[Capacity] = x
    BY <1>1, <1>3, <1>4, <1>5, <2>1, FullSlotsMove
  <2>6. /\ Append(Tail(ToArray), x) \in Seq(Held) /\ Len(Append(Tail(ToArray), x)) = Capacity
        /\ \A i \in 1..(Capacity - 1) : Append(Tail(ToArray), x)[i] = Tail(ToArray)[i]
        /\ Append(Tail(ToArray), x)[Capacity] = x
    BY <1>1, <2>3
  <2>7. \A i \in 1..Capacity : ToArray'[i] = Append(Tail(ToArray), x)[i]
    BY <1>1, <2>4, <2>5, <2>6
  <2> QED BY <1>3, <2>1, <2>2, <2>6, <2>7, SeqEqual
<1>6. CASE count < Capacity
  <2>1. count' = count + 1 /\ count \in Nat
    BY <1>1, <1>6 DEF Push
  <2>2. Log!Kept(ToArray, x) = Append(ToArray, x)
    BY <1>1, <1>2, <1>6 DEF Log!Kept
  <2>3. ASSUME NEW i \in 1..count PROVE ToArray'[i] = ToArray[i]
    <3>1. i \in 1..count' /\ i - 1 \in 0..count /\ i - 1 # count /\ i - 1 \in 0..(Capacity - 1)
      BY <1>1, <2>1
    <3>2. Slot(i - 1)' = Slot(i - 1) /\ Slot(i - 1) # head /\ Slot(i - 1) \in Slots
      BY <1>6, <3>1, RoomySlotsStay, SlotsInArray
    <3> QED BY <1>2, <1>3, <1>4, <3>1, <3>2
  <2>4. ToArray'[count + 1] = x
    <3>1. count \in 0..count /\ count + 1 \in 1..count' /\ (count + 1) - 1 = count
      BY <2>1
    <3>2. PICK i \in 0..count : i = count
      BY <3>1
    <3>3. ToArray'[i + 1] = buf'[Slot(i)']
      <4>1. i + 1 \in 1..count' /\ (i + 1) - 1 = i
        BY <3>1, <3>2
      <4> QED BY <1>3, <4>1
    <3>4. Slot(i)' = head
      BY <1>6, <3>2, RoomySlotsStay
    <3> QED BY <1>1, <1>4, <3>2, <3>3, <3>4
  <2>5. /\ Append(ToArray, x) \in Seq(Held) /\ Len(Append(ToArray, x)) = count + 1
        /\ \A i \in 1..count : Append(ToArray, x)[i] = ToArray[i]
        /\ Append(ToArray, x)[count + 1] = x
    BY <1>2, <2>1
  <2>6. \A i \in 1..(count + 1) : ToArray'[i] = Append(ToArray, x)[i]
    BY <2>1, <2>3, <2>4, <2>5
  <2> QED BY <1>3, <2>1, <2>2, <2>5, <2>6, SeqEqual
<1> QED BY <1>1, <1>5, <1>6

(* A push of the ring is one of the log: the item that is handed out is    *)
(* the oldest, and last() is the new one.                                  *)
LEMMA PushImplements ==
    ASSUME RingTypeOK, NEW x \in Items, Push(x)
    PROVE  Log!LogPush(x)
<1>1. evicted' = IF Len(ToArray) = Capacity THEN Head(ToArray) ELSE NoItem
  <2>1. Len(ToArray) = count
    BY DEF ToArray, RingTypeOK
  <2>2. CASE count = Capacity
    <3>1. Slot(0) = head
      BY <2>2, StartMoves, RingAssumption DEF Slot, RingTypeOK, Slots
    <3>2. Head(ToArray) = buf[Slot(0)]
      BY <2>2, RingAssumption DEF ToArray
    <3> QED BY <2>1, <2>2, <3>1, <3>2 DEF Push
  <2> QED BY <2>1, <2>2 DEF Push
<1>2. LastItem' = x
  <2>1. count' # 0 /\ head' = Following(head)
    BY RingAssumption DEF Push, RingTypeOK
  <2>2. buf'[head] = x
    BY DEF Push, RingTypeOK
  <2> QED BY <2>1, <2>2, SlotsInArray DEF LastItem, Preceding, Push
<1> QED BY <1>1, <1>2, PushKeeps DEF Log!LogPush, Push

(* A clear of the ring is one of the log. *)
LEMMA ClearImplements ==
    ASSUME Clear
    PROVE  Log!LogClear
BY DEF Clear, Log!LogClear, ToArray, LastItem

(* For any capacity and items: toArray(), last(), lifetimePushes and what  *)
(* push() hands out are those of a log of the newest Capacity items, so a  *)
(* trace's parent is always the trace recorded before it (CircularBuffer,  *)
(* StigmergyV5.recordTrace).                                               *)
THEOREM RingImplementsLog == RingSpec => ImplementsLog
<1>1. RingInit => Log!LogInit
  BY DEF RingInit, Log!LogInit, ToArray, LastItem
<1>2. RingTypeOK /\ [RingNext]_ringVars => [Log!LogNext]_(Log!logVars)
  <2>1. CASE UNCHANGED ringVars
    BY <2>1 DEF ringVars, Log!logVars, ToArray, LastItem, Slot, Start
  <2> QED BY <2>1, PushImplements, ClearImplements DEF RingNext, Log!LogNext
<1> QED BY <1>1, <1>2, RingTyped, PTL DEF RingSpec, ImplementsLog, Log!LogSpec

-----------------------------------------------------------------------------
(* The evolution tuner. *)

TuningStates ==
    {NoTuning} \cup {[at |-> "proposing"]}
    \cup [at : {"projecting"}, proposal : Proposals, candidate : Genomes]
Decision ==
    [accepted : BOOLEAN, proposal : Proposals \cup {[delta |-> 0]}, old : Genomes, new : Genomes,
     depth : Nat]

(* The decisions accepted among the first n. *)
AcceptedUpTo(n) == {j \in 1..n : decisions[j].accepted}

(* The depth a genome has is the number of decisions that were accepted,   *)
(* which ties the depth written into the next one to those before it.      *)
TunerIInv ==
    /\ config \in Genomes /\ taskCount \in 0..MaxTasks /\ metaDepth \in 0..MaxMetaDepth
    /\ tuning \in [Tasks -> TuningStates]
    /\ decisions \in Seq(Decision)
    /\ metaDepth = Cardinality(AcceptedUpTo(Len(decisions)))
    /\ DecisionsTellTheGenome

(* A clamped level is a level. *)
LEMMA ClampedIsLevel ==
    ASSUME NEW v \in Int
    PROVE  Min({MaxLevel, Max({0, v})}) \in 0..MaxLevel
<1>1. PICK m \in {0, v} : \A y \in {0, v} : m >= y
  BY SMT
<1>2. Max({0, v}) \in {0, v} /\ Max({0, v}) >= 0
  BY <1>1 DEF Max
<1> DEFINE w == Max({0, v})
<1>3. w \in Nat
  BY <1>2
<1> HIDE DEF w
<1>4. PICK k \in {MaxLevel, w} : \A y \in {MaxLevel, w} : k =< y
  BY <1>3, TunerAssumption, SMT
<1>5. Min({MaxLevel, w}) \in {MaxLevel, w} /\ Min({MaxLevel, w}) =< MaxLevel
  BY <1>4 DEF Min
<1>6. Min({MaxLevel, w}) \in 0..MaxLevel
  BY <1>3, <1>5, TunerAssumption
<1> QED BY <1>6 DEF w

(* applyProposal() keeps a genome within its bounds. *)
LEMMA AppliedIsGenome ==
    ASSUME NEW genome \in Genomes, NEW p \in Proposals
    PROVE  Applied(genome, p) \in Genomes
<1>1. genome[p.knob] + p.delta \in Int
  BY TunerAssumption DEF Genomes, Proposals
<1>2. Min({MaxLevel, Max({0, genome[p.knob] + p.delta})}) \in 0..MaxLevel
  BY <1>1, ClampedIsLevel
<1> QED BY <1>2 DEF Applied, Genomes, Proposals

(* A decision is appended whose outcome is the genome used from then on.   *)
LEMMA DecisionsGrow ==
    ASSUME TunerIInv, NEW accepted \in BOOLEAN, NEW p \in Proposals \cup {[delta |-> 0]},
           NEW candidate \in Genomes,
           decisions' = Decided(accepted, p, candidate),
           config' = (IF accepted THEN candidate ELSE config),
           metaDepth' = (IF accepted THEN metaDepth + 1 ELSE metaDepth),
           mirror' = KnobsOf(config')
    PROVE  /\ decisions' \in Seq(Decision)
           /\ metaDepth' = Cardinality(AcceptedUpTo(Len(decisions)))'
           /\ DecisionsTellTheGenome'
<1> DEFINE n == Len(decisions)
           d == [accepted |-> accepted, proposal |-> p, old |-> config,
                 new |-> IF accepted THEN candidate ELSE config,
                 depth |-> IF accepted THEN metaDepth + 1 ELSE metaDepth]
<1>1. /\ n \in Nat /\ metaDepth \in Nat /\ config \in Genomes /\ decisions \in Seq(Decision)
      /\ metaDepth = Cardinality(AcceptedUpTo(n)) /\ DecisionsTellTheGenome
  BY TunerAssumption DEF TunerIInv
<1>2. d \in Decision
  BY <1>1 DEF Decision
<1>3. decisions' = Append(decisions, d)
  BY DEF Decided
<1> HIDE DEF d
<1>4. /\ decisions' \in Seq(Decision) /\ Len(decisions') = n + 1
      /\ \A i \in 1..n : decisions'[i] = decisions[i]
      /\ decisions'[n + 1] = d
  BY <1>1, <1>2, <1>3
<1>5. \A m \in 0..n : {j \in 1..m : decisions'[j].accepted} = AcceptedUpTo(m)
  BY <1>1, <1>4 DEF AcceptedUpTo
<1>6. IsFiniteSet(AcceptedUpTo(n))
  <2>1. IsFiniteSet(1..n) /\ AcceptedUpTo(n) \in SUBSET (1..n)
    BY <1>1, FS_Interval DEF AcceptedUpTo
  <2> QED BY <2>1, FS_Subset
<1>7. Cardinality({j \in 1..(n + 1) : decisions'[j].accepted}) = metaDepth'
  <2>1. {j \in 1..(n + 1) : decisions'[j].accepted}
            = {j \in 1..n : decisions'[j].accepted} \cup (IF d.accepted THEN {n + 1} ELSE {})
    BY <1>1, <1>4
  <2>2. {j \in 1..(n + 1) : decisions'[j].accepted}
            = AcceptedUpTo(n) \cup (IF accepted THEN {n + 1} ELSE {})
    <3>1. {j \in 1..n : decisions'[j].accepted} = AcceptedUpTo(n)
      BY <1>1, <1>5
    <3>2. d.accepted = accepted
      BY DEF d
    <3> QED BY <2>1, <3>1, <3>2
  <2>3. n + 1 \notin AcceptedUpTo(n)
    BY <1>1 DEF AcceptedUpTo
  <2>4. CASE accepted
    BY <1>1, <1>6, <2>2, <2>3, <2>4, FS_AddElement
  <2>5. CASE ~accepted
    BY <1>1, <2>2, <2>5
  <2> QED BY <2>4, <2>5
<1>8. d.depth = metaDepth' /\ d.old = config /\ d.new = config'
  BY DEF d
<1>9. DecisionsTellTheGenome'
  <2>1. ASSUME NEW i \in 2..(n + 1) PROVE decisions'[i].old = decisions'[i - 1].new
    <3>1. CASE i \in 2..n
      BY SMTT(30), <1>1, <1>4, <3>1 DEF DecisionsTellTheGenome
    <3>2. CASE i = n + 1
      <4>1. decisions # <<>> /\ n \in 1..n /\ i - 1 = n
        BY <1>1, <3>2
      <4>2. decisions[n].new = config
        BY <1>1, <4>1 DEF DecisionsTellTheGenome, Last
      <4> QED BY <1>4, <1>8, <3>2, <4>1, <4>2
    <3> QED BY <1>1, <3>1, <3>2
  <2>2. config' = decisions'[n + 1].new
    BY <1>4, <1>8
  <2>3. ASSUME NEW i \in 1..(n + 1)
        PROVE  decisions'[i].depth = Cardinality({j \in 1..i : decisions'[j].accepted})
    <3>1. CASE i \in 1..n
      <4>1. decisions[i].depth = Cardinality({j \in 1..i : decisions[j].accepted})
        BY <1>1, <3>1 DEF DecisionsTellTheGenome
      <4>2. {j \in 1..i : decisions'[j].accepted} = {j \in 1..i : decisions[j].accepted}
        BY <1>1, <1>4, <3>1
      <4> QED BY <1>4, <3>1, <4>1, <4>2
    <3>2. CASE i = n + 1
      BY <1>4, <1>7, <1>8, <3>2
    <3> QED BY <1>1, <3>1, <3>2
  <2>4. DOMAIN decisions' = 1..(n + 1) /\ Last(decisions)' = decisions'[n + 1]
    BY <1>4 DEF Last
  <2> QED BY <1>4, <2>1, <2>2, <2>3, <2>4 DEF DecisionsTellTheGenome
<1> QED BY <1>4, <1>7, <1>9 DEF AcceptedUpTo

(* Every step of an overlapping call keeps the genome told. *)
LEMMA TunerStep ==
    ASSUME TunerIInv, [TunerNext]_tunerVars
    PROVE  TunerIInv'
<1>1. /\ config \in Genomes /\ taskCount \in 0..MaxTasks /\ metaDepth \in 0..MaxMetaDepth
      /\ tuning \in [Tasks -> TuningStates] /\ mirror = KnobsOf(config)
  BY DEF TunerIInv, DecisionsTellTheGenome
<1>2. UNCHANGED <<config, mirror, metaDepth, decisions>> =>
        /\ config' \in Genomes /\ metaDepth' \in 0..MaxMetaDepth
        /\ decisions' \in Seq(Decision)
        /\ metaDepth' = Cardinality(AcceptedUpTo(Len(decisions)))'
        /\ DecisionsTellTheGenome'
  BY DEF TunerIInv, DecisionsTellTheGenome, AcceptedUpTo
<1>3. ASSUME NEW t \in Tasks, TaskEnds(t) PROVE TunerIInv'
  <2>1. taskCount' \in 0..MaxTasks /\ tuning' \in [Tasks -> TuningStates]
    BY <1>1, <1>3, TunerAssumption DEF TaskEnds, TuningStates
  <2>2. CASE decisions' = decisions
    BY <1>2, <1>3, <2>1, <2>2 DEF TaskEnds, TunerIInv
  <2>3. CASE decisions' = Decided(FALSE, [delta |-> 0], config)
    <3>1. UNCHANGED <<config, mirror, metaDepth>>
      BY <1>3 DEF TaskEnds
    <3> QED BY <1>1, <2>1, <2>3, <3>1, DecisionsGrow DEF TunerIInv
  <2> QED BY <1>3, <2>2, <2>3 DEF TaskEnds
<1>4. ASSUME NEW t \in Tasks, ProposalComes(t) PROVE TunerIInv'
  <2>1. PICK p \in Proposals :
            tuning' = [tuning EXCEPT ![t] = [at |-> "projecting", proposal |-> p,
                                             candidate |-> Applied(config, p)]]
    BY <1>4 DEF ProposalComes
  <2>2. [at |-> "projecting", proposal |-> p, candidate |-> Applied(config, p)] \in TuningStates
    BY <1>1, AppliedIsGenome DEF TuningStates
  <2>3. tuning' \in [Tasks -> TuningStates]
    BY <1>1, <2>1, <2>2
  <2>4. UNCHANGED <<config, mirror, taskCount, metaDepth, decisions>>
    BY <1>4 DEF ProposalComes
  <2> QED BY <1>1, <1>2, <2>3, <2>4 DEF TunerIInv
<1>5. ASSUME NEW t \in Tasks, ProposalFails(t) PROVE TunerIInv'
  <2>1. tuning' \in [Tasks -> TuningStates]
    BY <1>1, <1>5 DEF ProposalFails, TuningStates
  <2> QED BY <1>1, <1>2, <1>5, <2>1 DEF ProposalFails, TunerIInv
<1>6. ASSUME NEW t \in Tasks, GainComes(t) PROVE TunerIInv'
  <2>1. PICK enough \in BOOLEAN :
          /\ tuning[t].at = "projecting"
          /\ decisions' = Decided(MayAccept /\ enough, tuning[t].proposal, tuning[t].candidate)
          /\ IF MayAccept /\ enough
             THEN /\ config' = tuning[t].candidate
                  /\ metaDepth' = metaDepth + 1
                  /\ mirror' = Mirrored(tuning[t].candidate)
             ELSE UNCHANGED <<config, metaDepth, mirror>>
          /\ tuning' = [tuning EXCEPT ![t] = NoTuning]
          /\ UNCHANGED taskCount
    BY <1>6 DEF GainComes
  <2>2. tuning[t].proposal \in Proposals /\ tuning[t].candidate \in Genomes
    BY <1>1, <2>1 DEF TuningStates, NoTuning
  <2>3. tuning' \in [Tasks -> TuningStates]
    BY <1>1, <2>1 DEF TuningStates
  <2>4. (MayAccept /\ enough) \in BOOLEAN
    BY DEF MayAccept
  <2>5. /\ config' = (IF MayAccept /\ enough THEN tuning[t].candidate ELSE config)
        /\ metaDepth' = (IF MayAccept /\ enough THEN metaDepth + 1 ELSE metaDepth)
        /\ mirror' = KnobsOf(config')
    BY <1>1, <2>1 DEF Mirrored
  <2>6. /\ decisions' \in Seq(Decision)
        /\ metaDepth' = Cardinality(AcceptedUpTo(Len(decisions)))'
        /\ DecisionsTellTheGenome'
    BY <2>1, <2>2, <2>4, <2>5, DecisionsGrow
  <2>7. config' \in Genomes /\ metaDepth' \in 0..MaxMetaDepth
    BY <1>1, <2>2, <2>5, TunerAssumption DEF MayAccept
  <2> QED BY <1>1, <2>1, <2>3, <2>6, <2>7 DEF TunerIInv
<1>7. CASE UNCHANGED tunerVars
  BY <1>1, <1>2, <1>7 DEF TunerIInv, tunerVars
<1> QED BY <1>3, <1>4, <1>5, <1>6, <1>7 DEF TunerNext

(* For any knobs, levels, callers and depths: whatever calls overlap at    *)
(* the awaits of maybeMetaTune(), the decisions tell the life of the       *)
(* genome, link by link, and the proteome has its knobs.                   *)
THEOREM DecisionsTellTheGenomeAlways == TunerSpec => []TunerInv
<1>1. TunerInit => TunerIInv
  <2>1. Cardinality({}) = 0
    BY FS_EmptySet
  <2> SUFFICES ASSUME TunerInit PROVE TunerIInv
    OBVIOUS
  <2>2. config \in Genomes /\ tuning \in [Tasks -> TuningStates]
    BY TunerAssumption DEF TunerInit, Genomes, TuningStates
  <2>3. decisions = <<>> /\ AcceptedUpTo(Len(decisions)) = {}
    BY DEF TunerInit, AcceptedUpTo
  <2>4. DecisionsTellTheGenome
    BY <2>3 DEF TunerInit, DecisionsTellTheGenome
  <2>5. decisions \in Seq(Decision)
    BY <2>3, EmptySeq
  <2>6. metaDepth = Cardinality(AcceptedUpTo(Len(decisions)))
    BY <2>1, <2>3 DEF TunerInit
  <2>7. taskCount \in 0..MaxTasks /\ metaDepth \in 0..MaxMetaDepth
    BY TunerAssumption DEF TunerInit
  <2> QED BY <2>2, <2>4, <2>5, <2>6, <2>7 DEF TunerIInv
<1>2. TunerIInv => TunerInv
  <2> SUFFICES ASSUME TunerIInv PROVE TunerInv
    OBVIOUS
  <2>1. mirror \in [MirroredKnobs -> 0..MaxLevel]
    BY TunerAssumption DEF TunerIInv, DecisionsTellTheGenome, KnobsOf, Genomes
  <2>2. \A t \in Tasks : tuning[t].at \in {"none", "proposing", "projecting"}
    BY DEF TunerIInv, TuningStates, NoTuning
  <2> QED BY <2>1, <2>2 DEF TunerInv, TunerTypeOK, TunerIInv
<1> QED BY <1>1, <1>2, TunerStep, PTL DEF TunerSpec

-----------------------------------------------------------------------------
(* The completion clients. *)

(* Before a retry there is one left, and each retry posts once. *)
PostsIInv ==
    /\ attempt \in Nat
    /\ phase = "idle" => attempt = 0
    /\ phase # "idle" =>
          /\ client.maxRetries \in Nat
          /\ attempt <= client.maxRetries
          /\ posts = attempt + 1
          /\ phase = "sleeping" => attempt < client.maxRetries

(* Each step of a request keeps the count of its retries.                  *)
LEMMA RetriesAreCounted ==
    ASSUME PostsIInv, [ClientNext]_clientVars
    PROVE  PostsIInv'
<1>1. ASSUME NEW kind \in {"chat", "image", "single"}, NEW retries \in Int, NEW base, NEW max,
             NEW jitter, Complete(kind, retries, base, max, jitter)
      PROVE  PostsIInv'
  <2>1. client'.maxRetries \in Nat
    BY <1>1 DEF Complete, Normalized, AtLeast
  <2> QED BY <1>1, <2>1 DEF Complete, PostsIInv
<1>2. ASSUME NEW retries \in RetryLimits, NEW base \in Delays, NEW max \in Delays,
             \/ \E jitter \in Jitters : \/ CompleteGrok(retries, base, max, jitter)
                                        \/ CompleteQwen(retries, base, max, jitter)
             \/ GenerateGrokImage(retries, base, max)
      PROVE  PostsIInv'
  BY <1>1, <1>2, ClientAssumption DEF CompleteGrok, CompleteQwen, GenerateGrokImage
<1>3. CASE CompleteClaude \/ CompleteOpenAICompatible
  BY <1>1, <1>3 DEF CompleteClaude, CompleteOpenAICompatible
<1>4. ASSUME NEW status \in Status, NEW after, Answer(status, after) PROVE PostsIInv'
  BY <1>4 DEF Answer, ShouldRetry, PostsIInv
<1>5. CASE PostAgain
  BY <1>5 DEF PostAgain, PostsIInv
<1>6. CASE PostFails
  BY <1>6 DEF PostFails, PostsIInv
<1>7. CASE ReadBody
  BY <1>7 DEF ReadBody, PostsIInv
<1>8. CASE BodyStalls
  BY <1>8 DEF BodyStalls, PostsIInv
<1>9. CASE UNCHANGED clientVars
  BY <1>9 DEF clientVars, PostsIInv
<1> QED BY <1>2, <1>3, <1>4, <1>5, <1>6, <1>7, <1>8, <1>9 DEF ClientNext

(* For any configuration, negative limits included, and any answers: a     *)
(* request posts at most once more than it may retry, and a client without *)
(* retries posts once.                                                     *)
THEOREM ClientsPostNoMore == ClientSpec => []PostsAreBounded
<1>1. ClientInit => PostsIInv
  BY DEF ClientInit, PostsIInv
<1>2. PostsIInv /\ [ClientNext]_clientVars => PostsIInv'
  BY RetriesAreCounted
<1>3. PostsIInv => PostsAreBounded
  BY DEF PostsIInv, PostsAreBounded
<1> QED BY <1>1, <1>2, <1>3, PTL DEF ClientSpec

(* What the exponential backoff needs of powers of two, from the number of *)
(* the subsets of 1..a: they are positive, ...                             *)
LEMMA PowersArePositive ==
    ASSUME NEW a \in Nat
    PROVE  2 ^ a \in Nat \ {0}
<1> DEFINE Counted == SUBSET (1..a)
<1>1. /\ IsFiniteSet(1..a) /\ Cardinality(1..a) = a
    BY FS_Interval
<1>2. /\ IsFiniteSet(Counted) /\ Cardinality(Counted) = 2 ^ a
    BY <1>1, FS_SUBSET
<1>3. {} \in Counted
    OBVIOUS
<1>4. Counted # {}
    BY <1>3
<1>5. Cardinality(Counted) \in Nat
    BY <1>2, FS_CardinalityType
<1>6. Cardinality(Counted) # 0
    BY <1>2, <1>4, FS_EmptySet
<1> QED
    BY <1>2, <1>5, <1>6

(* ... and each is twice the one before, half of the subsets of 1..(a + 1) *)
(* leaving a + 1 out.                                                      *)
LEMMA PowersDouble ==
    ASSUME NEW a \in Nat
    PROVE  2 ^ (a + 1) = 2 * 2 ^ a
<1> DEFINE Without == SUBSET (1..a)
           With == {kept \cup {a + 1} : kept \in Without}
           add == [kept \in Without |-> kept \cup {a + 1}]
<1>1. /\ IsFiniteSet(1..a) /\ Cardinality(1..a) = a
      /\ IsFiniteSet(1..(a + 1)) /\ Cardinality(1..(a + 1)) = a + 1
    BY FS_Interval
<1>2. /\ IsFiniteSet(Without) /\ Cardinality(Without) = 2 ^ a
      /\ IsFiniteSet(SUBSET (1..(a + 1)))
      /\ Cardinality(SUBSET (1..(a + 1))) = 2 ^ (a + 1)
    BY <1>1, FS_SUBSET
<1>3. add \in Bijection(Without, With)
  <2>1. ASSUME NEW one \in Without, NEW other \in Without, add[one] = add[other]
        PROVE  one = other
    <3>1. a + 1 \notin one /\ a + 1 \notin other
        OBVIOUS
    <3>2. one \cup {a + 1} = other \cup {a + 1}
        BY <2>1
    <3> QED
        BY <3>1, <3>2
  <2>2. add \in [Without -> With]
      OBVIOUS
  <2>3. \A with \in With : \E kept \in Without : add[kept] = with
      OBVIOUS
  <2> HIDE DEF add, With, Without
  <2> QED
      BY <2>1, <2>2, <2>3 DEF Bijection, Injection, Surjection, IsInjective
<1>4. /\ IsFiniteSet(With) /\ Cardinality(With) = 2 ^ a
    BY <1>2, <1>3, FS_Bijection DEF ExistsBijection
<1>5. Without \cap With = {}
  <2> SUFFICES ASSUME NEW both \in Without, both \in With
               PROVE  FALSE
      OBVIOUS
  <2>1. a + 1 \in both
      OBVIOUS
  <2> QED
      BY <2>1
<1>6. SUBSET (1..(a + 1)) = Without \cup With
  <2>1. ASSUME NEW some \in SUBSET (1..(a + 1))
        PROVE  some \in Without \cup With
    <3>1. CASE a + 1 \notin some
        BY <3>1
    <3>2. CASE a + 1 \in some
      <4>1. some \ {a + 1} \in Without
          OBVIOUS
      <4>2. some = (some \ {a + 1}) \cup {a + 1}
          BY <3>2
      <4> QED
          BY <4>1, <4>2
    <3> QED
        BY <3>1, <3>2
  <2>2. ASSUME NEW some \in Without \cup With
        PROVE  some \in SUBSET (1..(a + 1))
      OBVIOUS
  <2> QED
      BY <2>1, <2>2
<1> HIDE DEF With, Without
<1>7. Cardinality(Without \cup With)
        = Cardinality(Without) + Cardinality(With) - Cardinality(Without \cap With)
    BY <1>2, <1>4, FS_Union
<1>8. Cardinality(Without \cap With) = 0
    BY <1>5, FS_EmptySet
<1>9. 2 ^ (a + 1) = Cardinality(Without \cup With)
    BY <1>2, <1>6
<1>10. PICK power \in Nat : power = 2 ^ a
    BY PowersArePositive
<1>11. Cardinality(Without \cup With) = power + power - 0
    BY <1>2, <1>4, <1>7, <1>8, <1>10
<1>12. Cardinality(Without \cup With) = 2 * power
    BY <1>11
<1> QED
    BY <1>9, <1>10, <1>12

(* The jitter of an attempt, at most two thirds of the delay, rounds to no *)
(* more than the delay.                                                    *)
LEMMA JitterIsAtMostTheDelay ==
    ASSUME NEW delay \in Nat \ {0}, NEW ratio \in 0..100, NEW a \in Nat
    PROVE  /\ (delay * ratio * (a % 3) + 150) \div 300 \in Nat
           /\ (delay * ratio * (a % 3) + 150) \div 300 <= delay
<1> DEFINE spread == delay * ratio * (a % 3)
<1>1. delay * ratio \in 0..(100 * delay)
  <2>1. delay * ratio \in Nat
      OBVIOUS
  <2>2. delay * (100 - ratio) \in Nat
      OBVIOUS
  <2>3. delay * (100 - ratio) = 100 * delay - delay * ratio
      OBVIOUS
  <2> QED
      BY <2>1, <2>2, <2>3
<1>2. a % 3 \in {0, 1, 2}
    OBVIOUS
<1>3. PICK scaled \in 0..(100 * delay) : scaled = delay * ratio
    BY <1>1
<1>4. spread \in 0..(200 * delay)
  <2>1. CASE a % 3 = 0
      BY <1>3, <2>1
  <2>2. CASE a % 3 = 1
      BY <1>3, <2>2
  <2>3. CASE a % 3 = 2
      BY <1>3, <2>3
  <2> QED
      BY <1>2, <2>1, <2>2, <2>3
<1> HIDE DEF spread
<1>5. /\ (spread + 150) \div 300 \in Nat
      /\ (spread + 150) \div 300 <= delay
    BY <1>4
<1> QED
    BY <1>5 DEF spread

(* Doubling outgrows the jitter: no delay is longer than the one computed  *)
(* at the next attempt, nor than maxDelayMs.                               *)
LEMMA BackoffGrows ==
    ASSUME client.base \in Nat \ {0}, client.max \in Nat \ {0},
           client.jitter \in 0..100, NEW a \in Nat
    PROVE  /\ Backoff(a) \in Nat
           /\ Backoff(a) <= client.max
           /\ Backoff(a) <= Backoff(a + 1)
<1> DEFINE Capped(i) == AtMost(client.max, client.base * 2 ^ i)
           Spread(i) == (Capped(i) * client.jitter * (i % 3) + 150) \div 300
<1>1. ASSUME NEW i \in Nat
      PROVE  /\ Capped(i) \in Nat \ {0}
             /\ Capped(i) <= client.max
             /\ Spread(i) \in Nat
             /\ Spread(i) <= Capped(i)
             /\ Backoff(i) = AtMost(client.max, Capped(i) + Spread(i))
  <2>1. PICK power \in Nat \ {0} : power = 2 ^ i
      BY PowersArePositive
  <2>2. client.base * power \in Nat \ {0}
    <3>1. PICK base \in Nat \ {0} : base = client.base
        OBVIOUS
    <3>2. base * power >= 1
        OBVIOUS
    <3> QED
        BY <3>1, <3>2
  <2>3. /\ Capped(i) \in Nat \ {0}
        /\ Capped(i) <= client.max
      BY <2>1, <2>2 DEF AtMost
  <2>4. Backoff(i) = AtMost(client.max, Capped(i) + Spread(i))
      BY DEF Backoff
  <2> HIDE DEF Capped
  <2>5. /\ Spread(i) \in Nat
        /\ Spread(i) <= Capped(i)
      BY <2>3, JitterIsAtMostTheDelay
  <2> QED
      BY <2>3, <2>4, <2>5
<1>2. Capped(a + 1) = client.max \/ Capped(a + 1) = client.base * (2 * 2 ^ a)
    BY PowersDouble DEF AtMost
<1>3. Capped(a) = client.max \/ Capped(a) = client.base * 2 ^ a
    BY DEF AtMost
<1>4. client.base * (2 * 2 ^ a) = 2 * (client.base * 2 ^ a)
    BY PowersArePositive
<1>5. a + 1 \in Nat
    OBVIOUS
<1>6. Capped(a) = client.max => Capped(a + 1) = client.max
  <2>1. PICK power \in Nat \ {0} : power = 2 ^ a
      BY PowersArePositive
  <2>2. PICK scaled \in Int : scaled = client.base * power
      OBVIOUS
  <2>3. client.base * 2 ^ (a + 1) = 2 * scaled
      BY <1>4, <2>1, <2>2, PowersDouble
  <2>4. scaled \in Nat
      BY <2>2
  <2>5. Capped(a) = AtMost(client.max, scaled)
      BY <2>1, <2>2
  <2>6. Capped(a + 1) = AtMost(client.max, 2 * scaled)
      BY <2>3
  <2> HIDE DEF Capped
  <2> QED
      BY <2>4, <2>5, <2>6 DEF AtMost
<1>7. Capped(a + 1) >= Capped(a) + Spread(a) \/ Capped(a + 1) = client.max
  <2>1. CASE Capped(a) = client.max
      BY <1>6, <2>1
  <2>2. CASE Capped(a) = client.base * 2 ^ a
    <3>1. CASE Capped(a + 1) = client.max
        BY <3>1
    <3>2. CASE Capped(a + 1) = client.base * (2 * 2 ^ a)
      <4>1. Capped(a + 1) = 2 * Capped(a)
          BY <1>4, <2>2, <3>2
      <4> HIDE DEF Capped, Spread
      <4> QED
          BY <1>1, <4>1
    <3> HIDE DEF Capped, Spread
    <3> QED
        BY <1>2, <3>1, <3>2
  <2> HIDE DEF Capped, Spread
  <2> QED
      BY <1>3, <2>1, <2>2
<1> HIDE DEF Capped, Spread
<1>8. /\ Backoff(a) \in Nat
      /\ Backoff(a) <= client.max
    BY <1>1 DEF AtMost
<1>9. Backoff(a) <= Backoff(a + 1)
    BY <1>1, <1>5, <1>7 DEF AtMost
<1> QED
    BY <1>8, <1>9

(* A request that was not made has waited for nothing, and the last delay  *)
(* of one that was is at most the delay it would compute next.             *)
ClientIInv ==
    /\ ClientTypeOK /\ BackoffGrowsToItsCap /\ PostsIInv
    /\ phase = "idle" => waits = <<>>
    /\ waits # <<>> => waits[Len(waits)] <= Backoff(attempt)

(* Each kind of step of a request keeps the invariant: a completion that   *)
(* starts, with any configuration, ...                                     *)
LEMMA CompletionStarts ==
    ASSUME ClientIInv, NEW kind \in {"chat", "image", "single"}, NEW retries \in Int,
           NEW base \in Int, NEW max \in Int, NEW jitter \in Int,
           Complete(kind, retries, base, max, jitter)
    PROVE  ClientTypeOK' /\ BackoffGrowsToItsCap' /\ waits' = <<>> /\ phase' # "idle"
<1>1. /\ client'.maxRetries \in Nat
      /\ client'.base \in Nat \ {0}
      /\ client'.max \in Nat \ {0}
      /\ client'.jitter \in 0..100
    BY DEF Complete, Normalized, AtLeast, AtMost, JitterRatio
<1>2. waits' = <<>>
    BY DEF Complete, ClientIInv
<1>3. ClientTypeOK'
    BY <1>1 DEF Complete, ClientIInv, ClientTypeOK, Phase
<1>4. BackoffGrowsToItsCap'
    BY <1>2 DEF BackoffGrowsToItsCap
<1> QED
    BY <1>2, <1>3, <1>4 DEF Complete

(* ... and an answer, after which the delay is the next of those computed  *)
(* or the one the header asks for.                                         *)
LEMMA AnswersKeepTheDelays ==
    ASSUME ClientIInv, NEW status \in Status, NEW after \in HeaderDelays \cup {NoHeader},
           Answer(status, after)
    PROVE  /\ ClientTypeOK' /\ BackoffGrowsToItsCap' /\ phase' # "idle"
           /\ waits' # <<>> => waits'[Len(waits')] <= Backoff(attempt)'
<1> DEFINE delay == Backoff(attempt)
<1>1. /\ phase = "posting" /\ client' = client /\ attempt' = attempt
      /\ posts' = posts /\ stalled' = stalled /\ header' = after
    BY DEF Answer
<1>2. /\ client.base \in Nat \ {0} /\ client.max \in Nat \ {0} /\ client.jitter \in 0..100
      /\ client.maxRetries \in Nat /\ attempt \in Nat /\ waits \in Seq(Nat)
    BY <1>1 DEF ClientIInv, ClientTypeOK
<1>3. delay \in Nat /\ delay <= client.max
    BY <1>2, BackoffGrows
<1>4. Backoff(attempt)' = delay
    BY <1>1 DEF Backoff
<1> HIDE DEF delay
<1>5. waits' = waits \/ waits' = Append(waits, delay)
    BY DEF Answer, delay
<1>6. sleeping' = sleeping \/ sleeping' = delay \/ (sleeping' = after /\ after # NoHeader)
    BY DEF Answer, delay
<1>7. phase' \in {"sleeping", "reading", "readingError"}
    BY DEF Answer
<1>8. sleeping' \in Nat
    BY <1>3, <1>6, ClientAssumption DEF ClientIInv, ClientTypeOK
<1>9. waits' \in Seq(Nat)
    BY <1>2, <1>3, <1>5
<1>10. ClientTypeOK'
    BY <1>1, <1>2, <1>7, <1>8, <1>9 DEF ClientIInv, ClientTypeOK, Phase
<1>11. BackoffGrowsToItsCap' /\ (waits' # <<>> => waits'[Len(waits')] <= delay)
  <2>1. CASE waits' = waits
      BY <1>1, <2>1 DEF ClientIInv, BackoffGrowsToItsCap, delay
  <2>2. CASE waits' = Append(waits, delay)
    <3>1. /\ Len(waits') = Len(waits) + 1 /\ waits'[Len(waits) + 1] = delay
          /\ \A i \in 1..Len(waits) : waits'[i] = waits[i]
          /\ DOMAIN waits' = 1..(Len(waits) + 1) /\ DOMAIN waits = 1..Len(waits)
          /\ Len(waits) \in Nat
        BY <1>2, <1>3, <2>2, AppendProperties
    <3>2. Len(waits) > 0 => waits[Len(waits)] <= delay
        BY <1>2 DEF ClientIInv, delay
    <3>3. ASSUME NEW i \in 1..(Len(waits) + 1)
          PROVE  /\ waits'[i] <= client.max
                 /\ i > 1 => waits'[i - 1] <= waits'[i]
      <4>1. CASE i = Len(waits) + 1
          BY <1>3, <3>1, <3>2, <4>1
      <4>2. CASE i # Len(waits) + 1
        <5>1. i \in 1..Len(waits) /\ (i > 1 => i - 1 \in 1..Len(waits))
            BY <3>1, <4>2
        <5> QED
            BY <3>1, <5>1 DEF ClientIInv, BackoffGrowsToItsCap
      <4> QED
          BY <4>1, <4>2
    <3>4. BackoffGrowsToItsCap'
        BY <1>1, <3>1, <3>3 DEF BackoffGrowsToItsCap
    <3> QED
        BY <1>3, <3>1, <3>4
  <2> QED
      BY <1>5, <2>1, <2>2
<1> QED
    BY <1>4, <1>7, <1>10, <1>11

(* Whatever the caller configures, any negative or too large value         *)
(* included, and whatever headers the answers carry: the configuration a   *)
(* client works with is sound, the delays it computes never shrink from    *)
(* one retry to the next and never pass maxDelayMs, although the jitter of *)
(* every third one falls back to nothing, and its posts are bounded.       *)
THEOREM ClientsKeepTheirLimits == ClientSpec => []ClientInv
<1>1. ClientInit => ClientIInv
  <2> SUFFICES ASSUME ClientInit PROVE ClientIInv
      OBVIOUS
  <2>1. waits \in Seq(Nat)
      BY DEF ClientInit
  <2>2. ClientTypeOK
      BY <2>1 DEF ClientInit, ClientTypeOK, Phase
  <2>3. PostsIInv
      BY DEF ClientInit, PostsIInv
  <2> QED
      BY <2>2, <2>3 DEF ClientInit, ClientIInv, BackoffGrowsToItsCap
<1>2. ClientIInv /\ [ClientNext]_clientVars => ClientIInv'
  <2> SUFFICES ASSUME ClientIInv, [ClientNext]_clientVars
               PROVE  ClientIInv'
      OBVIOUS
  <2>0. PostsIInv'
      BY RetriesAreCounted DEF ClientIInv
  <2>1. ASSUME NEW kind \in {"chat", "image", "single"}, NEW retries \in Int, NEW base \in Int,
               NEW max \in Int, NEW jitter \in Int, Complete(kind, retries, base, max, jitter)
        PROVE  ClientIInv'
      BY <2>1, <2>0, CompletionStarts DEF ClientIInv
  <2>2. ASSUME NEW retries \in RetryLimits, NEW base \in Delays, NEW max \in Delays,
               \/ \E jitter \in Jitters : \/ CompleteGrok(retries, base, max, jitter)
                                          \/ CompleteQwen(retries, base, max, jitter)
               \/ GenerateGrokImage(retries, base, max)
        PROVE  ClientIInv'
      BY <2>1, <2>2, ClientAssumption DEF CompleteGrok, CompleteQwen, GenerateGrokImage
  <2>3. CASE CompleteClaude \/ CompleteOpenAICompatible
      BY <2>1, <2>3 DEF CompleteClaude, CompleteOpenAICompatible
  <2>4. ASSUME NEW status \in Status, NEW after \in HeaderDelays \cup {NoHeader},
               Answer(status, after)
        PROVE  ClientIInv'
      BY <2>4, <2>0, AnswersKeepTheDelays DEF ClientIInv
  <2>5. CASE PostAgain
    <3>1. /\ client.base \in Nat \ {0} /\ client.max \in Nat \ {0} /\ client.jitter \in 0..100
          /\ attempt \in Nat /\ waits \in Seq(Nat)
        BY <2>5 DEF PostAgain, ClientIInv, ClientTypeOK
    <3>2. Backoff(attempt)' = Backoff(attempt + 1)
        BY <2>5 DEF PostAgain, Backoff
    <3>3. attempt + 1 \in Nat
        BY <3>1
    <3>4. /\ Backoff(attempt) <= Backoff(attempt + 1)
          /\ Backoff(attempt) \in Nat
        BY <3>1, BackoffGrows
    <3>5. Backoff(attempt + 1) \in Nat
        BY <3>1, <3>3, BackoffGrows
    <3>6. waits # <<>> => waits[Len(waits)] \in Nat /\ waits[Len(waits)] <= Backoff(attempt)
        BY <3>1 DEF ClientIInv
    <3>7. waits' # <<>> => waits'[Len(waits')] <= Backoff(attempt)'
        BY <2>5, <3>2, <3>4, <3>5, <3>6 DEF PostAgain
    <3>8. ClientTypeOK' /\ BackoffGrowsToItsCap'
        BY <2>5 DEF PostAgain, ClientIInv, ClientTypeOK, BackoffGrowsToItsCap, Phase
    <3> QED
        BY <2>5, <2>0, <3>7, <3>8 DEF PostAgain, ClientIInv
  <2>6. ASSUME UNCHANGED <<client, attempt, header, sleeping, waits, posts>>,
               phase' \in Phase, phase = "idle" <=> phase' = "idle", stalled' \in BOOLEAN
        PROVE  ClientIInv'
    <3>1. Backoff(attempt)' = Backoff(attempt)
        BY <2>6 DEF Backoff
    <3>2. ClientTypeOK' /\ BackoffGrowsToItsCap'
        BY <2>6 DEF ClientIInv, ClientTypeOK, BackoffGrowsToItsCap
    <3> QED
        BY <2>6, <2>0, <3>1, <3>2 DEF ClientIInv
  <2>7. CASE PostFails
      BY <2>6, <2>7 DEF PostFails, Phase, ClientIInv, ClientTypeOK
  <2>8. CASE ReadBody
      BY <2>6, <2>8 DEF ReadBody, Phase, ClientIInv, ClientTypeOK
  <2>9. CASE BodyStalls
      BY <2>6, <2>9 DEF BodyStalls, Phase, ClientIInv, ClientTypeOK
  <2>10. CASE UNCHANGED clientVars
      BY <2>6, <2>10 DEF clientVars, ClientIInv, ClientTypeOK
  <2> QED
      BY <2>2, <2>3, <2>4, <2>5, <2>7, <2>8, <2>9, <2>10 DEF ClientNext
<1>3. ClientIInv => ClientInv
    BY DEF ClientIInv, ClientInv, PostsIInv, PostsAreBounded
<1> QED
    BY <1>1, <1>2, <1>3, PTL DEF ClientSpec

-----------------------------------------------------------------------------
(* The film orchestrator. *)

(* What a call has recorded, the shots being of any shape.                 *)
FilmOf(S) ==
    [phase : {"idle", "rendering", "done", "failed"}, total : Nat,
     clips : Seq([clip : Nat, root : Nat]), shots : Seq(S), finalRoot : Nat]

(* What a call recorded is sound after n clips were delivered: clip by     *)
(* clip its place in the chain, shot by shot the same clips, and as many   *)
(* of both as its phase allows.                                            *)
FilmSound(film, n) ==
    /\ \E S : film \in FilmOf(S)
    /\ Len(film.shots) = Len(film.clips)
    /\ SidecarVerifies(film.shots)
    /\ \A i \in 1..Len(film.clips) :
        /\ film.clips[i].clip = film.clips[i].root /\ film.clips[i].root \in 1..n
        /\ film.shots[i].clip = film.clips[i].clip
        /\ i > 1 => film.clips[i - 1].root < film.clips[i].root
    /\ film.phase = "idle" => film.total = 0 /\ film.clips = <<>>
    /\ film.phase \in {"rendering", "failed"} => Len(film.clips) < film.total
    /\ film.phase = "done" => /\ film.total > 0 /\ Len(film.clips) = film.total
                              /\ \A i \in 1..Len(film.clips) : film.clips[i].root <= film.finalRoot

FilmTyped ==
    /\ answers \in 0..MaxClips
    /\ untraced \subseteq 1..answers /\ unetched \subseteq 1..answers
    /\ filmMemory \in Seq(1..answers)
    /\ films = [f \in Films |-> films[f]]

FilmIInv ==
    /\ FilmTyped
    /\ SealedAreTheAnswers /\ HalfSealedAreNotListed
    /\ \A f \in Films : FilmSound(films[f], answers)

(* More clips delivered take nothing away.                                 *)
LEMMA FilmStaysSound ==
    ASSUME NEW film, NEW n \in Nat, NEW m \in Nat, n <= m, FilmSound(film, n)
    PROVE  FilmSound(film, m)
<1>1. \A i \in 1..n : i \in 1..m
  OBVIOUS
<1> QED BY <1>1 DEF FilmSound

(* A film that is opened has recorded nothing yet.                         *)
LEMMA OpenedIsSound ==
    ASSUME NEW f, NEW total \in Lengths, NEW n \in Nat
    PROVE  FilmSound(Opened(f, total), n)
<1> DEFINE film == Opened(f, total)
<1>1. /\ film.phase = "rendering" /\ film.total = total /\ film.clips = <<>> /\ film.shots = <<>>
      /\ total \in Nat /\ total > 0
  BY FilmAssumption DEF Opened, NoFilm
<1>2. film \in FilmOf({})
  <2>1. <<>> \in Seq({}) /\ <<>> \in Seq([clip : Nat, root : Nat])
    OBVIOUS
  <2>2. NoFilm \in FilmOf({})
    BY <2>1 DEF FilmOf, NoFilm
  <2>3. film = [NoFilm EXCEPT !.phase = "rendering", !.total = total]
    BY DEF Opened
  <2> HIDE DEF film
  <2> QED BY <1>1, <2>2, <2>3 DEF FilmOf
<1>3. Len(film.shots) = Len(film.clips) /\ Len(film.clips) = 0 /\ SidecarVerifies(film.shots)
  BY <1>1 DEF SidecarVerifies
<1> QED BY <1>1, <1>2, <1>3 DEF FilmSound

(* What makes the record of a film under way sound.                        *)
LEMMA RenderingIsSound ==
    ASSUME NEW S, NEW film \in FilmOf(S), NEW n, NEW c, NEW h, film.clips = c, film.shots = h,
           Len(h) = Len(c), SidecarVerifies(h), film.phase = "rendering", Len(c) < film.total,
           \A i \in 1..Len(c) : /\ c[i].clip = c[i].root /\ c[i].root \in 1..n
                                /\ h[i].clip = c[i].clip
                                /\ i > 1 => c[i - 1].root < c[i].root
    PROVE  FilmSound(film, n)
<1>1. film.phase # "idle" /\ film.phase # "done"
  OBVIOUS
<1> QED BY <1>1 DEF FilmSound

(* A clip that arrives is recorded with its place in the chain, and its    *)
(* shot names the one before.                                              *)
LEMMA ClipIsRecorded ==
    ASSUME NEW film, NEW n \in Nat, FilmSound(film, n), film.phase = "rendering",
           NEW next, next = [film EXCEPT !.clips = Append(@, [clip |-> n + 1, root |-> n + 1]),
                                         !.shots = Append(@, Shot(@, n + 1))]
    PROVE  /\ Over(next) => FilmSound([next EXCEPT !.phase = "done", !.finalRoot = n + 1], n + 1)
           /\ ~Over(next) => FilmSound(next, n + 1)
<1>1. PICK S : film \in FilmOf(S)
  BY DEF FilmSound
<1>2. PICK clips, drawn : clips = film.clips /\ drawn = film.shots
  OBVIOUS
<1> DEFINE clip == [clip |-> n + 1, root |-> n + 1]
           shot == Shot(drawn, n + 1)
           T == S \cup {shot}
           k == Len(clips)
<1>3. /\ clips \in Seq([clip : Nat, root : Nat]) /\ drawn \in Seq(S) /\ film.total \in Nat
      /\ k \in Nat /\ k = Len(clips) /\ Len(drawn) = k /\ k < film.total
  BY <1>1, <1>2 DEF FilmOf, FilmSound
<1>k. /\ k \in Nat /\ k = Len(clips)
      /\ \A i \in 1..(k + 1) : i \in 1..k \/ i = k + 1
      /\ \A i \in 2..(k + 1) : i \in 2..k \/ i = k + 1
      /\ \A i \in 2..k : i \in 1..k /\ i - 1 \in 1..k /\ i > 1
  <2>1. k \in Nat /\ k = Len(clips)
    BY <1>3
  <2> HIDE DEF k
  <2> QED BY <2>1
<1>4. clip \in [clip : Nat, root : Nat] /\ clip.clip = n + 1 /\ clip.root = n + 1
  OBVIOUS
<1>5. /\ shot.clip = n + 1
      /\ shot.priorFingerprint = (IF drawn = <<>> THEN 0 ELSE Last(drawn).clip)
      /\ shot.priorLeaf = (IF drawn = <<>> THEN <<>> ELSE <<Last(drawn)>>)
  BY DEF Shot
<1>6. S \subseteq T /\ shot \in T
  OBVIOUS
<1> HIDE DEF clip, shot, T, k
<1>7. drawn \in Seq(T)
  BY <1>3, <1>6
<1>8. PICK newClips \in Seq([clip : Nat, root : Nat]) : newClips = Append(clips, clip)
  <2>1. Append(clips, clip) \in Seq([clip : Nat, root : Nat])
    BY <1>3, <1>4, AppendProperties
  <2> QED BY <2>1
<1>9. PICK newShots \in Seq(T) : newShots = Append(drawn, shot)
  <2>1. Append(drawn, shot) \in Seq(T)
    BY <1>6, <1>7, AppendProperties
  <2> QED BY <2>1
<1>10. /\ Len(newClips) = k + 1 /\ \A i \in 1..k : newClips[i] = clips[i]
       /\ newClips[k + 1] = clip
  BY <1>3, <1>4, <1>8
<1>11. /\ Len(newShots) = k + 1 /\ DOMAIN newShots = 1..(k + 1)
       /\ \A i \in 1..k : newShots[i] = drawn[i] /\ newShots[k + 1] = shot
  BY <1>3, <1>6, <1>7, <1>9
<1>12. newShots[k + 1] = shot
  BY <1>3, <1>6, <1>7, <1>9
<1>13. next = [film EXCEPT !.clips = newClips, !.shots = newShots]
  BY <1>2, <1>8, <1>9 DEF clip, shot
<1>14. /\ next.clips = newClips /\ next.shots = newShots /\ next.phase = "rendering"
       /\ next.total = film.total /\ next \in FilmOf(T)
  BY <1>1, <1>13 DEF FilmOf
<1>15. \A i \in 1..k : /\ clips[i].clip = clips[i].root /\ clips[i].root \in 1..n
                       /\ drawn[i].clip = clips[i].clip
                       /\ i > 1 => clips[i - 1].root < clips[i].root
  BY <1>2, <1>k DEF FilmSound
<1>16. \A i \in 1..(k + 1) :
          /\ newClips[i].clip = newClips[i].root /\ newClips[i].root \in 1..(n + 1)
          /\ newShots[i].clip = newClips[i].clip
  <2>1. ASSUME NEW i \in 1..(k + 1)
        PROVE  /\ newClips[i].clip = newClips[i].root /\ newClips[i].root \in 1..(n + 1)
               /\ newShots[i].clip = newClips[i].clip
    <3>1. CASE i \in 1..k
      <4>1. newClips[i] = clips[i] /\ newShots[i] = drawn[i]
        BY <1>10, <1>11, <3>1
      <4>2. clips[i].root \in 1..(n + 1)
        BY <1>15, <3>1
      <4> QED BY <1>15, <3>1, <4>1, <4>2
    <3>2. CASE i = k + 1
      BY <1>4, <1>5, <1>10, <1>12, <3>2
    <3> QED BY <1>k, <3>1, <3>2
  <2> QED BY <2>1
<1>17. \A i \in 2..(k + 1) : newClips[i - 1].root < newClips[i].root
  <2>1. ASSUME NEW i \in 2..(k + 1) PROVE newClips[i - 1].root < newClips[i].root
    <3>1. CASE i \in 2..k
      <4>1. i \in 1..k /\ i - 1 \in 1..k /\ i > 1
        BY <1>k, <3>1
      <4>2. newClips[i] = clips[i] /\ newClips[i - 1] = clips[i - 1]
        BY <1>10, <4>1
      <4> QED BY <1>15, <4>1, <4>2
    <3>2. CASE i = k + 1
      <4>1. i - 1 \in 1..k
        BY <1>3, <3>2
      <4>2. newClips[i] = clip /\ newClips[i - 1] = clips[i - 1]
        BY <1>10, <3>2, <4>1
      <4>3. clips[i - 1].root \in 1..n
        BY <1>15, <4>1
      <4>4. clips[i - 1].root < n + 1
        BY <4>3
      <4>5. newClips[i - 1].root = clips[i - 1].root /\ newClips[i].root = n + 1
        BY <1>4, <4>2
      <4> QED BY <4>4, <4>5
    <3> QED BY <1>k, <3>1, <3>2
  <2> QED BY <2>1
<1>18. SidecarVerifies(newShots)
  <2>1. ASSUME NEW i \in 1..(k + 1)
        PROVE  IF i = 1 THEN newShots[i].priorFingerprint = 0 /\ newShots[i].priorLeaf = <<>>
               ELSE /\ newShots[i].priorFingerprint = newShots[i - 1].clip
                    /\ newShots[i].priorLeaf = <<newShots[i - 1]>>
    <3>1. CASE i \in 1..k
      <4>1. DOMAIN drawn = 1..k
        BY <1>3
      <4>2. i # 1 => i - 1 \in 1..k
        BY <1>k, <3>1
      <4> QED BY <1>2, <1>11, <3>1, <4>1, <4>2 DEF FilmSound, SidecarVerifies
    <3>2. CASE i = k + 1 /\ k = 0
      <4>1. drawn = <<>>
        BY <1>3, <3>2
      <4> QED BY <1>5, <1>12, <3>2, <4>1
    <3>3. CASE i = k + 1 /\ k # 0
      <4>1. drawn # <<>> /\ Last(drawn) = drawn[k] /\ i # 1 /\ i - 1 = k /\ k \in 1..k
        BY <1>3, <3>3 DEF Last
      <4> QED BY <1>5, <1>11, <1>12, <3>3, <4>1
    <3> QED BY <1>k, <3>1, <3>2, <3>3
  <2> QED BY <1>11, <2>1 DEF SidecarVerifies
<1>19. ASSUME ~Over(next) PROVE FilmSound(next, n + 1)
  <2>1. k + 1 < film.total
    <3>1. k + 1 # film.total
      BY <1>10, <1>14, <1>19 DEF Over
    <3> QED BY <1>3, <3>1
  <2>2. \A i \in 1..(k + 1) : i > 1 => newClips[i - 1].root < newClips[i].root
    BY <1>3, <1>17
  <2>3. /\ next.clips = newClips /\ next.shots = newShots /\ Len(newShots) = Len(newClips)
        /\ SidecarVerifies(newShots) /\ Len(newClips) < next.total
    BY <1>10, <1>11, <1>14, <1>18, <2>1
  <2>4. \A i \in 1..Len(newClips) :
            /\ newClips[i].clip = newClips[i].root /\ newClips[i].root \in 1..(n + 1)
            /\ newShots[i].clip = newClips[i].clip
            /\ i > 1 => newClips[i - 1].root < newClips[i].root
    BY <1>10, <1>16, <2>2
  <2> QED BY <1>14, <2>3, <2>4, RenderingIsSound
<1>20. ASSUME Over(next) PROVE FilmSound([next EXCEPT !.phase = "done", !.finalRoot = n + 1], n + 1)
  <2> DEFINE done == [next EXCEPT !.phase = "done", !.finalRoot = n + 1]
  <2>1. /\ done.clips = newClips /\ done.shots = newShots /\ done.phase = "done"
        /\ done.total = film.total /\ done.finalRoot = n + 1 /\ done \in FilmOf(T)
    <3>1. n + 1 \in Nat /\ next \in FilmOf(T)
      BY <1>14
    <3> QED BY <1>14, <3>1 DEF FilmOf
  <2>2. k + 1 = film.total /\ film.total > 0
    BY <1>3, <1>10, <1>14, <1>20 DEF Over
  <2> HIDE DEF done
  <2>3. \A i \in 1..(k + 1) : newClips[i].root <= n + 1
    BY <1>16
  <2>5. \A i \in 1..(k + 1) : i > 1 => newClips[i - 1].root < newClips[i].root
    BY <1>3, <1>17
  <2>4. FilmSound(done, n + 1)
    BY <1>10, <1>11, <1>16, <1>18, <2>1, <2>2, <2>3, <2>5 DEF FilmSound
  <2> QED BY <2>4 DEF done
<1> QED BY <1>19, <1>20

(* A film that fails lists what it listed.                                 *)
LEMMA FailedIsSound ==
    ASSUME NEW film, NEW n, FilmSound(film, n), film.phase = "rendering",
           NEW next, next = [film EXCEPT !.phase = "failed"]
    PROVE  FilmSound(next, n) /\ next.clips = film.clips
<1>1. PICK S : film \in FilmOf(S)
  BY DEF FilmSound
<1>2. /\ next \in FilmOf(S) /\ next.phase = "failed" /\ next.total = film.total
      /\ next.clips = film.clips /\ next.shots = film.shots
  BY <1>1 DEF FilmOf
<1> QED BY <1>2 DEF FilmSound

(* The chain and the memory grow by what one clip leaves: the tracer's     *)
(* trace, and the orchestrator's if that clip can be digested.             *)
LEMMA SealedGrows ==
    ASSUME FilmTyped, SealedAreTheAnswers, answers \in Nat,
           NEW n, n = answers + 1, answers' = n, tracerEvents' = Append(tracerEvents, n),
           \/ filmMemory' = filmMemory \o <<n, n>> /\ untraced' = untraced
           \/ filmMemory' = filmMemory \o <<n>> /\ untraced' = untraced \cup {n}
    PROVE  SealedAreTheAnswers' /\ filmMemory' \in Seq(1..n) /\ untraced' \subseteq 1..n
<1>0. filmMemory \in Seq(1..answers) /\ untraced \subseteq 1..answers
  BY DEF FilmTyped
<1>1. PICK m \in Nat : m = Len(filmMemory) /\ DOMAIN filmMemory = 1..m
  BY <1>0
<1>2. /\ n \in Nat /\ untraced \subseteq 1..answers /\ filmMemory \in Seq(1..n)
      /\ n \in 1..n /\ \A i \in 1..m : filmMemory[i] \in 1..answers
      /\ \A i \in 1..n : i \in 1..answers \/ i = n
  <2>1. \A x \in 1..answers : x \in 1..n
    OBVIOUS
  <2>2. n \in Nat /\ n \in 1..n /\ \A i \in 1..n : i \in 1..answers \/ i = n
    OBVIOUS
  <2>3. filmMemory \in Seq(1..n)
    BY <1>0, <2>1
  <2>4. \A i \in 1..m : filmMemory[i] \in 1..answers
    BY <1>0, <1>1
  <2>5. untraced \subseteq 1..answers
    BY <1>0
  <2> QED BY <2>2, <2>3, <2>4, <2>5
<1>3. tracerEvents' = [c \in 1..n |-> c]
  <2>1. PICK chain \in Seq(Nat) : chain = tracerEvents /\ chain = [c \in 1..answers |-> c]
                                  /\ Len(chain) = answers
    BY DEF SealedAreTheAnswers
  <2>2. Append(chain, n) = [c \in 1..n |-> c]
    BY <1>2, <2>1
  <2> QED BY <2>1, <2>2
<1>4. PICK k \in {1, 2} :
          /\ filmMemory' \in Seq(1..n) /\ Len(filmMemory') = m + k
          /\ \A i \in 1..m : filmMemory'[i] = filmMemory[i]
          /\ \A i \in (m + 1)..(m + k) : filmMemory'[i] = n
          /\ k = 2 => untraced' = untraced
          /\ k = 1 => untraced' = untraced \cup {n}
  <2> DEFINE Grown(k) ==
                  /\ filmMemory' \in Seq(1..n) /\ Len(filmMemory') = m + k
                  /\ \A i \in 1..m : filmMemory'[i] = filmMemory[i]
                  /\ \A i \in (m + 1)..(m + k) : filmMemory'[i] = n
                  /\ k = 2 => untraced' = untraced
                  /\ k = 1 => untraced' = untraced \cup {n}
  <2>1. ASSUME NEW l \in {1, 2}, NEW two \in Seq(1..n), Len(two) = l, \A i \in 1..l : two[i] = n,
               filmMemory' = filmMemory \o two,
               l = 2 => untraced' = untraced, l = 1 => untraced' = untraced \cup {n}
        PROVE  Grown(l)
    <3>1. /\ filmMemory' \in Seq(1..n) /\ Len(filmMemory') = m + l
          /\ \A i \in 1..(m + l) : filmMemory'[i] = IF i <= m THEN filmMemory[i] ELSE two[i - m]
      BY <1>1, <1>2, <2>1, ConcatProperties
    <3>2. \A i \in (m + 1)..(m + l) : i - m \in 1..l /\ ~(i <= m) /\ i \in 1..(m + l)
      BY <1>1
    <3>3. \A i \in 1..m : i <= m /\ i \in 1..(m + l)
      BY <1>1
    <3> QED BY <2>1, <3>1, <3>2, <3>3
  <2> HIDE DEF Grown
  <2>2. ASSUME filmMemory' = filmMemory \o <<n, n>>, untraced' = untraced PROVE Grown(2)
    <3>1. /\ <<n, n>> \in Seq(1..n) /\ Len(<<n, n>>) = 2 /\ \A i \in 1..2 : <<n, n>>[i] = n
      BY <1>2
    <3>2. PICK two \in Seq(1..n) : /\ Len(two) = 2 /\ \A i \in 1..2 : two[i] = n
                                   /\ filmMemory' = filmMemory \o two
      BY <2>2, <3>1
    <3>3. 2 \in {1, 2} /\ (2 = 2 => untraced' = untraced) /\ (2 = 1 => untraced' = untraced \cup {n})
      BY <2>2
    <3> QED BY <2>1, <2>2, <3>2, <3>3, Zenon
  <2>3. ASSUME filmMemory' = filmMemory \o <<n>>, untraced' = untraced \cup {n} PROVE Grown(1)
    <3>1. /\ <<n>> \in Seq(1..n) /\ Len(<<n>>) = 1 /\ \A i \in 1..1 : <<n>>[i] = n
      BY <1>2
    <3>2. PICK two \in Seq(1..n) : /\ Len(two) = 1 /\ \A i \in 1..1 : two[i] = n
                                   /\ filmMemory' = filmMemory \o two
      BY <2>3, <3>1
    <3> QED BY <2>1, <2>3, <3>2
  <2>4. Grown(1) \/ Grown(2)
    BY <2>2, <2>3
  <2> QED BY <2>4 DEF Grown
<1>5. untraced' \subseteq 1..n
  <2>1. untraced' \subseteq untraced \cup {n}
    BY <1>4
  <2> QED BY <1>2, <2>1
<1>6. ASSUME NEW clip \in 1..n PROVE HasItsTraces(clip)'
  <2>1. CASE clip \in 1..answers
    <3>1. PICK i \in 1..m :
              /\ filmMemory[i] = clip
              /\ clip \notin untraced => i + 1 \in 1..m /\ filmMemory[i + 1] = clip
      BY <1>1, <2>1 DEF SealedAreTheAnswers, HasItsTraces
    <3>2. clip \notin untraced' => clip \notin untraced
      BY <1>4
    <3>3. DOMAIN filmMemory' = 1..(m + k) /\ \A j \in 1..m : j \in 1..(m + k)
      BY <1>4
    <3> QED BY <1>4, <3>1, <3>2, <3>3 DEF HasItsTraces
  <2>2. CASE clip = n
    <3>1. DOMAIN filmMemory' = 1..(m + k) /\ m + 1 \in (m + 1)..(m + k) /\ m + 1 \in 1..(m + k)
      BY <1>4
    <3>2. clip \notin untraced' => /\ k = 2 /\ (m + 1) + 1 \in (m + 1)..(m + k)
                                   /\ (m + 1) + 1 \in 1..(m + k)
      BY <1>4, <2>2
    <3> QED BY <1>4, <2>2, <3>1, <3>2 DEF HasItsTraces
  <2> QED BY <1>2, <2>1, <2>2
<1>7. ASSUME NEW i \in 2..(m + k) PROVE filmMemory'[i - 1] <= filmMemory'[i]
  <2>1. CASE i <= m
    <3>1. i \in 2..m /\ i \in 1..m /\ i - 1 \in 1..m
      BY <1>1, <2>1
    <3>2. filmMemory[i - 1] <= filmMemory[i]
      BY <1>1, <3>1 DEF SealedAreTheAnswers
    <3> QED BY <1>4, <3>1, <3>2
  <2>2. CASE ~(i <= m)
    <3>1. i \in (m + 1)..(m + k) /\ i - 1 \in 1..(m + k)
      BY <1>1, <2>2
    <3>2. filmMemory'[i] = n /\ filmMemory'[i - 1] \in 1..n
      BY <1>4, <3>1
    <3> QED BY <1>2, <3>2
  <2> QED BY <2>1, <2>2
<1>8. Len(filmMemory') = 2 * n - Cardinality(untraced')
  <2>1. IsFiniteSet(untraced) /\ Cardinality(untraced) \in Nat
    <3>1. IsFiniteSet(1..answers)
      BY FS_Interval
    <3> QED BY <1>2, <3>1, FS_Subset, FS_CardinalityType
  <2>2. n \notin untraced
    BY <1>2
  <2>3. Cardinality(untraced \cup {n}) = Cardinality(untraced) + 1
    BY <2>1, <2>2, FS_AddElement
  <2>4. m = 2 * answers - Cardinality(untraced)
    BY <1>1 DEF SealedAreTheAnswers
  <2>5. CASE k = 1
    <3>1. Cardinality(untraced') = Cardinality(untraced) + 1 /\ Len(filmMemory') = m + 1
      BY <1>4, <2>3, <2>5
    <3> QED BY <1>1, <2>1, <2>4, <3>1
  <2>6. CASE k = 2
    BY <1>1, <1>4, <2>1, <2>4, <2>6
  <2> QED BY <2>5, <2>6
<1>9. SealedAreTheAnswers'
  BY <1>3, <1>4, <1>6, <1>7, <1>8 DEF SealedAreTheAnswers
<1> QED BY <1>4, <1>5, <1>9

LEMMA FilmStep ==
    ASSUME FilmIInv, [FilmNext]_filmVars
    PROVE  FilmIInv'
<1>1. /\ answers \in Nat /\ answers \in 0..MaxClips /\ MaxClips \in Nat
      /\ FilmTyped /\ SealedAreTheAnswers /\ HalfSealedAreNotListed
      /\ untraced \subseteq 1..answers /\ unetched \subseteq 1..answers
      /\ films = [f \in Films |-> films[f]] /\ \A f \in Films : FilmSound(films[f], answers)
  BY FilmAssumption DEF FilmIInv, FilmTyped
<1>2. ASSUME NEW f \in Films, NEW film, films' = [films EXCEPT ![f] = film]
      PROVE  /\ films' = [g \in Films |-> films'[g]] /\ films'[f] = film
             /\ \A g \in Films \ {f} : films'[g] = films[g]
  BY <1>1, <1>2
<1>3. ASSUME NEW f \in Films, Generate(f) PROVE FilmIInv'
  <2>1. PICK n \in Lengths : films' = [films EXCEPT ![f] = Opened(f, n)]
    BY <1>3 DEF Generate
  <2>2. FilmSound(Opened(f, n), answers)
    BY <1>1, OpenedIsSound
  <2>3. UNCHANGED <<tracerEvents, filmMemory, answers, untraced, unetched>>
    BY <1>3 DEF Generate
  <2>4. \A g \in Films : FilmSound(films'[g], answers)
    BY <1>1, <1>2, <2>1, <2>2
  <2>5. films' = [g \in Films |-> films'[g]]
    BY <1>2, <2>1
  <2>6. HalfSealedAreNotListed'
    <3>1. Opened(f, n).clips = <<>>
      BY DEF Opened, NoFilm
    <3>2. \A g \in Films : films'[g].clips = films[g].clips \/ films'[g].clips = <<>>
      BY <1>2, <2>1, <3>1
    <3> QED BY <1>1, <2>3, <3>2 DEF HalfSealedAreNotListed
  <2> QED BY <1>1, <2>3, <2>4, <2>5, <2>6
          DEF FilmIInv, FilmTyped, SealedAreTheAnswers, HasItsTraces
<1>c. answers + 1 \in Nat /\ answers + 1 \notin 1..answers
      /\ \A i \in 1..answers : i \in 1..(answers + 1)
  BY <1>1
<1>e. Len(Append(tracerEvents, answers + 1)) = answers + 1
  <2>1. tracerEvents \in Seq(Nat) /\ Len(tracerEvents) = answers
    BY <1>1 DEF SealedAreTheAnswers
  <2> QED BY <1>c, <2>1, AppendProperties
<1>4. ASSUME NEW f \in Films, ClipArrives(f) PROVE FilmIInv'
  <2>1. PICK next : next = [films[f] EXCEPT
                        !.clips = Append(@, [clip |-> answers + 1, root |-> answers + 1]),
                        !.shots = Append(@, Shot(@, answers + 1))]
    OBVIOUS
  <2>2. /\ films[f].phase = "rendering" /\ answers < MaxClips /\ answers' = answers + 1
        /\ tracerEvents' = Append(tracerEvents, answers + 1)
        /\ filmMemory' = filmMemory \o <<answers + 1, answers + 1>>
        /\ UNCHANGED <<untraced, unetched>>
        /\ films' = [films EXCEPT ![f] =
               IF Over(next) THEN [next EXCEPT !.phase = "done", !.finalRoot = answers + 1]
               ELSE next]
    BY <1>e, <1>4, <2>1 DEF ClipArrives, FinalRoot
  <2>3. FilmSound(films'[f], answers + 1)
    <3>1. /\ Over(next) => FilmSound([next EXCEPT !.phase = "done", !.finalRoot = answers + 1],
                                     answers + 1)
          /\ ~Over(next) => FilmSound(next, answers + 1)
      BY <1>1, <2>1, <2>2, ClipIsRecorded
    <3>2. films'[f] = IF Over(next)
                      THEN [next EXCEPT !.phase = "done", !.finalRoot = answers + 1] ELSE next
      BY <1>2, <2>2
    <3> QED BY <3>1, <3>2
  <2>4. \A g \in Films \ {f} : FilmSound(films'[g], answers + 1)
    <3>1. \A g \in Films \ {f} : films'[g] = films[g]
      BY <1>2, <2>2
    <3>2. \A g \in Films : FilmSound(films[g], answers + 1)
      BY <1>1, <1>c, FilmStaysSound
    <3> QED BY <3>1, <3>2
  <2>5. films' = [g \in Films |-> films'[g]]
    BY <1>2, <2>2
  <2>6. answers' \in 0..MaxClips
    BY <1>1, <2>2
  <2>7. SealedAreTheAnswers' /\ filmMemory' \in Seq(1..(answers + 1)) /\ untraced' \subseteq 1..(answers + 1)
    BY <1>1, <2>2, SealedGrows
  <2>8. unetched' \subseteq 1..answers'
    BY <1>1, <1>c, <2>2
  <2>9. ASSUME NEW g \in Films, NEW i \in DOMAIN films'[g].clips
        PROVE  films'[g].clips[i].clip \notin untraced \cup unetched
    <3>1. CASE g # f
      BY <1>1, <1>2, <2>2, <3>1 DEF HalfSealedAreNotListed
    <3>2. CASE g = f
      <4>1. PICK film, S : film = films[f] /\ film \in FilmOf(S)
        BY <1>1 DEF FilmSound
      <4>2. PICK clips \in Seq([clip : Nat, root : Nat]) : clips = film.clips
        BY <4>1 DEF FilmOf
      <4>3. PICK clip \in [clip : Nat, root : Nat] :
                clip = [clip |-> answers + 1, root |-> answers + 1] /\ clip.clip = answers + 1
        <5>1. [clip |-> answers + 1, root |-> answers + 1] \in [clip : Nat, root : Nat]
          BY <1>c
        <5> QED BY <5>1
      <4>4. films'[f].clips = Append(clips, clip)
        <5>1. next.clips = Append(clips, clip)
          BY <2>1, <4>1, <4>2, <4>3 DEF FilmOf
        <5>2. [next EXCEPT !.phase = "done", !.finalRoot = answers + 1].clips = next.clips
          BY <2>1, <4>1 DEF FilmOf
        <5> QED BY <1>2, <2>2, <5>1, <5>2
      <4>5. PICK k \in Nat : k = Len(clips)
        BY <4>2
      <4>6. i \in 1..(k + 1)
        BY <3>2, <4>2, <4>3, <4>4, <4>5, AppendProperties
      <4>7. CASE i = k + 1
        <5>1. Append(clips, clip)[i] = clip
          BY <4>2, <4>3, <4>5, <4>7, AppendProperties
        <5> QED BY <1>1, <1>c, <3>2, <4>3, <4>4, <5>1
      <4>8. CASE i \in 1..k
        <5>1. Append(clips, clip)[i] = clips[i] /\ i \in DOMAIN clips
          BY <4>2, <4>3, <4>5, <4>8, AppendProperties
        <5>2. clips[i].clip \notin untraced \cup unetched
          BY <1>1, <4>1, <4>2, <5>1 DEF HalfSealedAreNotListed
        <5> QED BY <3>2, <4>4, <5>1, <5>2
      <4>9. i = k + 1 \/ i \in 1..k
        BY <4>5, <4>6
      <4> QED BY <4>7, <4>8, <4>9
    <3> QED BY <3>1, <3>2
  <2>10. HalfSealedAreNotListed'
    BY <2>2, <2>9 DEF HalfSealedAreNotListed
  <2> QED BY <2>2, <2>3, <2>4, <2>5, <2>6, <2>7, <2>8, <2>10 DEF FilmIInv, FilmTyped
<1>5. ASSUME NEW f \in Films, films[f].phase = "rendering",
             films' = [films EXCEPT ![f].phase = "failed"]
      PROVE  /\ films' = [g \in Films |-> films'[g]]
             /\ \A g \in Films : FilmSound(films'[g], answers) /\ films'[g].clips = films[g].clips
  <2>1. PICK next : next = [films[f] EXCEPT !.phase = "failed"]
    OBVIOUS
  <2>2. films' = [films EXCEPT ![f] = next]
    BY <1>5, <2>1
  <2>3. FilmSound(next, answers) /\ next.clips = films[f].clips
    BY <1>1, <1>5, <2>1, FailedIsSound
  <2>4. films' = [g \in Films |-> films'[g]]
    BY <1>2, <2>2
  <2>5. ASSUME NEW g \in Films PROVE FilmSound(films'[g], answers) /\ films'[g].clips = films[g].clips
    BY <1>1, <1>2, <2>2, <2>3
  <2> QED BY <2>4, <2>5
<1>6. ASSUME NEW f \in Films, ClipBreaks(f) PROVE FilmIInv'
  <2>1. PICK n : n = answers + 1
    OBVIOUS
  <2>2. /\ films[f].phase = "rendering" /\ films' = [films EXCEPT ![f].phase = "failed"]
        /\ answers < MaxClips /\ answers' = n /\ tracerEvents' = Append(tracerEvents, n)
    BY <1>6, <2>1 DEF ClipBreaks
  <2>3. \/ /\ filmMemory' = filmMemory \o <<n>>
           /\ untraced' = untraced \cup {n} /\ UNCHANGED unetched
        \/ /\ filmMemory' = filmMemory \o <<n, n>>
           /\ unetched' = unetched \cup {n} /\ UNCHANGED untraced
    <3>1. Len(tracerEvents) + 1 = n
      BY <1>1, <2>1 DEF SealedAreTheAnswers
    <3> QED BY <1>6, <2>1, <3>1 DEF ClipBreaks
  <2>4. SealedAreTheAnswers' /\ filmMemory' \in Seq(1..n) /\ untraced' \subseteq 1..n
    BY <1>1, <2>1, <2>2, <2>3, SealedGrows
  <2>5. unetched' \subseteq 1..n /\ answers' \in 0..MaxClips
    BY <1>1, <1>c, <2>1, <2>2, <2>3
  <2>6. ASSUME NEW g \in Films, NEW i \in DOMAIN films[g].clips
        PROVE  films[g].clips[i].clip \notin untraced' \cup unetched'
    <3>1. films[g].clips[i].clip \notin untraced \cup unetched
      BY <1>1 DEF HalfSealedAreNotListed
    <3>2. films[g].clips[i].clip \in 1..answers
      <4>1. PICK film, S : film = films[g] /\ film \in FilmOf(S) /\ FilmSound(film, answers)
        BY <1>1 DEF FilmSound
      <4>2. DOMAIN film.clips = 1..Len(film.clips)
        BY <4>1 DEF FilmOf
      <4> QED BY <4>1, <4>2 DEF FilmSound
    <3>3. films[g].clips[i].clip # n
      BY <1>c, <2>1, <3>2
    <3> QED BY <2>3, <3>1, <3>3
  <2>7. HalfSealedAreNotListed'
    BY <1>5, <2>2, <2>6 DEF HalfSealedAreNotListed
  <2>8. \A g \in Films : FilmSound(films'[g], answers')
    BY <1>1, <1>5, <1>c, <2>1, <2>2, FilmStaysSound
  <2>9. films' = [g \in Films |-> films'[g]]
    BY <1>5, <2>2
  <2> QED BY <2>1, <2>2, <2>4, <2>5, <2>7, <2>8, <2>9 DEF FilmIInv, FilmTyped
<1>7. ASSUME NEW f \in Films, ClipFails(f) PROVE FilmIInv'
  <2>1. /\ films[f].phase = "rendering" /\ films' = [films EXCEPT ![f].phase = "failed"]
        /\ UNCHANGED <<tracerEvents, filmMemory, answers, untraced, unetched>>
    BY <1>7 DEF ClipFails
  <2>2. /\ films' = [g \in Films |-> films'[g]]
        /\ \A g \in Films : FilmSound(films'[g], answers) /\ films'[g].clips = films[g].clips
    BY <1>5, <2>1
  <2>3. HalfSealedAreNotListed'
    BY <1>1, <2>1, <2>2 DEF HalfSealedAreNotListed
  <2> QED BY <1>1, <2>1, <2>2, <2>3 DEF FilmIInv, FilmTyped, SealedAreTheAnswers, HasItsTraces
<1>8. CASE UNCHANGED filmVars
  BY <1>1, <1>8 DEF FilmIInv, FilmTyped, filmVars, SealedAreTheAnswers, HasItsTraces,
                    HalfSealedAreNotListed
<1> QED BY <1>3, <1>4, <1>6, <1>7, <1>8 DEF FilmNext

(* For any films, lengths and bounds: however calls of generate() overlap, *)
(* fail and break off, a sidecar verifies and lists the clips of its own   *)
(* film, the final root commits to each of them in order, and a clip that  *)
(* is only half sealed is in no film's list.                               *)
THEOREM FilmsStandAlone == FilmSpec => []FilmInv
<1>1. FilmInit => FilmIInv
  <2> SUFFICES ASSUME FilmInit PROVE FilmIInv
    OBVIOUS
  <2>1. FilmSound(NoFilm, 0)
    <3>1. /\ NoFilm.phase = "idle" /\ NoFilm.total = 0 /\ NoFilm.clips = <<>> /\ NoFilm.shots = <<>>
          /\ NoFilm \in FilmOf({})
      BY DEF NoFilm, FilmOf
    <3>2. Len(NoFilm.clips) = 0 /\ Len(NoFilm.shots) = 0 /\ SidecarVerifies(NoFilm.shots)
      BY <3>1 DEF SidecarVerifies
    <3> HIDE DEF NoFilm
    <3> QED BY <3>1, <3>2 DEF FilmSound
  <2>2. /\ answers = 0 /\ films = [f \in Films |-> NoFilm] /\ tracerEvents = <<>>
        /\ filmMemory = <<>> /\ untraced = {} /\ unetched = {}
    BY DEF FilmInit
  <2>3. SealedAreTheAnswers
    <3>1. Cardinality({}) = 0 /\ Len(<<>>) = 0 /\ 1..0 = {}
      BY FS_EmptySet
    <3>2. tracerEvents = [c \in 1..0 |-> c]
      BY <2>2
    <3> QED BY <2>2, <3>1, <3>2 DEF SealedAreTheAnswers
  <2>4. HalfSealedAreNotListed
    BY <2>2 DEF HalfSealedAreNotListed
  <2>5. FilmTyped
    BY <2>2, FilmAssumption DEF FilmTyped
  <2> QED BY <2>1, <2>2, <2>3, <2>4, <2>5 DEF FilmIInv
<1>2. FilmIInv => FilmInv
  <2> SUFFICES ASSUME FilmIInv PROVE FilmInv
    OBVIOUS
  <2>1. ASSUME NEW f \in Films
        PROVE  /\ films[f].phase \in {"idle", "rendering", "done", "failed"}
               /\ Len(films[f].clips) <= films[f].total
               /\ films[f].phase = "done" <=> /\ films[f].total > 0
                                              /\ Len(films[f].clips) = films[f].total
               /\ SidecarVerifies(films[f].shots)
               /\ [i \in DOMAIN films[f].shots |-> films[f].shots[i].clip]
                     = [i \in DOMAIN films[f].clips |-> films[f].clips[i].clip]
               /\ films[f].phase = "done" =>
                    \A i \in DOMAIN films[f].clips :
                        /\ films[f].clips[i].root <= films[f].finalRoot
                        /\ tracerEvents[films[f].clips[i].root] = films[f].clips[i].clip
                        /\ i > 1 => films[f].clips[i - 1].root < films[f].clips[i].root
    <3>1. PICK film : film = films[f]
      OBVIOUS
    <3>2. FilmSound(film, answers) /\ answers \in Nat /\ tracerEvents = [c \in 1..answers |-> c]
      BY <3>1, FilmAssumption DEF FilmIInv, FilmTyped, SealedAreTheAnswers
    <3>3. PICK S : film \in FilmOf(S)
      BY <3>2 DEF FilmSound
    <3>4. /\ film.phase \in {"idle", "rendering", "done", "failed"} /\ film.total \in Nat
          /\ Len(film.clips) \in Nat /\ DOMAIN film.clips = 1..Len(film.clips)
          /\ DOMAIN film.shots = 1..Len(film.clips)
      BY <3>2, <3>3 DEF FilmOf, FilmSound
    <3>5. film.clips = <<>> => Len(film.clips) = 0
      OBVIOUS
    <3>6. [i \in DOMAIN film.shots |-> film.shots[i].clip]
             = [i \in DOMAIN film.clips |-> film.clips[i].clip]
      BY <3>2, <3>4 DEF FilmSound
    <3>7. /\ Len(film.clips) <= film.total
          /\ film.phase = "done" <=> film.total > 0 /\ Len(film.clips) = film.total
      BY <3>2, <3>4, <3>5 DEF FilmSound
    <3>8. \A i \in DOMAIN film.clips : tracerEvents[film.clips[i].root] = film.clips[i].clip
      BY <3>2, <3>4 DEF FilmSound
    <3> QED BY <3>1, <3>2, <3>4, <3>6, <3>7, <3>8 DEF FilmSound
  <2>2. FilmTypeOK
    BY <2>1 DEF FilmTypeOK, FilmIInv, FilmTyped
  <2>3. SidecarsStandAlone /\ FinalRootCoversFilm
    BY <2>1 DEF SidecarsStandAlone, FinalRootCoversFilm
  <2> QED BY <2>2, <2>3 DEF FilmInv, FilmIInv
<1> QED BY <1>1, <1>2, FilmStep, PTL DEF FilmSpec

-----------------------------------------------------------------------------
(* The proteome. *)

(* What a step under way has, the nodes being of any shape, and a root.    *)
StepOf(S) == [under : BOOLEAN, knob : 0..1, aggregates : Seq(S)]
RootsOf(S) == Seq([step : Nat, state : S])

ProteomeTyped ==
    /\ stepCount \in 0..MaxSteps /\ resets \in 0..MaxResets /\ knob \in 0..1
    /\ lone \in BOOLEAN
    /\ step = [c \in Steppers |-> step[c]]
    /\ \A c \in Steppers : \E S : step[c] \in StepOf(S)
    /\ \A c \in Steppers : Len(step[c].aggregates) <= StateDim
                           /\ step[c].under <=> step[c].aggregates # <<>>
    /\ \E S : merkleRoot \in RootsOf(S)

(* What makes lone steps replay: all that a step reads is what the seed    *)
(* and the number of the steps before it say.                              *)
LoneStep ==
    lone => /\ draws = stepCount /\ knob = 0
            /\ \A c, d \in Under : c = d
            /\ \A c \in Under : /\ step[c].knob = 0
                                /\ \A i \in 1..Len(step[c].aggregates) : step[c].aggregates[i] = state

ProteomeIInv == ProteomeTyped /\ RootCommitsToSteps /\ LoneStepsReplay /\ LoneStep
               /\ (stepCount = 0 => state = Seeded)

(* Only the step of c changes.                                             *)
LEMMA OneStepChanges ==
    ASSUME ProteomeTyped, NEW c \in Steppers, NEW S, NEW s \in StepOf(S),
           step' = [step EXCEPT ![c] = s],
           Len(s.aggregates) <= StateDim, s.under <=> s.aggregates # <<>>
    PROVE  /\ step'[c] = s /\ \A d \in Steppers \ {c} : step'[d] = step[d]
           /\ step' = [d \in Steppers |-> step'[d]]
           /\ \A d \in Steppers : \E R : step'[d] \in StepOf(R)
           /\ \A d \in Steppers : Len(step'[d].aggregates) <= StateDim
                                  /\ step'[d].under <=> step'[d].aggregates # <<>>
<1>1. step = [d \in Steppers |-> step[d]]
  BY DEF ProteomeTyped
<1>2. /\ step'[c] = s /\ \A d \in Steppers \ {c} : step'[d] = step[d]
      /\ step' = [d \in Steppers |-> step'[d]]
  BY <1>1
<1> QED BY <1>2 DEF ProteomeTyped

LEMMA NoStepTyped == /\ NoStep \in StepOf({}) /\ ~NoStep.under /\ NoStep.aggregates = <<>>
                     /\ Len(NoStep.aggregates) <= StateDim
<1>1. <<>> \in Seq({}) /\ Len(<<>>) = 0
  OBVIOUS
<1> QED BY <1>1, ProteomeAssumption DEF NoStep, StepOf

(* What the root tells stays true while nothing is sealed.                 *)
LEMMA NothingSealed ==
    ASSUME ProteomeIInv, UNCHANGED <<state, stepCount, merkleRoot>>, lone' => lone
    PROVE  RootCommitsToSteps' /\ LoneStepsReplay' /\ (stepCount = 0 => state = Seeded)'
<1>1. RootCommitsToSteps'
  BY DEF ProteomeIInv, RootCommitsToSteps
<1>2. \A n : NodesAfter(n)' = NodesAfter(n)
  BY DEF NodesAfter
<1>3. LoneStepsReplay'
  BY <1>2 DEF ProteomeIInv, LoneStepsReplay, ByLoneStep
<1> QED BY <1>1, <1>3 DEF ProteomeIInv

LEMMA ProteomeBegins ==
    ASSUME ProteomeIInv, NEW c \in Steppers, BeginStep(c)
    PROVE  ProteomeIInv'
<1>1. /\ ~step[c].under /\ lone' = (lone /\ Under = {})
      /\ UNCHANGED <<state, draws, stepCount, merkleRoot, knob, resets>>
      /\ ProteomeTyped /\ knob \in 0..1
  BY DEF BeginStep, ProteomeIInv, ProteomeTyped
<1>2. PICK a \in Seq({state}) : a = <<state>> /\ Len(a) = 1 /\ a[1] = state /\ a # <<>>
  <2> DEFINE a == <<state>>
  <2>1. a \in Seq({state}) /\ Len(a) = 1 /\ a[1] = state
    OBVIOUS
  <2>2. a # <<>>
    OBVIOUS
  <2> HIDE DEF a
  <2> QED BY <2>1, <2>2 DEF a
<1>3. PICK s : s = [under |-> TRUE, knob |-> knob, aggregates |-> a]
  OBVIOUS
<1>4. s \in StepOf({state}) /\ s.under /\ s.aggregates = a /\ s.knob = knob
  BY <1>1, <1>2, <1>3 DEF StepOf
<1>5. step' = [step EXCEPT ![c] = s]
  BY <1>2, <1>3 DEF BeginStep
<1>6. Len(s.aggregates) <= StateDim /\ s.under <=> s.aggregates # <<>>
  BY <1>2, <1>4, ProteomeAssumption
<1>7. ProteomeTyped'
  BY <1>1, <1>4, <1>5, <1>6, OneStepChanges DEF ProteomeTyped
<1>8. step'[c] = s /\ \A d \in Steppers \ {c} : step'[d] = step[d]
  <2>1. step = [d \in Steppers |-> step[d]]
    BY <1>1 DEF ProteomeTyped
  <2> QED BY <1>5, <2>1
<1>9. LoneStep'
  <2> SUFFICES ASSUME lone' PROVE LoneStep'
    BY DEF LoneStep
  <2>1. lone /\ Under = {} /\ draws = stepCount /\ knob = 0
    BY <1>1 DEF ProteomeIInv, LoneStep
  <2>2. Under' = {c}
    BY <1>4, <1>8, <2>1 DEF Under
  <2>3. step'[c].knob = 0 /\ \A i \in 1..Len(step'[c].aggregates) : step'[c].aggregates[i] = state
    BY <1>2, <1>4, <1>8, <2>1
  <2> QED BY <1>1, <2>1, <2>2, <2>3 DEF LoneStep
<1>10. RootCommitsToSteps' /\ LoneStepsReplay' /\ (stepCount = 0 => state = Seeded)'
  BY <1>1, NothingSealed
<1> QED BY <1>7, <1>9, <1>10 DEF ProteomeIInv

LEMMA ProteomeReads ==
    ASSUME ProteomeIInv, NEW c \in Steppers, NextDimension(c)
    PROVE  ProteomeIInv'
<1>1. /\ step[c].under /\ Len(step[c].aggregates) < StateDim
      /\ UNCHANGED <<state, draws, stepCount, merkleRoot, knob, resets, lone>>
      /\ ProteomeTyped
  BY DEF NextDimension, ProteomeIInv
<1>2. PICK S, old : old = step[c] /\ old \in StepOf(S)
  BY <1>1 DEF ProteomeTyped
<1>3. PICK a : a = old.aggregates /\ a \in Seq(S)
  BY <1>2 DEF StepOf
<1>4. PICK T : S \subseteq T /\ state \in T
  <2>1. S \subseteq S \cup {state} /\ state \in S \cup {state}
    OBVIOUS
  <2> QED BY <2>1
<1>5. a \in Seq(T)
  BY <1>3, <1>4
<1>6. PICK b \in Seq(T) : /\ b = Append(a, state) /\ Len(b) = Len(a) + 1 /\ b[Len(a) + 1] = state
                          /\ \A i \in 1..Len(a) : b[i] = a[i]
  <2>1. /\ Append(a, state) \in Seq(T) /\ Len(Append(a, state)) = Len(a) + 1
        /\ Append(a, state)[Len(a) + 1] = state
        /\ \A i \in 1..Len(a) : Append(a, state)[i] = a[i]
    BY <1>4, <1>5, AppendProperties
  <2> QED BY <2>1
<1>7. Len(a) \in Nat /\ Len(b) \in Nat /\ b # <<>> /\ Len(b) <= StateDim
  BY <1>1, <1>2, <1>3, <1>5, <1>6, ProteomeAssumption
<1>8. PICK s : s = [old EXCEPT !.aggregates = b]
  OBVIOUS
<1>9. s \in StepOf(T) /\ s.under /\ s.aggregates = b /\ s.knob = old.knob
  BY <1>1, <1>2, <1>8 DEF StepOf
<1>10. step' = [step EXCEPT ![c] = s]
  BY <1>2, <1>3, <1>6, <1>8 DEF NextDimension
<1>11. Len(s.aggregates) <= StateDim /\ s.under <=> s.aggregates # <<>>
  BY <1>7, <1>9
<1>12. ProteomeTyped'
  BY <1>1, <1>9, <1>10, <1>11, OneStepChanges DEF ProteomeTyped
<1>13. step'[c] = s /\ \A d \in Steppers \ {c} : step'[d] = step[d]
  <2>1. step = [d \in Steppers |-> step[d]]
    BY <1>1 DEF ProteomeTyped
  <2> QED BY <1>10, <2>1
<1>14. LoneStep'
  <2> SUFFICES ASSUME lone PROVE LoneStep'
    BY <1>1 DEF LoneStep
  <2>1. /\ draws = stepCount /\ knob = 0 /\ \A d, e \in Under : d = e
        /\ \A d \in Under : /\ step[d].knob = 0
                            /\ \A i \in 1..Len(step[d].aggregates) : step[d].aggregates[i] = state
    BY DEF ProteomeIInv, LoneStep
  <2>2. Under' = Under /\ c \in Under
    BY <1>1, <1>9, <1>13 DEF Under
  <2>3. old.knob = 0 /\ \A i \in 1..Len(a) : a[i] = state
    BY <1>2, <1>3, <2>1, <2>2
  <2>4. \A i \in 1..Len(b) : b[i] = state
    BY <1>6, <1>7, <2>3
  <2>5. \A d \in Under : /\ step'[d].knob = 0
                         /\ \A i \in 1..Len(step'[d].aggregates) : step'[d].aggregates[i] = state
    <3>1. \A d \in Under : d = c
      BY <2>1, <2>2
    <3> QED BY <1>9, <1>13, <2>3, <2>4, <3>1
  <2> QED BY <1>1, <2>1, <2>2, <2>5 DEF LoneStep
<1>15. RootCommitsToSteps' /\ LoneStepsReplay' /\ (stepCount = 0 => state = Seeded)'
  BY <1>1, NothingSealed
<1> QED BY <1>12, <1>14, <1>15 DEF ProteomeIInv

LEMMA ProteomeFails ==
    ASSUME ProteomeIInv, NEW c \in Steppers, StepFails(c)
    PROVE  ProteomeIInv'
<1>1. /\ step' = [step EXCEPT ![c] = NoStep]
      /\ UNCHANGED <<state, draws, stepCount, merkleRoot, knob, resets, lone>>
      /\ ProteomeTyped
  BY DEF StepFails, ProteomeIInv
<1>2. PICK s : s = NoStep
  OBVIOUS
<1>3. /\ s \in StepOf({}) /\ ~s.under /\ s.aggregates = <<>> /\ Len(s.aggregates) <= StateDim
      /\ step' = [step EXCEPT ![c] = s]
  BY <1>1, <1>2, NoStepTyped
<1>4. ProteomeTyped'
  BY <1>1, <1>3, OneStepChanges DEF ProteomeTyped
<1>5. step'[c] = s /\ \A d \in Steppers \ {c} : step'[d] = step[d]
  <2>1. step = [d \in Steppers |-> step[d]]
    BY <1>1 DEF ProteomeTyped
  <2> QED BY <1>3, <2>1
<1>6. Under' \subseteq Under /\ \A d \in Under' : step'[d] = step[d]
  BY <1>3, <1>5 DEF Under
<1>7. LoneStep'
  BY <1>1, <1>6 DEF ProteomeIInv, LoneStep
<1>8. RootCommitsToSteps' /\ LoneStepsReplay' /\ (stepCount = 0 => state = Seeded)'
  BY <1>1, NothingSealed
<1> QED BY <1>4, <1>7, <1>8 DEF ProteomeIInv

LEMMA ProteomeEvolves ==
    ASSUME ProteomeIInv, NEW c \in Steppers, EndStep(c)
    PROVE  ProteomeIInv'
<1>1. /\ step[c].under /\ Len(step[c].aggregates) = StateDim /\ stepCount < MaxSteps
      /\ draws' = draws + 1 /\ stepCount' = stepCount + 1
      /\ step' = [step EXCEPT ![c] = NoStep] /\ UNCHANGED <<knob, resets, lone>>
      /\ ProteomeTyped /\ stepCount \in Nat /\ MaxSteps \in Nat
  BY ProteomeAssumption DEF EndStep, ProteomeIInv, ProteomeTyped
<1>2. PICK new : new = <<state, step[c].aggregates, step[c].knob, draws>>
  OBVIOUS
<1>3. state' = new /\ merkleRoot' = Append(merkleRoot, [step |-> stepCount + 1, state |-> new])
  BY <1>2 DEF EndStep, Evolved, Sealed
<1>4. PICK R : merkleRoot \in RootsOf(R)
  BY <1>1 DEF ProteomeTyped
<1>5. PICK T : R \subseteq T /\ new \in T
  <2>1. R \subseteq R \cup {new} /\ new \in R \cup {new}
    OBVIOUS
  <2> QED BY <2>1
<1>6. PICK e \in [step : Nat, state : T] : e = [step |-> stepCount + 1, state |-> new]
  <2>1. stepCount + 1 \in Nat /\ new \in T
    BY <1>1, <1>5
  <2> QED BY <2>1
<1>7. merkleRoot \in RootsOf(T)
  <2>1. [step : Nat, state : R] \subseteq [step : Nat, state : T]
    BY <1>5
  <2> DEFINE A == [step : Nat, state : R]
             B == [step : Nat, state : T]
  <2> HIDE DEF A, B
  <2>2. merkleRoot \in Seq(A) /\ A \subseteq B
    BY <1>4, <2>1 DEF A, B, RootsOf
  <2>3. merkleRoot \in Seq(B)
    BY <2>2
  <2> QED BY <2>3 DEF B, RootsOf
<1>8. /\ merkleRoot' \in RootsOf(T) /\ Len(merkleRoot') = Len(merkleRoot) + 1
      /\ merkleRoot'[Len(merkleRoot) + 1] = e
      /\ \A i \in 1..Len(merkleRoot) : merkleRoot'[i] = merkleRoot[i]
  <2> DEFINE B == [step : Nat, state : T]
  <2>1. merkleRoot \in Seq(B) /\ e \in B
    BY <1>7 DEF RootsOf
  <2> HIDE DEF B
  <2>2. merkleRoot' = Append(merkleRoot, e)
    BY <1>3, <1>6
  <2>3. /\ merkleRoot' \in Seq(B) /\ Len(merkleRoot') = Len(merkleRoot) + 1
        /\ merkleRoot'[Len(merkleRoot) + 1] = e
        /\ \A i \in 1..Len(merkleRoot) : merkleRoot'[i] = merkleRoot[i]
    BY <2>1, <2>2, AppendProperties
  <2> QED BY <2>3 DEF B, RootsOf
<1>9. PICK n \in Nat : /\ n = stepCount /\ Len(merkleRoot) = n /\ stepCount' = n + 1
                       /\ n + 1 \in 0..MaxSteps
  BY <1>1 DEF ProteomeIInv, RootCommitsToSteps
<1>10. /\ merkleRoot'[n + 1].step = n + 1 /\ merkleRoot'[n + 1].state = new
       /\ \A i \in 1..n : merkleRoot'[i] = merkleRoot[i]
  BY <1>6, <1>8, <1>9
<1>11. \A i \in 1..(n + 1) : i \in 1..n \/ i = n + 1
  OBVIOUS
<1>12. RootCommitsToSteps'
  <2>1. Len(merkleRoot') = n + 1
    BY <1>8, <1>9
  <2>2. \A i \in 1..n : merkleRoot[i].step = i
    BY <1>9 DEF ProteomeIInv, RootCommitsToSteps
  <2>3. \A i \in 1..(n + 1) : merkleRoot'[i].step = i
    BY <1>10, <1>11, <2>2
  <2>4. ASSUME NEW i \in 2..(n + 1) PROVE merkleRoot'[i].state[1] = merkleRoot'[i - 1].state
    <3>1. CASE i \in 2..n
      <4>1. i \in 1..n /\ i - 1 \in 1..n
        BY <3>1
      <4>2. merkleRoot[i].state[1] = merkleRoot[i - 1].state
        BY <1>9, <3>1 DEF ProteomeIInv, RootCommitsToSteps
      <4> QED BY <1>10, <4>1, <4>2
    <3>2. CASE i = n + 1
      <4>1. n > 0 /\ i - 1 = n /\ n \in 1..n
        BY <3>2
      <4>2. merkleRoot[n].state = state
        BY <1>9, <4>1 DEF ProteomeIInv, RootCommitsToSteps
      <4>3. new[1] = state
        BY <1>2
      <4> QED BY <1>10, <3>2, <4>1, <4>2, <4>3
    <3> QED BY <3>1, <3>2
  <2> QED BY <1>3, <1>9, <1>10, <2>1, <2>3, <2>4 DEF RootCommitsToSteps
<1>13. PICK s : s = NoStep
  OBVIOUS
<1>14. /\ s \in StepOf({}) /\ ~s.under /\ s.aggregates = <<>> /\ Len(s.aggregates) <= StateDim
       /\ step' = [step EXCEPT ![c] = s]
  BY <1>1, <1>13, NoStepTyped
<1>15. step'[c] = s /\ \A d \in Steppers \ {c} : step'[d] = step[d]
  <2>1. step = [d \in Steppers |-> step[d]]
    BY <1>1 DEF ProteomeTyped
  <2> QED BY <1>14, <2>1
<1>16. ProteomeTyped'
  BY <1>1, <1>8, <1>9, <1>14, OneStepChanges DEF ProteomeTyped
<1>17. ASSUME lone PROVE /\ Under = {c} /\ draws = n /\ knob = 0
                         /\ new = ByLoneStep(state, n + 1)
  <2>1. c \in Under
    BY <1>1 DEF Under
  <2>2. Under = {c} /\ draws = n /\ knob = 0 /\ step[c].knob = 0
        /\ \A i \in 1..Len(step[c].aggregates) : step[c].aggregates[i] = state
    BY <1>9, <1>17, <2>1 DEF ProteomeIInv, LoneStep
  <2>3. PICK S, a : a = step[c].aggregates /\ a \in Seq(S)
    BY <1>1 DEF ProteomeTyped, StepOf
  <2>4. a = [i \in 1..StateDim |-> a[i]] /\ \A i \in 1..StateDim : a[i] = state
    BY <1>1, <2>2, <2>3
  <2>5. a = [i \in 1..StateDim |-> state]
    BY <2>4
  <2>6. (n + 1) - 1 = n
    OBVIOUS
  <2> QED BY <1>2, <2>2, <2>3, <2>5, <2>6 DEF ByLoneStep
<1>18. LoneStepsReplay'
  <2> SUFFICES ASSUME lone PROVE LoneStepsReplay'
    BY <1>1 DEF LoneStepsReplay
  <2>1. state = NodesAfter(n) /\ \A i \in 1..n : NodesAfter(i) = ByLoneStep(NodesAfter(i - 1), i)
    BY <1>9 DEF ProteomeIInv, LoneStepsReplay
  <2>2. \A i \in 0..n : NodesAfter(i)' = NodesAfter(i)
    <3>1. \A i \in 0..n : i = 0 \/ i \in 1..n
      OBVIOUS
    <3> QED BY <1>10, <3>1 DEF NodesAfter
  <2>3. NodesAfter(n + 1)' = new /\ n + 1 # 0
    BY <1>10 DEF NodesAfter
  <2>4. ASSUME NEW i \in 1..(n + 1) PROVE NodesAfter(i)' = ByLoneStep(NodesAfter(i - 1)', i)
    <3>1. CASE i \in 1..n
      <4>1. i \in 0..n /\ i - 1 \in 0..n
        BY <3>1
      <4> QED BY <2>1, <2>2, <3>1, <4>1
    <3>2. CASE i = n + 1
      <4>1. i - 1 = n /\ n \in 0..n
        BY <3>2
      <4> QED BY <1>17, <2>1, <2>2, <2>3, <3>2, <4>1
    <3> QED BY <1>11, <3>1, <3>2
  <2>5. \A i \in 1..(n + 1) : NodesAfter(i)' = ByLoneStep(NodesAfter(i - 1)', i)
    BY <2>4
  <2> QED BY <1>3, <1>9, <2>3, <2>5 DEF LoneStepsReplay, ByLoneStep
<1>19. LoneStep'
  <2> SUFFICES ASSUME lone PROVE LoneStep'
    BY <1>1 DEF LoneStep
  <2>1. Under' = {}
    BY <1>14, <1>15, <1>17 DEF Under
  <2> QED BY <1>1, <1>9, <1>17, <2>1 DEF LoneStep
<1>20. stepCount' # 0
  BY <1>9
<1> QED BY <1>12, <1>16, <1>18, <1>19, <1>20 DEF ProteomeIInv

LEMMA ProteomeResets ==
    ASSUME ProteomeIInv, Poke \/ Reset
    PROVE  ProteomeIInv'
<1>1. CASE Poke
  <2>1. /\ knob' = 1 /\ lone' = FALSE
        /\ UNCHANGED <<state, draws, stepCount, merkleRoot, step, resets>>
    BY <1>1 DEF Poke
  <2>2. ProteomeTyped'
    <3>1. lone' \in BOOLEAN
      BY <2>1
    <3>2. knob' \in 0..1
      BY <2>1
    <3> QED BY <2>1, <3>1, <3>2 DEF ProteomeIInv, ProteomeTyped
  <2>3. RootCommitsToSteps' /\ (stepCount = 0 => state = Seeded)'
    BY <2>1 DEF ProteomeIInv, RootCommitsToSteps
  <2> QED BY <2>1, <2>2, <2>3 DEF ProteomeIInv, LoneStepsReplay, LoneStep
<1>2. CASE Reset
  <2>1. /\ resets < MaxResets /\ state' = Seeded /\ draws' = 0 /\ stepCount' = 0
        /\ merkleRoot' = <<>> /\ knob' = 0 /\ resets' = resets + 1 /\ lone' = (Under = {})
        /\ step' = step
    BY <1>2 DEF Reset, DrawsAfterReset
  <2>2. merkleRoot' \in RootsOf({}) /\ Len(merkleRoot') = 0
    BY <2>1 DEF RootsOf
  <2>3. stepCount' \in 0..MaxSteps /\ resets' \in 0..MaxResets /\ knob' \in 0..1 /\ lone' \in BOOLEAN
    BY <2>1, ProteomeAssumption DEF ProteomeIInv, ProteomeTyped
  <2>4. ProteomeTyped'
    BY <2>1, <2>2, <2>3 DEF ProteomeIInv, ProteomeTyped
  <2>5. RootCommitsToSteps'
    BY <2>1, <2>2 DEF RootCommitsToSteps
  <2>6. LoneStepsReplay' /\ (stepCount = 0 => state = Seeded)'
    BY <2>1 DEF LoneStepsReplay, NodesAfter
  <2>7. Under' = Under
    BY <2>1 DEF Under
  <2>8. LoneStep'
    BY <2>1, <2>7 DEF LoneStep
  <2> QED BY <2>4, <2>5, <2>6, <2>8 DEF ProteomeIInv
<1> QED BY <1>1, <1>2

(* For any callers, dimensions and bounds: however steps, resets and pokes *)
(* overlap, the root commits to every step since the reset, in order, and  *)
(* steps that ran alone reach the nodes the seed and their number tell     *)
(* (ProteomeOrchestrator.step, reset).                                     *)
THEOREM RootsTellTheSteps == ProteomeSpec => []ProteomeInv
<1>1. ProteomeInit => ProteomeIInv
  <2> SUFFICES ASSUME ProteomeInit PROVE ProteomeIInv
    OBVIOUS
  <2>1. /\ state = Seeded /\ draws = 0 /\ stepCount = 0 /\ merkleRoot = <<>> /\ knob = 0
        /\ step = [c \in Steppers |-> NoStep] /\ resets = 0 /\ lone = TRUE
    BY DEF ProteomeInit
  <2>2. merkleRoot \in RootsOf({}) /\ Len(merkleRoot) = 0
    BY <2>1 DEF RootsOf
  <2>3. \A c \in Steppers : /\ step[c] \in StepOf({}) /\ ~step[c].under /\ step[c].aggregates = <<>>
                            /\ Len(step[c].aggregates) <= StateDim
    BY <2>1, NoStepTyped
  <2>4. Under = {}
    BY <2>3 DEF Under
  <2>5. ProteomeTyped
    <3>1. stepCount \in 0..MaxSteps /\ resets \in 0..MaxResets /\ knob \in 0..1 /\ lone \in BOOLEAN
      BY <2>1, ProteomeAssumption
    <3>2. step = [c \in Steppers |-> step[c]]
      BY <2>1
    <3>3. \A c \in Steppers : step[c].under <=> step[c].aggregates # <<>>
      BY <2>3
    <3> QED BY <2>2, <2>3, <3>1, <3>2, <3>3 DEF ProteomeTyped
  <2>6. RootCommitsToSteps
    BY <2>1, <2>2 DEF RootCommitsToSteps
  <2>7. LoneStepsReplay
    BY <2>1 DEF LoneStepsReplay, NodesAfter
  <2>8. LoneStep
    BY <2>1, <2>4 DEF LoneStep
  <2> QED BY <2>1, <2>5, <2>6, <2>7, <2>8 DEF ProteomeIInv
<1>2. ProteomeIInv /\ [ProteomeNext]_proteomeVars => ProteomeIInv'
  <2> SUFFICES ASSUME ProteomeIInv, [ProteomeNext]_proteomeVars PROVE ProteomeIInv'
    OBVIOUS
  <2>1. CASE UNCHANGED proteomeVars
    <3>1. UNCHANGED <<state, draws, stepCount, merkleRoot, knob, step, resets, lone>>
      BY <2>1 DEF proteomeVars
    <3>2. ProteomeTyped' /\ RootCommitsToSteps'
      BY <3>1 DEF ProteomeIInv, ProteomeTyped, RootCommitsToSteps
    <3>3. LoneStepsReplay' /\ (stepCount = 0 => state = Seeded)'
      BY <3>1, NothingSealed
    <3>4. LoneStep'
      BY <3>1 DEF ProteomeIInv, LoneStep, Under
    <3> QED BY <3>2, <3>3, <3>4 DEF ProteomeIInv
  <2> QED BY <2>1, ProteomeBegins, ProteomeReads, ProteomeFails, ProteomeEvolves, ProteomeResets
          DEF ProteomeNext
<1>3. ProteomeIInv => ProteomeInv
  BY DEF ProteomeIInv, ProteomeInv, ProteomeTyped, ProteomeTypeOK
<1> QED BY <1>1, <1>2, <1>3, PTL DEF ProteomeSpec

-----------------------------------------------------------------------------
(* The drift sentinel. *)

(* What it keeps: events of one of the severities, each naming the hash    *)
(* before its own.                                                         *)
Severity == {"nominal", "watch", "elevated", "critical"}
Drift == [hash : Nat, parentHash : Nat, severity : Severity]

SentinelTyped ==
    /\ judged \in Seq(Severity) /\ events \in Seq(Drift) /\ pendingSignals \in Seq(Drift)
    /\ counters \in [observed : Nat, flagged : Nat, critical : Nat]
    /\ counters.observed = Len(judged) /\ consumed \in 0..Len(judged)

EventsAreNewest ==
    /\ \A i \in 1..Len(events) : /\ events[i].hash = Len(judged) - Len(events) + i
                                 /\ events[i].parentHash = events[i].hash - 1
                                 /\ events[i].severity = judged[events[i].hash]
    /\ Len(events) = IF Len(judged) <= MaxEvents THEN Len(judged) ELSE MaxEvents

FlagsAreCounted == counters.flagged = Cardinality({h \in DOMAIN judged : judged[h] # "nominal"})

SentinelIInv == SentinelTyped /\ SentinelTypeOK /\ EventsAreNewest /\ FlagsAreCounted
                /\ SignalsAwaitConsumer

(* A ring takes an item: the newest stay, in order.                        *)
KeepsNewest(p, r, size, e, n, d) ==
    /\ Len(p) = n + 1 /\ n + 1 <= size /\ n = Len(r) - d /\ (d = 1 <=> Len(r) = size)
    /\ p[n + 1] = e
    /\ \A i \in 1..n : i + d \in 1..Len(r) /\ p[i] = r[i + d]

LEMMA PushedOnto ==
    ASSUME NEW S, NEW r \in Seq(S), NEW size \in Nat \ {0}, Len(r) <= size, NEW e \in S,
           NEW p, p = Pushed(r, size, e)
    PROVE  p \in Seq(S) /\ \E n \in Nat, d \in 0..1 : KeepsNewest(p, r, size, e, n, d)
<1>1. CASE Len(r) < size
  <2>1. /\ Append(r, e) \in Seq(S) /\ Len(Append(r, e)) = Len(r) + 1
        /\ Append(r, e)[Len(r) + 1] = e /\ \A i \in 1..Len(r) : Append(r, e)[i] = r[i]
    BY AppendProperties
  <2>2. p = Append(r, e)
    BY <1>1 DEF Pushed
  <2>3. Len(r) \in Nat /\ Len(r) + 1 <= size /\ Len(r) = Len(r) - 0 /\ Len(r) # size
    BY <1>1
  <2>4. \A i \in 1..Len(r) : i + 0 = i
    OBVIOUS
  <2>5. PICK n \in Nat : n = Len(r)
    BY <2>3
  <2>a. n + 1 <= size
    BY <2>3, <2>5
  <2>b. n = Len(r) - 0
    BY <2>3, <2>5
  <2>c. ~(Len(r) = size)
    BY <2>3
  <2>d. 0 # 1
    OBVIOUS
  <2>z. \A i \in 1..n : i + 0 \in 1..n /\ i + 0 = i
    OBVIOUS
  <2>7. Len(p) = n + 1 /\ p[n + 1] = e /\ \A i \in 1..n : p[i] = r[i]
    BY <2>1, <2>2, <2>5
  <2>8. \A i \in 1..n : i + 0 \in 1..Len(r) /\ p[i] = r[i + 0]
    BY <2>5, <2>z, <2>7
  <2>9. KeepsNewest(p, r, size, e, n, 0)
    BY <2>a, <2>b, <2>c, <2>d, <2>7, <2>8 DEF KeepsNewest
  <2> QED BY <2>1, <2>2, <2>9
<1>2. CASE ~(Len(r) < size)
  <2>1. r # <<>> /\ Len(r) = size /\ Len(r) \in Nat
    BY <1>2
  <2>2. PICK t \in Seq(S) : /\ t = Tail(r) /\ Len(t) = Len(r) - 1
                            /\ \A i \in 1..(Len(r) - 1) : t[i] = r[i + 1]
    <3>1. /\ Tail(r) \in Seq(S) /\ Len(Tail(r)) = Len(r) - 1
          /\ \A i \in 1..Len(Tail(r)) : Tail(r)[i] = r[i + 1]
      BY <2>1, HeadTailProperties
    <3> QED BY <3>1
  <2>3. /\ Append(t, e) \in Seq(S) /\ Len(Append(t, e)) = Len(t) + 1
        /\ Append(t, e)[Len(t) + 1] = e /\ \A i \in 1..Len(t) : Append(t, e)[i] = t[i]
    BY AppendProperties
  <2>4. p = Append(t, e)
    BY <1>2, <2>2 DEF Pushed
  <2>5. PICK n \in Nat : n = Len(r) - 1 /\ n = Len(t)
    BY <2>1, <2>2
  <2>6. n + 1 <= size /\ \A i \in 1..n : i + 1 \in 1..Len(r) /\ i \in 1..Len(t)
    BY <2>1, <2>5
  <2>7. KeepsNewest(p, r, size, e, n, 1)
    BY <2>1, <2>2, <2>3, <2>4, <2>5, <2>6 DEF KeepsNewest
  <2> QED BY <2>3, <2>4, <2>7
<1> QED BY <1>1, <1>2

LEMMA TheLesser ==
    ASSUME NEW a \in Nat, NEW b \in Nat
    PROVE  Min({a, b}) = IF a <= b THEN a ELSE b
<1>1. PICK c \in {a, b} : \A y \in {a, b} : c <= y
  OBVIOUS
<1>2. Min({a, b}) \in {a, b} /\ \A y \in {a, b} : Min({a, b}) <= y
  BY <1>1 DEF Min
<1> QED BY <1>2

(* A severity that is recorded adds its number to the flagged ones, unless *)
(* it is nominal.                                                          *)
LEMMA FlagAdded ==
    ASSUME NEW s \in Seq(Severity), NEW severity \in Severity, NEW t, t = Append(s, severity)
    PROVE  Cardinality({h \in DOMAIN t : t[h] # "nominal"})
             = Cardinality({h \in DOMAIN s : s[h] # "nominal"})
               + (IF severity # "nominal" THEN 1 ELSE 0)
<1> DEFINE n == Len(s)
           F == {h \in DOMAIN s : s[h] # "nominal"}
           G == {h \in DOMAIN t : t[h] # "nominal"}
<1>1. /\ n \in Nat /\ DOMAIN s = 1..n /\ DOMAIN t = 1..(n + 1)
      /\ t[n + 1] = severity /\ \A h \in 1..n : t[h] = s[h]
  BY AppendProperties
<1>2. IsFiniteSet(F) /\ Cardinality(F) \in Nat /\ n + 1 \notin F
  <2>1. F \subseteq 1..n /\ IsFiniteSet(1..n) /\ n + 1 \notin 1..n
    BY <1>1, FS_Interval
  <2> QED BY <2>1, FS_Subset, FS_CardinalityType
<1>3. \A h \in 1..(n + 1) : h \in 1..n \/ h = n + 1
  BY <1>1
<1>4. CASE severity # "nominal"
  <2>1. G = F \cup {n + 1}
    BY <1>1, <1>3, <1>4
  <2>2. Cardinality(G) = Cardinality(F) + 1
    BY <1>2, <2>1, FS_AddElement
  <2> QED BY <1>4, <2>2
<1>5. CASE severity = "nominal"
  <2>1. G = F
    BY <1>1, <1>3, <1>5
  <2>2. PICK c \in Nat : c = Cardinality(F)
    BY <1>2
  <2>3. c = c + (IF severity # "nominal" THEN 1 ELSE 0)
    BY <1>5
  <2> QED BY <2>1, <2>2, <2>3
<1> QED BY <1>4, <1>5

LEMMA SentinelObserves ==
    ASSUME SentinelIInv, Observe
    PROVE  SentinelIInv'
<1> DEFINE n == Len(judged)
<1>t. /\ judged \in Seq(Severity) /\ events \in Seq(Drift) /\ pendingSignals \in Seq(Drift)
      /\ n \in Nat /\ counters.observed = n /\ chainHead = n /\ consumed \in 0..n
      /\ counters.flagged \in Nat /\ counters.critical \in Nat
      /\ counters.critical <= counters.flagged /\ counters.flagged <= n
      /\ Len(events) <= MaxEvents /\ Len(pendingSignals) <= MaxPendingSignals
      /\ MaxEvents \in Nat \ {0} /\ MaxPendingSignals \in Nat \ {0}
  BY SentinelAssumption DEF SentinelIInv, SentinelTyped, SentinelTypeOK
<1> DEFINE Seen(sv) ==
         LET e == [hash |-> counters.observed + 1, parentHash |-> chainHead, severity |-> sv]
         IN  /\ events' = Pushed(events, MaxEvents, e) /\ chainHead' = e.hash
             /\ counters' = [observed |-> counters.observed + 1,
                             flagged |-> counters.flagged + (IF sv # "nominal" THEN 1 ELSE 0),
                             critical |-> counters.critical + (IF sv = "critical" THEN 1 ELSE 0)]
             /\ pendingSignals' = IF Signals(sv)
                                  THEN Pushed(pendingSignals, MaxPendingSignals, e)
                                  ELSE pendingSignals
             /\ judged' = Append(judged, sv) /\ consumed' = consumed
<1>1. PICK severity \in Severity : Seen(severity)
  <2>1. PICK band \in {"low", "middle", "high"} : \E sv \in Classified(band) : Seen(sv)
    BY DEF Observe
  <2>2. PICK sv \in Classified(band) : Seen(sv)
    BY <2>1
  <2>3. sv \in Severity
    BY DEF Classified, Severity
  <2> QED BY <2>2, <2>3
<1>2. PICK e \in Drift : /\ e = [hash |-> n + 1, parentHash |-> n, severity |-> severity]
                         /\ e.hash = n + 1 /\ e.parentHash = n /\ e.severity = severity
  <2> DEFINE e == [hash |-> n + 1, parentHash |-> n, severity |-> severity]
  <2>1. e \in Drift /\ e.hash = n + 1 /\ e.parentHash = n /\ e.severity = severity
    BY <1>t DEF Drift
  <2> HIDE DEF e
  <2> QED BY <2>1 DEF e
<1>3. /\ events' = Pushed(events, MaxEvents, e) /\ judged' = Append(judged, severity)
      /\ pendingSignals' = IF Signals(severity) THEN Pushed(pendingSignals, MaxPendingSignals, e)
                                                ELSE pendingSignals
  BY <1>1, <1>2, <1>t
<1>4. /\ judged' \in Seq(Severity) /\ Len(judged') = n + 1 /\ judged'[n + 1] = severity
      /\ \A h \in 1..n : judged'[h] = judged[h]
  BY <1>t, <1>3, AppendProperties
<1> HIDE DEF n
<1>5. /\ counters' \in [observed : Nat, flagged : Nat, critical : Nat]
      /\ counters'.observed = n + 1 /\ chainHead' = n + 1 /\ consumed' = consumed
      /\ counters'.flagged = counters.flagged + (IF severity # "nominal" THEN 1 ELSE 0)
      /\ counters'.critical = counters.critical + (IF severity = "critical" THEN 1 ELSE 0)
  <2>1. PICK f \in Nat : f = counters.flagged + (IF severity # "nominal" THEN 1 ELSE 0)
    BY <1>t
  <2>2. PICK c \in Nat : c = counters.critical + (IF severity = "critical" THEN 1 ELSE 0)
    BY <1>t
  <2>3. counters' = [observed |-> n + 1, flagged |-> f, critical |-> c]
    BY <1>1, <1>t, <2>1, <2>2
  <2>4. chainHead' = n + 1 /\ consumed' = consumed
    BY <1>1, <1>t
  <2> HIDE DEF Seen
  <2> QED BY <2>1, <2>2, <2>3, <2>4, <1>t
<1>6. counters'.critical <= counters'.flagged /\ counters'.flagged <= n + 1
  <2>1. CASE severity = "critical"
    BY SMTT(30), <1>t, <1>5, <2>1
  <2>2. CASE severity = "nominal"
    BY <1>t, <1>5, <2>2
  <2>3. CASE severity # "critical" /\ severity # "nominal"
    BY <1>t, <1>5, <2>3
  <2> QED BY <2>1, <2>2, <2>3
<1>7. FlagsAreCounted'
  <2>1. Cardinality({h \in DOMAIN judged' : judged'[h] # "nominal"})
          = Cardinality({h \in DOMAIN judged : judged[h] # "nominal"})
            + (IF severity # "nominal" THEN 1 ELSE 0)
    <3>0. PICK s \in Seq(Severity) : s = judged
      BY <1>t
    <3>1. PICK t : t = judged' /\ t = Append(s, severity)
      BY <1>3, <3>0
    <3>2. Cardinality({h \in DOMAIN t : t[h] # "nominal"})
            = Cardinality({h \in DOMAIN s : s[h] # "nominal"})
              + (IF severity # "nominal" THEN 1 ELSE 0)
      BY <3>1, FlagAdded
    <3> QED BY <3>0, <3>1, <3>2
  <2> QED BY <1>5, <2>1 DEF SentinelIInv, FlagsAreCounted
<1>8. /\ events' \in Seq(Drift) /\ Len(events') <= MaxEvents
      /\ EventsAreNewest'
  <2>0. PICK ev : ev = events'
    OBVIOUS
  <2>a. ev \in Seq(Drift) /\ \E k \in Nat, d \in 0..1 : KeepsNewest(ev, events, MaxEvents, e, k, d)
    BY <1>t, <1>3, <2>0, PushedOnto
  <2>b. PICK k \in Nat, d \in 0..1 : KeepsNewest(ev, events, MaxEvents, e, k, d)
    BY <2>a
  <2>1. /\ events' \in Seq(Drift) /\ Len(events') = k + 1
        /\ k + 1 <= MaxEvents /\ k = Len(events) - d /\ (d = 1 <=> Len(events) = MaxEvents)
        /\ events'[k + 1] = e
        /\ \A i \in 1..k : i + d \in 1..Len(events) /\ events'[i] = events[i + d]
    BY <2>0, <2>a, <2>b DEF KeepsNewest
  <2>2. /\ \A i \in 1..Len(events) : /\ events[i].hash = n - Len(events) + i
                                     /\ events[i].parentHash = events[i].hash - 1
                                     /\ events[i].severity = judged[events[i].hash]
        /\ Len(events) = IF n <= MaxEvents THEN n ELSE MaxEvents
    BY DEF SentinelIInv, EventsAreNewest, n
  <2>3. Len(events) \in Nat /\ Len(events) <= n /\ k \in Int
    BY <1>t, <2>2
  <2>4. ASSUME NEW i \in 1..(k + 1)
        PROVE  /\ events'[i].hash = (n + 1) - (k + 1) + i
               /\ events'[i].parentHash = events'[i].hash - 1
               /\ events'[i].severity = judged'[events'[i].hash]
    <3>1. CASE i = k + 1
      <4>1. events'[i] = e /\ (n + 1) - (k + 1) + i = n + 1 /\ (n + 1) - 1 = n
        BY <1>t, <2>1, <3>1
      <4> QED BY <1>2, <1>4, <4>1
    <3>2. CASE i \in 1..k
      <4>1. events'[i] = events[i + d] /\ i + d \in 1..Len(events)
        BY <2>1, <3>2
      <4>2. /\ events[i + d].hash = n - Len(events) + (i + d)
            /\ events[i + d].parentHash = events[i + d].hash - 1
            /\ events[i + d].severity = judged[events[i + d].hash]
        BY <2>2, <4>1
      <4>3. n - Len(events) + (i + d) = (n + 1) - (k + 1) + i
        BY <1>t, <2>1, <2>3
      <4>4. n - Len(events) + (i + d) \in 1..n
        <5>1. PICK l \in Nat : l = Len(events)
          BY <2>3
        <5>0. PICK m \in 1..l : m = i + d
          BY <4>1, <5>1
        <5>2. l <= n /\ n \in Nat
          BY <1>t, <2>3, <5>1
        <5>3. n - l + m \in 1..n
          BY <5>2
        <5> QED BY <5>0, <5>1, <5>3
      <4> QED BY <1>4, <4>1, <4>2, <4>3, <4>4
    <3> QED BY <3>1, <3>2
  <2>5. k + 1 = IF n + 1 <= MaxEvents THEN n + 1 ELSE MaxEvents
    <3>1. CASE n < MaxEvents
      BY <1>t, <2>1, <2>2, <3>1
    <3>2. CASE ~(n < MaxEvents)
      BY <1>t, <2>1, <2>2, <3>2
    <3> QED BY <3>1, <3>2
  <2> QED BY <1>4, <2>1, <2>4, <2>5 DEF EventsAreNewest
<1>9. /\ \A i \in 1..Len(pendingSignals) :
            /\ pendingSignals[i].hash \in (consumed + 1)..n /\ Signals(judged[pendingSignals[i].hash])
            /\ i > 1 => pendingSignals[i - 1].hash < pendingSignals[i].hash
      /\ \A h \in (consumed + 1)..n : Signals(judged[h]) =>
            \/ \E i \in 1..Len(pendingSignals) : pendingSignals[i].hash = h
            \/ /\ Len(pendingSignals) = MaxPendingSignals
               /\ h < pendingSignals[1].hash
  <2>1. DOMAIN pendingSignals = 1..Len(pendingSignals) /\ n = Len(judged)
    BY <1>t DEF n
  <2> QED BY <2>1 DEF SentinelIInv, SignalsAwaitConsumer
<1>10. \A h \in (consumed + 1)..n : h \in 1..n /\ h \in (consumed + 1)..(n + 1) /\ judged'[h] = judged[h]
  BY <1>4, <1>t
<1>11. ASSUME ~Signals(severity)
       PROVE  /\ pendingSignals' \in Seq(Drift) /\ Len(pendingSignals') <= MaxPendingSignals
              /\ SignalsAwaitConsumer'
  <2>1. pendingSignals' = pendingSignals
    BY <1>3, <1>11
  <2>2. \A h \in (consumed + 1)..(n + 1) : Signals(judged'[h]) => h \in (consumed + 1)..n
    BY <1>4, <1>11, <1>t
  <2>3. DOMAIN pendingSignals = 1..Len(pendingSignals)
    BY <1>t
  <2> QED BY <1>4, <1>5, <1>9, <1>10, <1>t, <2>1, <2>2, <2>3 DEF SignalsAwaitConsumer
<1>12. ASSUME Signals(severity)
       PROVE  /\ pendingSignals' \in Seq(Drift) /\ Len(pendingSignals') <= MaxPendingSignals
              /\ SignalsAwaitConsumer'
  <2>0. PICK new : new = pendingSignals'
    OBVIOUS
  <2>a. /\ new \in Seq(Drift)
        /\ \E k \in Nat, d \in 0..1 : KeepsNewest(new, pendingSignals, MaxPendingSignals, e, k, d)
    BY <1>t, <1>3, <1>12, <2>0, PushedOnto
  <2>b. PICK k \in Nat, d \in 0..1 : KeepsNewest(new, pendingSignals, MaxPendingSignals, e, k, d)
    BY <2>a
  <2>1. /\ pendingSignals' \in Seq(Drift) /\ Len(pendingSignals') = k + 1
        /\ k + 1 <= MaxPendingSignals /\ k = Len(pendingSignals) - d
        /\ (d = 1 <=> Len(pendingSignals) = MaxPendingSignals)
        /\ pendingSignals'[k + 1] = e
        /\ \A i \in 1..k : i + d \in 1..Len(pendingSignals) /\ pendingSignals'[i] = pendingSignals[i + d]
    BY <2>0, <2>a, <2>b DEF KeepsNewest
  <2>2. PICK p : p = pendingSignals
    OBVIOUS
  <2>3. PICK q : q = pendingSignals'
    OBVIOUS
  <2>4. \A i \in 1..(k + 1) : i \in 1..k \/ i = k + 1
    OBVIOUS
  <2>5. n + 1 \in (consumed + 1)..(n + 1) /\ Signals(judged'[n + 1])
    BY <1>4, <1>12, <1>t
  <2>6. \A i \in 1..(k + 1) : q[i].hash \in (consumed + 1)..(n + 1) /\ Signals(judged'[q[i].hash])
    <3>1. ASSUME NEW i \in 1..k
          PROVE  q[i].hash \in (consumed + 1)..(n + 1) /\ Signals(judged'[q[i].hash])
      <4>1. q[i] = p[i + d] /\ p[i + d].hash \in (consumed + 1)..n /\ Signals(judged[p[i + d].hash])
        BY <1>9, <2>1, <2>2, <2>3
      <4> QED BY <1>10, <4>1
    <3>2. q[k + 1].hash = n + 1
      BY <1>2, <2>1, <2>3
    <3> QED BY <2>4, <2>5, <3>1, <3>2
  <2>7. ASSUME NEW i \in 1..(k + 1), i > 1 PROVE q[i - 1].hash < q[i].hash
    <3>1. i - 1 \in 1..k /\ q[i - 1] = p[(i - 1) + d] /\ (i - 1) + d \in 1..Len(p)
      <4>1. i - 1 \in 1..k
        BY <2>7
      <4> QED BY <2>1, <2>2, <2>3, <4>1
    <3>2. CASE i \in 1..k
      <4>1. q[i] = p[i + d] /\ i + d \in 1..Len(p) /\ i + d > 1 /\ (i + d) - 1 = (i - 1) + d
        BY <2>1, <2>2, <2>3, <2>7, <3>2
      <4>2. p[(i + d) - 1].hash < p[i + d].hash
        BY <1>9, <2>2, <4>1
      <4> QED BY <3>1, <4>1, <4>2
    <3>3. CASE i = k + 1
      <4>1. p[(i - 1) + d].hash \in (consumed + 1)..n
        BY <1>9, <2>2, <3>1
      <4>2. q[i].hash = n + 1
        BY <1>2, <2>1, <2>3, <3>3
      <4>3. PICK x \in (consumed + 1)..n : x = p[(i - 1) + d].hash
        BY <4>1
      <4>4. x < n + 1
        BY <1>t
      <4> QED BY <3>1, <4>2, <4>3, <4>4
    <3> QED BY <2>4, <3>2, <3>3
  <2>8. ASSUME NEW h \in (consumed + 1)..(n + 1), Signals(judged'[h])
        PROVE  \/ \E i \in 1..(k + 1) : q[i].hash = h
               \/ k + 1 = MaxPendingSignals /\ h < q[1].hash
    <3>1. CASE h = n + 1
      <4>1. q[k + 1].hash = h /\ k + 1 \in 1..(k + 1)
        BY <1>2, <2>1, <2>3, <3>1
      <4> QED BY <4>1
    <3>2. CASE h # n + 1
      <4>1. h \in (consumed + 1)..n /\ Signals(judged[h])
        BY <1>10, <1>t, <2>8, <3>2
      <4>2. CASE \E i \in 1..Len(p) : p[i].hash = h
        <5>1. PICK i \in 1..Len(p) : p[i].hash = h
          BY <4>2
        <5>2. CASE i > d
          <6>1. i - d \in 1..k /\ (i - d) + d = i
            BY <2>1, <2>2, <5>2
          <6>2. q[i - d] = p[i] /\ i - d \in 1..(k + 1)
            BY <2>1, <2>2, <2>3, <6>1
          <6> QED BY <5>1, <6>2
        <5>3. CASE ~(i > d)
          <6>1. i = 1 /\ d = 1 /\ k + 1 = MaxPendingSignals
            BY <1>t, <2>1, <2>2, <5>3
          <6>2. CASE k = 0
            <7>1. q[1].hash = n + 1 /\ h <= n
              BY SMTT(30), <1>2, <1>t, <2>1, <2>3, <4>1, <6>2
            <7> QED BY <1>t, <4>1, <6>1, <7>1
          <6>3. CASE k # 0
            <7>1. 1 \in 1..k /\ 1 + d = 2 /\ 2 \in 1..Len(p) /\ 2 - 1 = 1 /\ 2 > 1
              BY <2>1, <2>2, <6>1, <6>3
            <7>2. q[1] = p[2]
              BY <2>1, <2>2, <2>3, <7>1
            <7>3. p[2 - 1].hash < p[2].hash
              BY <1>9, <2>2, <7>1
            <7> QED BY <5>1, <6>1, <7>1, <7>2, <7>3
          <6> QED BY <6>2, <6>3
        <5> QED BY <5>2, <5>3
      <4>3. CASE Len(p) = MaxPendingSignals /\ h < p[1].hash
        <5>1. d = 1 /\ k + 1 = MaxPendingSignals
          BY <1>t, <2>1, <2>2, <4>3
        <5>2. CASE k = 0
          <6>1. q[1].hash = n + 1 /\ h <= n
            BY <1>2, <1>t, <2>1, <2>3, <4>1, <5>2
          <6> QED BY <1>t, <4>1, <5>1, <6>1
        <5>3. CASE k # 0
          <6>1. 1 \in 1..k /\ 1 + d = 2 /\ 2 \in 1..Len(p) /\ 2 - 1 = 1 /\ 2 > 1 /\ 1 \in 1..Len(p)
            BY <2>1, <2>2, <5>1, <5>3
          <6>2. q[1] = p[2]
            BY <2>1, <2>2, <2>3, <6>1
          <6>3. p[2 - 1].hash < p[2].hash
            BY <1>9, <2>2, <6>1
          <6>4. p[1].hash \in Nat /\ p[2].hash \in Nat
            BY <1>9, <1>t, <2>2, <6>1
          <6>5. h \in Nat /\ p[1].hash < p[2].hash
            BY <1>t, <4>1, <6>1, <6>3
          <6> QED BY <4>3, <5>1, <6>2, <6>4, <6>5
        <5> QED BY <5>2, <5>3
      <4> QED BY <1>9, <2>2, <4>1, <4>2, <4>3
    <3> QED BY <3>1, <3>2
  <2>9. DOMAIN q = 1..(k + 1) /\ Len(q) = k + 1
    BY <2>1, <2>3
  <2>10. SignalsAwaitConsumer'
    <3>1. /\ \A i \in DOMAIN q : /\ q[i].hash \in {h \in (consumed + 1)..(n + 1) : Signals(judged'[h])}
                                 /\ i > 1 => q[i - 1].hash < q[i].hash
          /\ \A h \in {h \in (consumed + 1)..(n + 1) : Signals(judged'[h])} :
                \/ \E i \in DOMAIN q : q[i].hash = h
                \/ Len(q) = MaxPendingSignals /\ h < q[1].hash
      BY <2>6, <2>7, <2>8, <2>9
    <3> QED BY <1>4, <1>5, <2>3, <3>1 DEF SignalsAwaitConsumer
  <2> QED BY <1>t, <2>1, <2>10
<1>13. SentinelTyped'
  BY <1>4, <1>5, <1>8, <1>11, <1>12, <1>t DEF SentinelTyped
<1>14. SentinelTypeOK'
  BY <1>5, <1>6, <1>8, <1>11, <1>12 DEF SentinelTypeOK
<1> QED BY <1>7, <1>8, <1>11, <1>12, <1>13, <1>14 DEF SentinelIInv

LEMMA SentinelDrained ==
    ASSUME SentinelIInv, Consume
    PROVE  SentinelIInv'
<1>1. /\ pendingSignals' = <<>> /\ consumed' = counters.observed
      /\ UNCHANGED <<events, counters, chainHead, judged>>
  BY DEF Consume
<1>2. consumed' = Len(judged) /\ Len(judged) \in Nat /\ Len(judged') = Len(judged)
  BY <1>1 DEF SentinelIInv, SentinelTyped
<1>3. pendingSignals' \in Seq(Drift) /\ Len(pendingSignals') = 0 /\ DOMAIN pendingSignals' = {}
  BY <1>1
<1>4. SentinelTyped' /\ SentinelTypeOK'
  <2>1. consumed' \in 0..Len(judged')
    BY <1>2
  <2>2. SentinelTyped'
    BY <1>1, <1>3, <2>1 DEF SentinelIInv, SentinelTyped
  <2>3. SentinelTypeOK'
    BY <1>1, <1>3, SentinelAssumption DEF SentinelIInv, SentinelTypeOK
  <2> QED BY <2>2, <2>3
<1>5. EventsAreNewest' /\ FlagsAreCounted'
  BY <1>1 DEF SentinelIInv, EventsAreNewest, FlagsAreCounted
<1>6. SignalsAwaitConsumer'
  <2>1. (consumed' + 1)..Len(judged') = {}
    BY <1>2
  <2> QED BY <1>3, <2>1 DEF SignalsAwaitConsumer
<1> QED BY <1>4, <1>5, <1>6 DEF SentinelIInv

(* What the invariant says: the flagged events can be rewound to, and the  *)
(* chain verifies until its oldest event is gone.                          *)
LEMMA SentinelMeans == SentinelIInv => SentinelInv
<1> SUFFICES ASSUME SentinelIInv PROVE SentinelInv
  OBVIOUS
<1>1. /\ events \in Seq(Drift) /\ DOMAIN events = 1..Len(events) /\ Len(events) \in Nat
      /\ Len(judged) \in Nat /\ MaxEvents \in Nat \ {0}
      /\ \A i \in 1..Len(events) : /\ events[i].hash = Len(judged) - Len(events) + i
                                   /\ events[i].parentHash = events[i].hash - 1
                                   /\ events[i].severity = judged[events[i].hash]
      /\ Len(events) = IF Len(judged) <= MaxEvents THEN Len(judged) ELSE MaxEvents
  <2>1. /\ events \in Seq(Drift) /\ DOMAIN events = 1..Len(events) /\ Len(events) \in Nat
        /\ Len(judged) \in Nat
    BY DEF SentinelIInv, SentinelTyped
  <2>2. EventsAreNewest /\ MaxEvents \in Nat \ {0}
    BY SentinelAssumption DEF SentinelIInv
  <2> QED BY <2>1, <2>2 DEF EventsAreNewest
<1>2. Min({Len(judged), MaxEvents}) = IF Len(judged) <= MaxEvents THEN Len(judged) ELSE MaxEvents
  BY <1>1, TheLesser
<1>3. RewindFindsFlagged
  <2>1. Len(events) = Min({Len(judged), MaxEvents})
    BY <1>1, <1>2
  <2>2. \A i \in DOMAIN events : /\ events[i].hash = Len(judged) - Len(events) + i
                                 /\ events[i].severity = judged[events[i].hash]
    BY <1>1
  <2> QED BY <2>1, <2>2 DEF SentinelIInv, FlagsAreCounted, RewindFindsFlagged
<1>4. VerifiesUntilWrapped
  <2>1. ASSUME Len(judged) <= MaxEvents, NEW i \in 1..Len(events)
        PROVE  events[i].parentHash = IF i = 1 THEN 0 ELSE events[i - 1].hash
    <3>1. Len(events) = Len(judged)
      BY <1>1, <2>1
    <3>0. PICK m \in Nat : m = Len(judged)
      BY <1>1
    <3>a. \A j \in 1..Len(events) : m - m + j = j
      BY <1>1
    <3>b. \A j \in 1..Len(events) : events[j].hash = m - m + j /\ events[j].parentHash = events[j].hash - 1
      BY <1>1, <3>0, <3>1
    <3>2. events[i].hash = i /\ events[i].parentHash = i - 1
      BY <3>a, <3>b
    <3>3. i # 1 => i - 1 \in 1..Len(events)
      BY <1>1
    <3>4. i # 1 => events[i - 1].hash = i - 1
      BY <3>3, <3>a, <3>b
    <3> QED BY <3>2, <3>4
  <2>2. ASSUME ~(Len(judged) <= MaxEvents) PROVE ~ChainValid
    <3>1. Len(events) = MaxEvents /\ 1 \in 1..Len(events) /\ Len(judged) > Len(events)
      BY <1>1, <2>2
    <3>2. events[1].hash = Len(judged) - Len(events) + 1
      BY <1>1, <3>1
    <3>3. events[1].parentHash = Len(judged) - Len(events)
      <4>1. events[1].parentHash = events[1].hash - 1
        BY <1>1, <3>1
      <4> QED BY <1>1, <3>2, <4>1
    <3>4. events[1].parentHash # 0
      BY <1>1, <3>1, <3>3
    <3> QED BY <1>1, <3>1, <3>4 DEF ChainValid
  <2> QED BY <1>1, <2>1, <2>2 DEF VerifiesUntilWrapped, ChainValid
<1> QED BY <1>3, <1>4 DEF SentinelIInv, SentinelInv

(* For rings of any size and any floor: signals wait for their consumer in *)
(* order, only the oldest being lost when there are too many; every flagged*)
(* event still in the ring is where a rewind looks for it, all are counted,*)
(* and the chain verifies until the ring wraps (DriftSentinelKernel).      *)
THEOREM SignalsWaitAndEventsRewind == SentinelSpec => []SentinelInv
<1>1. SentinelInit => SentinelIInv
  <2> SUFFICES ASSUME SentinelInit PROVE SentinelIInv
    OBVIOUS
  <2>1. /\ events = <<>> /\ pendingSignals = <<>> /\ chainHead = 0 /\ consumed = 0 /\ judged = <<>>
        /\ counters = [observed |-> 0, flagged |-> 0, critical |-> 0]
    BY DEF SentinelInit
  <2>2. /\ <<>> \in Seq(Severity) /\ <<>> \in Seq(Drift) /\ Len(<<>>) = 0 /\ DOMAIN <<>> = {}
    OBVIOUS
  <2>3. /\ counters \in [observed : Nat, flagged : Nat, critical : Nat]
        /\ counters.observed = 0 /\ counters.flagged = 0 /\ counters.critical = 0
    BY <2>1
  <2>4. SentinelTyped
    BY <2>1, <2>2, <2>3 DEF SentinelTyped
  <2>5. SentinelTypeOK
    BY <2>1, <2>2, <2>3, SentinelAssumption DEF SentinelTypeOK
  <2>6. EventsAreNewest
    BY <2>1, <2>2, SentinelAssumption DEF EventsAreNewest
  <2>7. {h \in DOMAIN judged : judged[h] # "nominal"} = {}
    BY <2>1, <2>2
  <2>8. FlagsAreCounted
    BY <2>3, <2>7, FS_EmptySet DEF FlagsAreCounted
  <2>9. SignalsAwaitConsumer
    BY <2>1, <2>2 DEF SignalsAwaitConsumer
  <2> QED BY <2>4, <2>5, <2>6, <2>8, <2>9 DEF SentinelIInv
<1>2. SentinelIInv /\ UNCHANGED sentinelVars => SentinelIInv'
  BY DEF sentinelVars, SentinelIInv, SentinelTyped, SentinelTypeOK, EventsAreNewest, FlagsAreCounted,
         SignalsAwaitConsumer
<1>3. SentinelIInv /\ [SentinelNext]_sentinelVars => SentinelIInv'
  BY <1>2, SentinelObserves, SentinelDrained DEF SentinelNext
<1> QED BY <1>1, <1>3, SentinelMeans, PTL DEF SentinelSpec

-----------------------------------------------------------------------------
(***************************************************************************)
(* The hardening stages (HardeningStage).                                  *)
(***************************************************************************)
MatrixBlock == [kind : {"matrix"}, hash : Nat, version : Nat, parent : Nat]
SignedReset == [kind : {"reset"}, hash : Nat, previous : Nat, count : Nat, own : Nat]

(* What a stage holds where it is. *)
StageState ==
         {NotRunning} \cup [at : {"reading"}] \cup [at : {"read"}, head : Nat]
    \cup [at : {"evolving", "evolved"}, head : Nat, block : MatrixBlock]
    \cup [at : {"resetting", "reset"}, block : SignedReset]

HardeningTyped ==
    /\ counter \in Nat /\ version \in Nat /\ tip \in Nat /\ made \in Nat
    /\ blocks \in Seq(Block) /\ masks \subseteq Nat
    /\ begun \in Nat /\ policies \in Nat /\ begun + policies <= MaxWork /\ alone \in BOOLEAN
    /\ stage \in [Stages -> StageState]

(* h is the zero hash, or that of an evolution in bs of version v at most. *)
HasEvolution(bs, h, v) ==
    h = ZeroHash \/ \E j \in DOMAIN bs : /\ bs[j].kind = "matrix"
                                         /\ bs[j].hash = h /\ bs[j].version <= v

(* The last evolution among the first n blocks has hash h and version v.   *)
LastOf(bs, n, h, v) ==
    \/ (\A j \in 1..n : bs[j].kind # "matrix") /\ h = ZeroHash /\ v = 0
    \/ \E j \in 1..n : /\ bs[j].kind = "matrix" /\ bs[j].hash = h /\ bs[j].version = v
                       /\ \A k \in 1..n : bs[k].kind = "matrix" => k <= j

(* h is the zero hash, or the hash of a block of bs. *)
InLedger(bs, h) == h = ZeroHash \/ \E k \in DOMAIN bs : bs[k].hash = h

(* A block of hash own is among the first n, and h is the zero hash or the *)
(* hash of an older one.                                                   *)
OwnAndOlder(bs, n, own, h) ==
    \E j \in 1..n : /\ bs[j].hash = own
                    /\ h = ZeroHash \/ \E k \in 1..n : k < j /\ bs[k].hash = h

(* What the properties say of the block at place i; those before it tell.  *)
BlockSound(bs, i, chained) ==
    /\ bs[i].kind = "matrix" =>
          /\ \/ bs[i].parent = ZeroHash
             \/ \E j \in 1..(i - 1) : /\ bs[j].kind = "matrix" /\ bs[j].hash = bs[i].parent
                                      /\ bs[j].version < bs[i].version
          /\ chained => LastOf(bs, i - 1, bs[i].parent, bs[i].version - 1)
    /\ bs[i].kind = "reset" =>
          /\ bs[i].count >= PersistenceThreshold
          /\ OwnAndOlder(bs, i - 1, bs[i].own, bs[i].previous)

LedgerSound(bs, chained) == \A i \in DOMAIN bs : BlockSound(bs, i, chained)

(* A block that a stage is about to commit is sound wherever it lands.     *)
MayLand(bs, b, chained) ==
    /\ b.kind = "matrix" => /\ b.version >= 1 /\ HasEvolution(bs, b.parent, b.version - 1)
                            /\ chained => LastOf(bs, Len(bs), b.parent, b.version - 1)
    /\ b.kind = "reset" => /\ b.count >= PersistenceThreshold
                           /\ OwnAndOlder(bs, Len(bs), b.own, b.previous)

(* What stage s read before it awaited still holds when it resumes.        *)
StageHolds(s) ==
    /\ stage[s].at \in {"read", "evolving"} => InLedger(blocks, stage[s].head)
    /\ stage[s].at \in {"evolving", "resetting"} => MayLand(blocks, stage[s].block, alone)
    /\ stage[s].at = "evolving" => stage[s].block.version <= version
    /\ stage[s].at = "evolved" =>
          /\ HasEvolution(blocks, stage[s].block.hash, version)
          /\ OwnAndOlder(blocks, Len(blocks), stage[s].block.hash, stage[s].head)
    /\ stage[s].at = "reset" =>
          \E i \in DOMAIN blocks : blocks[i].kind = "reset" /\ blocks[i].hash = stage[s].block.hash

(* While nothing overlaps the registry names the newest evolution, unless  *)
(* the one stage that runs is committing the next one.                     *)
RegistryIsNewest ==
    alone => /\ \A s, t \in Stages : stage[s] # NotRunning /\ stage[t] # NotRunning => s = t
             /\ \A s \in Stages : stage[s].at = "evolving" => stage[s].block.version = version
             /\ \A s \in Stages : stage[s].at = "evolved" =>
                   LastOf(blocks, Len(blocks), stage[s].block.hash, version)
             /\ (\A s \in Stages : stage[s].at \notin {"evolving", "evolved"}) =>
                   LastOf(blocks, Len(blocks), tip, version)

HardeningIInv ==
    /\ HardeningTyped
    /\ HasEvolution(blocks, tip, version)
    /\ LedgerSound(blocks, alone)
    /\ \A s \in Stages : StageHolds(s)
    /\ RegistryIsNewest
    /\ MasksHaveBlocks

(* What a phase says of the record a stage is.                             *)
LEMMA StageByPhase ==
    ASSUME NEW x \in StageState
    PROVE  /\ x.at \in {"none", "reading", "read", "evolving", "evolved", "resetting", "reset"}
           /\ x.at = "none" <=> x = NotRunning
           /\ x.at = "read" => x = [at |-> "read", head |-> x.head] /\ x.head \in Nat
           /\ x.at \in {"evolving", "evolved"} =>
                 x = [at |-> x.at, head |-> x.head, block |-> x.block]
                 /\ x.head \in Nat /\ x.block \in MatrixBlock
           /\ x.at \in {"resetting", "reset"} =>
                 x = [at |-> x.at, block |-> x.block] /\ x.block \in SignedReset
<1>1. CASE x = NotRunning
  BY <1>1 DEF NotRunning
<1>2. CASE x \in [at : {"reading"}]
  BY <1>2 DEF NotRunning
<1>3. CASE x \in [at : {"read"}, head : Nat]
  BY <1>3 DEF NotRunning
<1>4. CASE x \in [at : {"evolving", "evolved"}, head : Nat, block : MatrixBlock]
  BY <1>4 DEF NotRunning
<1>5. CASE x \in [at : {"resetting", "reset"}, block : SignedReset]
  BY <1>5 DEF NotRunning
<1> QED BY <1>1, <1>2, <1>3, <1>4, <1>5 DEF StageState

LEMMA BlockByKind ==
    ASSUME NEW b \in Block
    PROVE  /\ b.hash \in Nat
           /\ b.kind = "matrix" => b \in MatrixBlock /\ b.version \in Nat /\ b.parent \in Nat
           /\ b.kind = "reset" => /\ b \in SignedReset /\ b.count \in Nat
                                  /\ b.own \in Nat /\ b.previous \in Nat
BY DEF Block, MatrixBlock, SignedReset

LEMMA MatrixIsBlock == /\ MatrixBlock \subseteq Block /\ SignedReset \subseteq Block
                       /\ \A b \in MatrixBlock : b.kind = "matrix" /\ b.hash \in Nat
                                                 /\ b.version \in Nat /\ b.parent \in Nat
                       /\ \A b \in SignedReset : b.kind = "reset" /\ b.hash \in Nat
BY DEF Block, MatrixBlock, SignedReset

-----------------------------------------------------------------------------
(* The ledger takes one block more. *)

LEMMA LedgerGrows ==
    ASSUME NEW bs \in Seq(Block), NEW b \in Block, NEW cs, cs = Append(bs, b)
    PROVE  /\ cs \in Seq(Block) /\ Len(bs) \in Nat /\ Len(cs) = Len(bs) + 1
           /\ DOMAIN bs = 1..Len(bs) /\ DOMAIN cs = 1..(Len(bs) + 1)
           /\ cs[Len(bs) + 1] = b /\ \A i \in 1..Len(bs) : cs[i] = bs[i] /\ i \in DOMAIN cs
BY AppendProperties

LEMMA StillHolds ==
    ASSUME NEW bs \in Seq(Block), NEW b \in Block, NEW cs, cs = Append(bs, b), NEW h \in Nat
    PROVE  /\ InLedger(bs, h) => InLedger(cs, h)
           /\ \A v \in Nat : HasEvolution(bs, h, v) => HasEvolution(cs, h, v)
           /\ \A own \in Nat : OwnAndOlder(bs, Len(bs), own, h) => OwnAndOlder(cs, Len(cs), own, h)
           /\ \A v \in Int : b.kind # "matrix" /\ LastOf(bs, Len(bs), h, v) => LastOf(cs, Len(cs), h, v)
<1>1. /\ Len(bs) \in Nat /\ Len(cs) = Len(bs) + 1
      /\ DOMAIN bs = 1..Len(bs) /\ DOMAIN cs = 1..(Len(bs) + 1)
      /\ cs[Len(bs) + 1] = b /\ \A i \in 1..Len(bs) : cs[i] = bs[i] /\ i \in DOMAIN cs
  BY LedgerGrows
<1> DEFINE n == Len(bs)
<1>2. \A i \in 1..n : i \in 1..(n + 1) /\ i \in DOMAIN bs /\ cs[i] = bs[i]
  BY <1>1
<1>3. \A i \in 1..(n + 1) : i \in 1..n \/ i = n + 1
  BY <1>1
<1> HIDE DEF n
<1>n. Len(bs) = n /\ Len(cs) = n + 1 /\ n \in Nat /\ DOMAIN bs = 1..n /\ DOMAIN cs = 1..(n + 1)
      /\ cs[n + 1] = b
  BY <1>1 DEF n
<1>4. InLedger(bs, h) => InLedger(cs, h)
  BY <1>2, <1>n DEF InLedger
<1>5. ASSUME NEW v \in Nat, HasEvolution(bs, h, v) PROVE HasEvolution(cs, h, v)
  BY <1>2, <1>5, <1>n DEF HasEvolution
<1>6. ASSUME NEW own \in Nat, OwnAndOlder(bs, n, own, h) PROVE OwnAndOlder(cs, n + 1, own, h)
  BY <1>2, <1>6 DEF OwnAndOlder
<1>7. ASSUME NEW v \in Int, b.kind # "matrix", LastOf(bs, n, h, v) PROVE LastOf(cs, n + 1, h, v)
  BY <1>2, <1>3, <1>7, <1>n DEF LastOf
<1> QED BY <1>4, <1>5, <1>6, <1>7, <1>n

LEMMA NewestEvolution ==
    ASSUME NEW bs \in Seq(Block), NEW b \in Block, NEW cs, cs = Append(bs, b), b.kind = "matrix"
    PROVE  /\ LastOf(cs, Len(cs), b.hash, b.version)
           /\ \A v \in Nat : b.version <= v => HasEvolution(cs, b.hash, v)
<1>1. /\ Len(bs) \in Nat /\ Len(cs) = Len(bs) + 1 /\ DOMAIN cs = 1..(Len(bs) + 1)
      /\ cs[Len(bs) + 1] = b
  BY LedgerGrows
<1>2. Len(bs) + 1 \in 1..(Len(bs) + 1) /\ \A k \in 1..(Len(bs) + 1) : k <= Len(bs) + 1
  BY <1>1
<1>3. LastOf(cs, Len(cs), b.hash, b.version)
  BY <1>1, <1>2 DEF LastOf
<1>4. \A v \in Nat : b.version <= v => HasEvolution(cs, b.hash, v)
  BY <1>1, <1>2 DEF HasEvolution
<1> QED BY <1>3, <1>4

LEMMA StillSound ==
    ASSUME NEW bs \in Seq(Block), NEW b \in Block, NEW cs, cs = Append(bs, b),
           NEW chained, MayLand(bs, b, chained),
           LedgerSound(bs, chained)
    PROVE  LedgerSound(cs, chained)
<1> DEFINE n == Len(bs)
<1>1. /\ n \in Nat /\ DOMAIN bs = 1..n /\ DOMAIN cs = 1..(n + 1)
      /\ cs[n + 1] = b /\ \A i \in 1..n : cs[i] = bs[i]
  BY LedgerGrows
<1>2. ASSUME NEW i \in 1..(n + 1)
      PROVE  /\ \A j \in 1..(i - 1) : j \in 1..n /\ cs[j] = bs[j]
             /\ \A h, v : LastOf(bs, i - 1, h, v) => LastOf(cs, i - 1, h, v)
             /\ \A o, h : OwnAndOlder(bs, i - 1, o, h) => OwnAndOlder(cs, i - 1, o, h)
  <2>1. \A j \in 1..(i - 1) : j \in 1..n /\ cs[j] = bs[j]
    BY <1>1
  <2>2. ASSUME NEW h, NEW v, LastOf(bs, i - 1, h, v) PROVE LastOf(cs, i - 1, h, v)
    BY <2>1, <2>2 DEF LastOf
  <2>3. ASSUME NEW o, NEW h, OwnAndOlder(bs, i - 1, o, h) PROVE OwnAndOlder(cs, i - 1, o, h)
    BY <2>1, <2>3 DEF OwnAndOlder
  <2> QED BY <2>1, <2>2, <2>3
<1>3. ASSUME NEW i \in 1..n PROVE BlockSound(cs, i, chained)
  <2>1. cs[i] = bs[i] /\ BlockSound(bs, i, chained) /\ i \in 1..(n + 1)
    BY <1>1 DEF LedgerSound
  <2>2. /\ \A j \in 1..(i - 1) : j \in 1..n /\ cs[j] = bs[j]
        /\ \A h, v : LastOf(bs, i - 1, h, v) => LastOf(cs, i - 1, h, v)
        /\ \A o, h : OwnAndOlder(bs, i - 1, o, h) => OwnAndOlder(cs, i - 1, o, h)
    BY <1>2, <2>1
  <2> QED BY <2>1, <2>2 DEF BlockSound
<1>4. BlockSound(cs, n + 1, chained)
  <2>1. /\ \A j \in 1..n : cs[j] = bs[j]
        /\ \A h, v : LastOf(bs, n, h, v) => LastOf(cs, n, h, v)
        /\ \A o, h : OwnAndOlder(bs, n, o, h) => OwnAndOlder(cs, n, o, h)
    <3>1. n + 1 \in 1..(n + 1) /\ (n + 1) - 1 = n
      BY <1>1
    <3> QED BY <1>2, <3>1
  <2>2. (n + 1) - 1 = n /\ cs[n + 1] = b
    BY <1>1
  <2>3. b.kind = "matrix" =>
          \/ b.parent = ZeroHash
          \/ \E j \in 1..n : cs[j].kind = "matrix" /\ cs[j].hash = b.parent /\ cs[j].version < b.version
    <3>1. SUFFICES ASSUME b.kind = "matrix", b.parent # ZeroHash
                   PROVE  \E j \in 1..n : /\ cs[j].kind = "matrix" /\ cs[j].hash = b.parent
                                          /\ cs[j].version < b.version
      OBVIOUS
    <3>2. PICK j \in 1..n : /\ bs[j].kind = "matrix" /\ bs[j].hash = b.parent
                            /\ bs[j].version <= b.version - 1
      BY <1>1, <3>1 DEF MayLand, HasEvolution
    <3>3. bs[j] \in Block
      BY <1>1
    <3>4. bs[j].version \in Nat /\ b.version \in Nat
      BY <3>1, <3>2, <3>3, BlockByKind
    <3>5. cs[j].kind = "matrix" /\ cs[j].hash = b.parent /\ cs[j].version < b.version
      BY <2>1, <3>2, <3>4
    <3> QED BY <3>5
  <2>4. b.kind = "matrix" /\ chained => LastOf(cs, n, b.parent, b.version - 1)
    BY <2>1 DEF MayLand
  <2>5. b.kind = "reset" => /\ b.count >= PersistenceThreshold
                            /\ OwnAndOlder(cs, n, b.own, b.previous)
    BY <2>1 DEF MayLand
  <2> HIDE DEF n
  <2> QED BY <2>2, <2>3, <2>4, <2>5 DEF BlockSound
<1> QED BY <1>1, <1>3, <1>4 DEF LedgerSound

-----------------------------------------------------------------------------
(* The steps of the stages. *)

(* What is held while the blocks stay as they are.                         *)
LEMMA QuietStep ==
    ASSUME HardeningIInv, blocks' = blocks, alone' \in BOOLEAN, alone' => alone,
           version' \in Nat, version <= version'
    PROVE  /\ LedgerSound(blocks', alone')
           /\ \A t \in Stages : stage'[t] = stage[t] => StageHolds(t)'
           /\ \A h \in Nat : HasEvolution(blocks, h, version) => HasEvolution(blocks', h, version')
<1>1. LedgerSound(blocks', alone')
  BY DEF HardeningIInv, LedgerSound, BlockSound
<1>2. \A j \in DOMAIN blocks : blocks[j].kind = "matrix" => blocks[j].version \in Nat
  BY BlockByKind DEF HardeningIInv, HardeningTyped
<1>3. version \in Nat
  BY DEF HardeningIInv, HardeningTyped
<1>4. \A h : HasEvolution(blocks, h, version) => HasEvolution(blocks', h, version')
  BY <1>2, <1>3 DEF HasEvolution
<1>5. ASSUME NEW t \in Stages, stage'[t] = stage[t] PROVE StageHolds(t)'
  <2>1. StageHolds(t)
    BY DEF HardeningIInv
  <2>2. stage[t].at \in {"evolving", "resetting"} => MayLand(blocks', stage'[t].block, alone')
    BY <1>5, <2>1 DEF StageHolds, MayLand
  <2>3. stage[t].at = "evolved" => HasEvolution(blocks', stage'[t].block.hash, version')
    BY <1>4, <1>5, <2>1 DEF StageHolds
  <2>4. stage[t].at = "evolving" => stage'[t].block.version <= version'
    <3>1. SUFFICES ASSUME stage[t].at = "evolving" PROVE stage[t].block.version <= version'
      BY <1>5
    <3>2. stage[t] \in StageState
      BY DEF HardeningIInv, HardeningTyped
    <3>3. stage[t].block \in MatrixBlock
      BY <3>1, <3>2, StageByPhase
    <3>4. stage[t].block.version \in Nat
      BY <3>3, MatrixIsBlock
    <3>5. stage[t].block.version <= version
      BY <2>1, <3>1 DEF StageHolds
    <3> QED BY <1>3, <3>4, <3>5
  <2> QED BY <1>5, <2>1, <2>2, <2>3, <2>4 DEF StageHolds
<1> QED BY <1>1, <1>4, <1>5

(* One stage moves, the others stay.                                       *)
LEMMA OneStageMoves ==
    ASSUME HardeningTyped, NEW s \in Stages, NEW x \in StageState, MoveTo(s, x)
    PROVE  /\ stage' \in [Stages -> StageState] /\ stage'[s] = x
           /\ \A t \in Stages : t # s => stage'[t] = stage[t]
BY DEF HardeningTyped, MoveTo

LEMMA PhaseOf ==
    ASSUME HardeningTyped, NEW s \in Stages
    PROVE  /\ stage[s] \in StageState
           /\ stage[s].at \in {"none", "reading", "read", "evolving", "evolved", "resetting", "reset"}
           /\ stage[s].at = "none" <=> stage[s] = NotRunning
           /\ stage[s].at = "read" => stage[s].head \in Nat
           /\ stage[s].at \in {"evolving", "evolved"} =>
                 /\ stage[s].head \in Nat /\ stage[s].block \in MatrixBlock
                 /\ stage[s].block \in Block /\ stage[s].block.kind = "matrix"
                 /\ stage[s].block.hash \in Nat /\ stage[s].block.version \in Nat
                 /\ stage[s].block.parent \in Nat
           /\ stage[s].at \in {"resetting", "reset"} =>
                 /\ stage[s].block \in SignedReset /\ stage[s].block \in Block
                 /\ stage[s].block.kind = "reset" /\ stage[s].block.hash \in Nat
<1>1. stage[s] \in StageState
  BY DEF HardeningTyped
<1> QED BY <1>1, StageByPhase, MatrixIsBlock

LEMMA ABeginStage ==
    ASSUME HardeningIInv, NEW s \in Stages, BeginStage(s)
    PROVE  HardeningIInv'
<1>t. HardeningTyped /\ version \in Nat /\ begun \in Nat /\ policies \in Nat /\ MaxWork \in Nat
      /\ begun + policies < MaxWork
  BY HardeningAssumption DEF HardeningIInv, HardeningTyped, BeginStage
<1>1. [at |-> "reading"] \in StageState /\ [at |-> "reading"] # NotRunning
  BY DEF StageState, NotRunning
<1>2. /\ stage' \in [Stages -> StageState] /\ stage'[s] = [at |-> "reading"]
      /\ \A t \in Stages : t # s => stage'[t] = stage[t]
  BY <1>t, <1>1, OneStageMoves DEF BeginStage
<1>3. /\ blocks' = blocks /\ version' = version /\ tip' = tip /\ masks' = masks
      /\ alone' = (alone /\ \A o \in Stages : stage[o] = NotRunning) /\ alone' \in BOOLEAN
  BY DEF BeginStage
<1>4. HardeningTyped'
  <2>1. counter' \in Nat /\ begun' \in Nat /\ begun' + policies' <= MaxWork
    BY <1>t DEF BeginStage, HardeningTyped
  <2> QED BY <1>t, <1>2, <1>3, <2>1 DEF BeginStage, HardeningTyped
<1>5. /\ LedgerSound(blocks', alone')
      /\ \A t \in Stages : stage'[t] = stage[t] => StageHolds(t)'
  <2>1. alone' => alone
    BY <1>3
  <2>2. version' \in Nat /\ version <= version'
    BY <1>t, <1>3
  <2> QED BY <1>3, <2>1, <2>2, QuietStep
<1>6. StageHolds(s)'
  BY <1>2 DEF StageHolds
<1>7. RegistryIsNewest'
  <2>1. SUFFICES ASSUME alone' PROVE RegistryIsNewest'
    BY DEF RegistryIsNewest
  <2>2. alone /\ \A o \in Stages : stage[o] = NotRunning
    BY <1>3, <2>1
  <2>3. \A o \in Stages : stage[o].at \notin {"evolving", "evolved"}
    BY <2>2 DEF NotRunning
  <2>4. LastOf(blocks', Len(blocks'), tip', version')
    BY <1>3, <2>2, <2>3 DEF HardeningIInv, RegistryIsNewest
  <2>5. \A o \in Stages : stage'[o].at \notin {"evolving", "evolved"}
    BY <1>2, <2>3
  <2>6. \A o, t \in Stages : stage'[o] # NotRunning /\ stage'[t] # NotRunning => o = t
    BY <1>2, <2>2
  <2> QED BY <2>4, <2>5, <2>6 DEF RegistryIsNewest
<1> QED BY <1>2, <1>3, <1>4, <1>5, <1>6, <1>7 DEF HardeningIInv, MasksHaveBlocks

LEMMA AReadSubstrate ==
    ASSUME HardeningIInv, NEW s \in Stages, ReadSubstrate(s)
    PROVE  HardeningIInv'
<1>t. HardeningTyped /\ version \in Nat /\ alone \in BOOLEAN
  BY DEF HardeningIInv, HardeningTyped
<1>1. PICK h \in {HeadHash, ZeroHash} : MoveTo(s, [at |-> "read", head |-> h])
  BY DEF ReadSubstrate
<1>2. h \in Nat /\ InLedger(blocks, h)
  <2>1. CASE blocks = <<>>
    BY <1>1, <2>1 DEF HeadHash, ZeroHash, InLedger
  <2>2. CASE blocks # <<>>
    <3>1. Len(blocks) \in DOMAIN blocks /\ blocks[Len(blocks)] \in Block
      BY <1>t, <2>2 DEF HardeningTyped
    <3>2. HeadHash = blocks[Len(blocks)].hash
      BY <2>2 DEF HeadHash, Last
    <3> QED BY <1>1, <3>1, <3>2, BlockByKind DEF ZeroHash, InLedger
  <2> QED BY <2>1, <2>2
<1>3. [at |-> "read", head |-> h] \in StageState
  BY <1>2 DEF StageState
<1>4. /\ stage' \in [Stages -> StageState] /\ stage'[s] = [at |-> "read", head |-> h]
      /\ \A t \in Stages : t # s => stage'[t] = stage[t]
  BY <1>t, <1>1, <1>3, OneStageMoves
<1>5. /\ blocks' = blocks /\ version' = version /\ tip' = tip /\ masks' = masks /\ alone' = alone
      /\ stage[s].at = "reading"
  BY DEF ReadSubstrate
<1>6. HardeningTyped'
  BY <1>4, <1>5 DEF HardeningIInv, HardeningTyped, ReadSubstrate
<1>7. /\ LedgerSound(blocks', alone')
      /\ \A t \in Stages : stage'[t] = stage[t] => StageHolds(t)'
  <2>1. version' \in Nat /\ version <= version' /\ alone' \in BOOLEAN
    BY <1>t, <1>5
  <2> QED BY <1>5, <2>1, QuietStep
<1>8. StageHolds(s)'
  BY <1>2, <1>4, <1>5 DEF StageHolds
<1>9. RegistryIsNewest'
  <2>1. stage[s] # NotRunning /\ stage'[s].at = "read"
    BY <1>4, <1>5 DEF NotRunning
  <2>2. RegistryIsNewest
    BY DEF HardeningIInv
  <2>3. alone' => \A o, t \in Stages : stage'[o] # NotRunning /\ stage'[t] # NotRunning => o = t
    BY <1>4, <1>5, <2>1, <2>2 DEF RegistryIsNewest
  <2>4. \A t \in Stages : \/ stage'[t] = stage[t]
                          \/ /\ stage'[t].at \notin {"evolving", "evolved"}
                             /\ stage[t].at \notin {"evolving", "evolved"}
    BY <1>4, <1>5
  <2> QED BY <1>5, <2>2, <2>3, <2>4 DEF RegistryIsNewest
<1> QED BY <1>4, <1>5, <1>6, <1>7, <1>8, <1>9 DEF HardeningIInv, MasksHaveBlocks

LEMMA AEvolve ==
    ASSUME HardeningIInv, NEW s \in Stages, Evolve(s)
    PROVE  HardeningIInv'
<1>t. HardeningTyped /\ version \in Nat /\ alone \in BOOLEAN /\ tip \in Nat /\ made \in Nat
  BY DEF HardeningIInv, HardeningTyped
<1> DEFINE b == [kind |-> "matrix", hash |-> made + 1, version |-> version + 1, parent |-> tip]
           x == [at |-> "evolving", head |-> stage[s].head, block |-> b]
<1>1. /\ blocks' = blocks /\ version' = version + 1 /\ tip' = tip /\ masks' = masks
      /\ alone' = alone /\ made' = made + 1 /\ stage[s].at = "read" /\ MoveTo(s, x)
  BY DEF Evolve
<1>2. /\ b \in MatrixBlock /\ b.version = version + 1 /\ b.parent = tip /\ b.kind = "matrix"
      /\ (version + 1) - 1 = version /\ version + 1 >= 1
  BY <1>t DEF MatrixBlock
<1> HIDE DEF b
<1>3. x \in StageState /\ x.at = "evolving" /\ x.head = stage[s].head /\ x.block = b
  <2>1. stage[s].head \in Nat
    BY <1>t, <1>1, PhaseOf
  <2> QED BY <1>2, <2>1 DEF StageState
<1> HIDE DEF x
<1>4. /\ stage' \in [Stages -> StageState] /\ stage'[s] = x
      /\ \A t \in Stages : t # s => stage'[t] = stage[t]
  BY <1>t, <1>1, <1>3, OneStageMoves
<1>5. HardeningTyped'
  <2>1. version' \in Nat /\ made' \in Nat
    BY <1>t, <1>1
  <2> QED BY <1>4, <1>1, <2>1 DEF HardeningIInv, HardeningTyped, Evolve
<1>6. version' \in Nat /\ version <= version' /\ alone' \in BOOLEAN
  BY <1>t, <1>1
<1>7. /\ LedgerSound(blocks', alone')
      /\ \A t \in Stages : stage'[t] = stage[t] => StageHolds(t)'
      /\ HasEvolution(blocks', tip', version')
  <2>1. HasEvolution(blocks, tip, version)
    BY DEF HardeningIInv
  <2> QED BY <1>t, <1>1, <1>6, <2>1, QuietStep
<1>8. alone => \A t \in Stages : t # s => stage[t] = NotRunning
  <2>1. stage[s] # NotRunning
    BY <1>1 DEF NotRunning
  <2> QED BY <2>1 DEF HardeningIInv, RegistryIsNewest
<1>9. alone => LastOf(blocks, Len(blocks), tip, version)
  <2>1. SUFFICES ASSUME alone PROVE LastOf(blocks, Len(blocks), tip, version)
    OBVIOUS
  <2>2. \A t \in Stages : stage[t].at \notin {"evolving", "evolved"}
    BY <1>1, <1>8, <2>1 DEF NotRunning
  <2> QED BY <2>1, <2>2 DEF HardeningIInv, RegistryIsNewest
<1>10. StageHolds(s)'
  <2>1. InLedger(blocks, stage[s].head)
    BY <1>1 DEF HardeningIInv, StageHolds
  <2>2. MayLand(blocks, b, alone)
    BY <1>2, <1>9 DEF HardeningIInv, MayLand
  <2>3. b.version <= version'
    BY <1>t, <1>1, <1>2
  <2> QED BY <1>1, <1>3, <1>4, <2>1, <2>2, <2>3 DEF StageHolds
<1>11. RegistryIsNewest'
  <2>1. alone' => \A o, t \in Stages : stage'[o] # NotRunning /\ stage'[t] # NotRunning => o = t
    BY <1>1, <1>4, <1>8
  <2>2. alone' => \A t \in Stages : t # s => stage'[t].at = "none"
    BY <1>1, <1>4, <1>8 DEF NotRunning
  <2>3. stage'[s].at = "evolving" /\ stage'[s].block.version = version'
    BY <1>1, <1>2, <1>3, <1>4
  <2> QED BY <2>1, <2>2, <2>3 DEF RegistryIsNewest
<1> QED BY <1>1, <1>4, <1>5, <1>7, <1>10, <1>11 DEF HardeningIInv, MasksHaveBlocks

(* What is held while the ledger takes one block more.                     *)
LEMMA LedgerStep ==
    ASSUME HardeningIInv, NEW b \in Block, blocks' = Append(blocks, b),
           MayLand(blocks, b, alone), alone' = alone, version' = version
    PROVE  /\ blocks' \in Seq(Block) /\ LedgerSound(blocks', alone')
           /\ \A i \in DOMAIN blocks : i \in DOMAIN blocks' /\ blocks'[i] = blocks[i]
           /\ \E i \in DOMAIN blocks' : blocks'[i] = b
           /\ \A h \in Nat : HasEvolution(blocks, h, version) => HasEvolution(blocks', h, version')
           /\ \A t \in Stages : /\ stage'[t] = stage[t]
                                /\ b.kind # "matrix" \/ ~alone \/ stage[t] = NotRunning
                                => StageHolds(t)'
<1>t. /\ HardeningTyped /\ version \in Nat /\ alone \in BOOLEAN /\ blocks \in Seq(Block)
      /\ alone' \in BOOLEAN /\ version' \in Nat
  BY DEF HardeningIInv, HardeningTyped
<1>0. PICK cs : cs = blocks' /\ cs = Append(blocks, b)
  OBVIOUS
<1>1. /\ cs \in Seq(Block) /\ Len(blocks) \in Nat /\ DOMAIN blocks = 1..Len(blocks)
      /\ DOMAIN cs = 1..(Len(blocks) + 1) /\ cs[Len(blocks) + 1] = b
      /\ \A i \in 1..Len(blocks) : cs[i] = blocks[i] /\ i \in DOMAIN cs
  BY <1>t, <1>0, LedgerGrows
<1>2. LedgerSound(cs, alone)
  <2>1. LedgerSound(blocks, alone)
    BY DEF HardeningIInv
  <2> QED BY <1>t, <1>0, <2>1, StillSound
<1>3. \A h \in Nat : /\ InLedger(blocks, h) => InLedger(cs, h)
                     /\ \A v \in Nat : HasEvolution(blocks, h, v) => HasEvolution(cs, h, v)
                     /\ \A own \in Nat : OwnAndOlder(blocks, Len(blocks), own, h)
                                            => OwnAndOlder(cs, Len(cs), own, h)
                     /\ \A v \in Int : b.kind # "matrix" /\ LastOf(blocks, Len(blocks), h, v)
                                            => LastOf(cs, Len(cs), h, v)
  BY <1>t, <1>0, StillHolds
<1>4. ASSUME NEW t \in Stages, stage'[t] = stage[t],
             b.kind # "matrix" \/ ~alone \/ stage[t] = NotRunning
      PROVE  StageHolds(t)'
  <2>1. StageHolds(t)
    BY DEF HardeningIInv
  <2>2. /\ stage[t].at = "read" => stage[t].head \in Nat
        /\ stage[t].at \in {"evolving", "evolved"} =>
              /\ stage[t].head \in Nat /\ stage[t].block.hash \in Nat
              /\ stage[t].block.version \in Nat /\ stage[t].block.parent \in Nat
              /\ stage[t].block.kind = "matrix"
        /\ stage[t].at \in {"resetting", "reset"} =>
              stage[t].block \in SignedReset /\ stage[t].block.kind = "reset"
    BY <1>t, PhaseOf
  <2>3. stage[t].at \in {"read", "evolving"} => InLedger(cs, stage[t].head)
    BY <1>3, <2>1, <2>2 DEF StageHolds
  <2>4. stage[t].at = "evolving" => MayLand(cs, stage[t].block, alone)
    <3>1. SUFFICES ASSUME stage[t].at = "evolving" PROVE MayLand(cs, stage[t].block, alone)
      OBVIOUS
    <3>2. PICK c : c = stage[t].block
      OBVIOUS
    <3>3. /\ c.kind = "matrix" /\ c.version \in Nat /\ c.parent \in Nat
          /\ MayLand(blocks, c, alone)
      BY <2>1, <2>2, <3>1, <3>2 DEF StageHolds
    <3>4. c.version >= 1 /\ c.version - 1 \in Nat /\ HasEvolution(blocks, c.parent, c.version - 1)
      BY <3>3 DEF MayLand
    <3>5. HasEvolution(cs, c.parent, c.version - 1)
      BY <1>3, <3>3, <3>4
    <3>6. ASSUME alone PROVE LastOf(cs, Len(cs), c.parent, c.version - 1)
      <4>1. stage[t] # NotRunning
        BY <3>1 DEF NotRunning
      <4>2. b.kind # "matrix" /\ LastOf(blocks, Len(blocks), c.parent, c.version - 1)
        BY <1>4, <3>3, <3>6, <4>1 DEF MayLand
      <4> QED BY <1>3, <3>3, <3>4, <4>2
    <3> QED BY <3>2, <3>3, <3>4, <3>5, <3>6 DEF MayLand
  <2>5. stage[t].at \in {"resetting", "reset"} => MayLand(cs, stage[t].block, alone) \/ stage[t].at = "reset"
    <3>1. SUFFICES ASSUME stage[t].at = "resetting" PROVE MayLand(cs, stage[t].block, alone)
      OBVIOUS
    <3>2. PICK c \in SignedReset : c = stage[t].block /\ c.kind = "reset"
      BY <2>2, <3>1
    <3>3. c.own \in Nat /\ c.previous \in Nat
      BY DEF SignedReset
    <3>4. MayLand(blocks, c, alone)
      BY <2>1, <3>1, <3>2 DEF StageHolds
    <3> QED BY <1>3, <3>2, <3>3, <3>4 DEF MayLand
  <2>6. stage[t].at = "evolved" =>
          /\ HasEvolution(cs, stage[t].block.hash, version)
          /\ OwnAndOlder(cs, Len(cs), stage[t].block.hash, stage[t].head)
    BY <1>t, <1>3, <2>1, <2>2 DEF StageHolds
  <2>7. stage[t].at = "reset" =>
          \E i \in DOMAIN cs : cs[i].kind = "reset" /\ cs[i].hash = stage[t].block.hash
    BY <1>1, <2>1 DEF StageHolds
  <2>8. stage[t].at = "evolving" => stage[t].block.version <= version
    BY <2>1 DEF StageHolds
  <2> QED BY <1>0, <1>4, <2>3, <2>4, <2>5, <2>6, <2>7, <2>8 DEF StageHolds
<1>5. Len(blocks) + 1 \in DOMAIN cs
  BY <1>1
<1> QED BY <1>0, <1>1, <1>2, <1>3, <1>4, <1>5, <1>t

LEMMA ACommitPolicy ==
    ASSUME HardeningIInv, CommitPolicy
    PROVE  HardeningIInv'
<1>t. /\ HardeningTyped /\ version \in Nat /\ alone \in BOOLEAN /\ made \in Nat
      /\ blocks \in Seq(Block) /\ begun \in Nat /\ policies \in Nat /\ MaxWork \in Nat
      /\ tip \in Nat
  BY HardeningAssumption DEF HardeningIInv, HardeningTyped
<1> DEFINE b == [kind |-> "policy", hash |-> made + 1]
<1>1. b \in Block /\ b.kind = "policy"
  BY <1>t DEF Block
<1>2. blocks' = Append(blocks, b)
  BY DEF CommitPolicy
<1> HIDE DEF b
<1>3. /\ version' = version /\ tip' = tip /\ masks' = masks /\ alone' = alone
      /\ stage' = stage /\ made' = made + 1 /\ policies' = policies + 1 /\ begun' = begun
      /\ begun + policies < MaxWork /\ counter' = counter
  BY DEF CommitPolicy
<1>4. MayLand(blocks, b, alone)
  BY <1>1 DEF MayLand
<1>5. /\ blocks' \in Seq(Block) /\ LedgerSound(blocks', alone')
      /\ \A i \in DOMAIN blocks : i \in DOMAIN blocks' /\ blocks'[i] = blocks[i]
      /\ \A h \in Nat : HasEvolution(blocks, h, version) => HasEvolution(blocks', h, version')
      /\ \A t \in Stages : /\ stage'[t] = stage[t]
                           /\ b.kind # "matrix" \/ ~alone \/ stage[t] = NotRunning
                           => StageHolds(t)'
  BY <1>1, <1>2, <1>3, <1>4, LedgerStep
<1>6. HardeningTyped'
  <2>1. made' \in Nat /\ policies' \in Nat /\ begun' + policies' <= MaxWork
    BY <1>t, <1>3
  <2> QED BY <1>3, <1>5, <2>1 DEF HardeningIInv, HardeningTyped
<1>7. \A h \in Nat, v \in Int : LastOf(blocks, Len(blocks), h, v) => LastOf(blocks', Len(blocks'), h, v)
  <2>0. PICK cs : cs = blocks' /\ cs = Append(blocks, b)
    BY <1>2
  <2>1. \A h \in Nat, v \in Int : LastOf(blocks, Len(blocks), h, v) => LastOf(cs, Len(cs), h, v)
    BY <1>t, <1>1, <2>0, StillHolds
  <2> QED BY <2>0, <2>1
<1>8. RegistryIsNewest'
  <2>1. RegistryIsNewest
    BY DEF HardeningIInv
  <2>2. \A s \in Stages : stage[s].at = "evolved" => stage[s].block.hash \in Nat
    BY <1>t, PhaseOf
  <2> QED BY <1>t, <1>3, <1>7, <2>1, <2>2 DEF RegistryIsNewest
<1>9. HasEvolution(blocks', tip', version') /\ \A t \in Stages : StageHolds(t)'
  <2>1. HasEvolution(blocks, tip, version)
    BY DEF HardeningIInv
  <2> QED BY <1>t, <1>1, <1>3, <1>5, <2>1
<1>10. MasksHaveBlocks'
  BY <1>3, <1>5 DEF HardeningIInv, MasksHaveBlocks
<1> QED BY <1>5, <1>6, <1>8, <1>9, <1>10 DEF HardeningIInv

LEMMA ALedgerTakes ==
    ASSUME HardeningIInv, NEW s \in Stages, LedgerTakes(s)
    PROVE  HardeningIInv'
<1>t. /\ HardeningTyped /\ version \in Nat /\ alone \in BOOLEAN /\ blocks \in Seq(Block)
      /\ tip \in Nat /\ RegistryIsNewest /\ StageHolds(s)
  BY DEF HardeningIInv, HardeningTyped
<1>1. /\ version' = version /\ tip' = tip /\ masks' = masks /\ alone' = alone
      /\ stage[s].at \in {"evolving", "resetting"} /\ blocks' = Append(blocks, stage[s].block)
      /\ MoveTo(s, [stage[s] EXCEPT !.at = IF stage[s].at = "evolving" THEN "evolved" ELSE "reset"])
  BY DEF LedgerTakes
<1>2. PICK b \in Block : b = stage[s].block /\ b.hash \in Nat
  BY <1>t, <1>1, PhaseOf
<1> DEFINE x == [stage[s] EXCEPT !.at = IF stage[s].at = "evolving" THEN "evolved" ELSE "reset"]
<1>3. /\ x \in StageState /\ x.block = b
      /\ stage[s].at = "evolving" => x.at = "evolved" /\ x.head = stage[s].head
      /\ stage[s].at = "resetting" => x.at = "reset"
  <2>1. CASE stage[s].at = "evolving"
    <3>1. stage[s] \in StageState /\ stage[s].head \in Nat /\ stage[s].block \in MatrixBlock
      BY <1>t, <2>1, PhaseOf
    <3>2. stage[s] = [at |-> "evolving", head |-> stage[s].head, block |-> stage[s].block]
      BY <2>1, <3>1, StageByPhase
    <3>3. x = [at |-> "evolved", head |-> stage[s].head, block |-> stage[s].block]
      BY <2>1, <3>2
    <3> HIDE DEF x
    <3> QED BY <1>2, <2>1, <3>1, <3>3 DEF StageState
  <2>2. CASE stage[s].at = "resetting"
    <3>1. stage[s] \in StageState /\ stage[s].block \in SignedReset
      BY <1>t, <2>2, PhaseOf
    <3>2. stage[s] = [at |-> "resetting", block |-> stage[s].block]
      BY <2>2, <3>1, StageByPhase
    <3>3. x = [at |-> "reset", block |-> stage[s].block]
      BY <2>2, <3>2
    <3> HIDE DEF x
    <3> QED BY <1>2, <2>2, <3>1, <3>3 DEF StageState
  <2> QED BY <1>1, <2>1, <2>2
<1>4. MoveTo(s, x)
  BY <1>1
<1> HIDE DEF x
<1>5. /\ stage' \in [Stages -> StageState] /\ stage'[s] = x
      /\ \A t \in Stages : t # s => stage'[t] = stage[t]
  BY <1>t, <1>3, <1>4, OneStageMoves
<1>6. MayLand(blocks, b, alone) /\ (stage[s].at = "evolving" => b.kind = "matrix")
      /\ (stage[s].at = "resetting" => b.kind = "reset")
  <2>1. /\ stage[s].at = "evolving" => stage[s].block.kind = "matrix"
        /\ stage[s].at = "resetting" => stage[s].block.kind = "reset"
    BY <1>t, PhaseOf
  <2> QED BY <1>t, <1>1, <1>2, <2>1 DEF StageHolds
<1>7. /\ blocks' \in Seq(Block) /\ LedgerSound(blocks', alone')
      /\ \A i \in DOMAIN blocks : i \in DOMAIN blocks' /\ blocks'[i] = blocks[i]
      /\ \E i \in DOMAIN blocks' : blocks'[i] = b
      /\ \A h \in Nat : HasEvolution(blocks, h, version) => HasEvolution(blocks', h, version')
      /\ \A t \in Stages : /\ stage'[t] = stage[t]
                           /\ b.kind # "matrix" \/ ~alone \/ stage[t] = NotRunning
                           => StageHolds(t)'
  BY <1>1, <1>2, <1>6, LedgerStep
<1>8. alone => \A t \in Stages : t # s => stage[t] = NotRunning
  <2>1. stage[s] # NotRunning
    BY <1>1 DEF NotRunning
  <2> QED BY <1>t, <2>1 DEF RegistryIsNewest
<1>9. HardeningTyped'
  BY <1>5, <1>7, <1>1 DEF HardeningIInv, HardeningTyped, LedgerTakes
<1>10. PICK cs : cs = blocks' /\ cs = Append(blocks, b)
  BY <1>1, <1>2
<1>11. StageHolds(s)'
  <2>1. CASE stage[s].at = "evolving"
    <3>1. b.kind = "matrix" /\ b.version <= version /\ InLedger(blocks, stage[s].head)
      BY <1>t, <1>2, <1>6, <2>1 DEF StageHolds
    <3>2. HasEvolution(cs, b.hash, version)
      BY <1>t, <1>10, <3>1, NewestEvolution
    <3>3. OwnAndOlder(cs, Len(cs), b.hash, stage[s].head)
      <4>1. /\ Len(blocks) \in Nat /\ Len(cs) = Len(blocks) + 1 /\ DOMAIN blocks = 1..Len(blocks)
            /\ cs[Len(blocks) + 1] = b /\ \A i \in 1..Len(blocks) : cs[i] = blocks[i]
        BY <1>t, <1>10, LedgerGrows
      <4>2. /\ Len(blocks) + 1 \in 1..(Len(blocks) + 1)
            /\ \A i \in 1..Len(blocks) : i < Len(blocks) + 1 /\ i \in 1..(Len(blocks) + 1)
        BY <4>1
      <4> QED BY <3>1, <4>1, <4>2 DEF InLedger, OwnAndOlder
    <3> QED BY <1>1, <1>3, <1>5, <1>10, <2>1, <3>2, <3>3 DEF StageHolds
  <2>2. CASE stage[s].at = "resetting"
    <3>1. \E i \in DOMAIN blocks' : blocks'[i].kind = "reset" /\ blocks'[i].hash = b.hash
      BY <1>6, <1>7, <2>2
    <3>2. stage'[s].at = "reset" /\ stage'[s].block = b
      BY <1>3, <1>5, <2>2
    <3> QED BY <3>1, <3>2 DEF StageHolds
  <2> QED BY <1>1, <2>1, <2>2
<1>12. \A t \in Stages : StageHolds(t)'
  BY <1>5, <1>7, <1>8, <1>11
<1>13. RegistryIsNewest'
  <2>1. SUFFICES ASSUME alone' PROVE RegistryIsNewest'
    BY DEF RegistryIsNewest
  <2>2. \A t \in Stages : t # s => stage'[t] = NotRunning /\ stage'[t].at = "none"
    BY <1>1, <1>5, <1>8, <2>1 DEF NotRunning
  <2>3. \A o, t \in Stages : stage'[o] # NotRunning /\ stage'[t] # NotRunning => o = t
    BY <2>2
  <2>4. CASE stage[s].at = "evolving"
    <3>1. b.kind = "matrix" /\ b.version = version
      BY <1>t, <1>1, <1>2, <1>6, <2>1, <2>4 DEF RegistryIsNewest
    <3>2. LastOf(cs, Len(cs), b.hash, b.version)
      BY <1>t, <1>10, <3>1, NewestEvolution
    <3>3. LastOf(blocks', Len(blocks'), stage'[s].block.hash, version')
      BY <1>1, <1>3, <1>5, <1>10, <3>1, <3>2
    <3>4. stage'[s].at = "evolved"
      BY <1>3, <1>5, <2>4
    <3> QED BY <2>2, <2>3, <3>3, <3>4 DEF RegistryIsNewest
  <2>5. CASE stage[s].at = "resetting"
    <3>1. stage'[s].at = "reset" /\ b.kind # "matrix"
      BY <1>3, <1>5, <1>6, <2>5
    <3>2. LastOf(blocks, Len(blocks), tip, version)
      <4>1. \A t \in Stages : stage[t].at \notin {"evolving", "evolved"}
        BY <1>1, <1>8, <2>1, <2>5 DEF NotRunning
      <4> QED BY <1>t, <1>1, <2>1, <4>1 DEF RegistryIsNewest
    <3>3. LastOf(cs, Len(cs), tip, version)
      <4>1. PICK v \in Int : v = version
        BY <1>t
      <4>2. LastOf(blocks, Len(blocks), tip, v)
        BY <3>2, <4>1
      <4>3. LastOf(cs, Len(cs), tip, v)
        BY <1>t, <1>10, <3>1, <4>2, StillHolds
      <4> QED BY <4>1, <4>3
    <3>4. LastOf(blocks', Len(blocks'), tip', version')
      BY <1>1, <1>10, <3>3
    <3> QED BY <2>2, <2>3, <3>1, <3>4 DEF RegistryIsNewest
  <2> QED BY <1>1, <2>4, <2>5
<1>14. HasEvolution(blocks', tip', version')
  BY <1>t, <1>1, <1>7 DEF HardeningIInv
<1>15. MasksHaveBlocks'
  BY <1>1, <1>7 DEF HardeningIInv, MasksHaveBlocks
<1> QED BY <1>7, <1>9, <1>12, <1>13, <1>14, <1>15 DEF HardeningIInv

LEMMA ALedgerRefuses ==
    ASSUME HardeningIInv, NEW s \in Stages, LedgerRefuses(s)
    PROVE  HardeningIInv'
<1>t. HardeningTyped /\ version \in Nat /\ tip \in Nat
  BY DEF HardeningIInv, HardeningTyped
<1>1. /\ blocks' = blocks /\ version' = version /\ tip' = tip /\ masks' = masks /\ alone' = FALSE
      /\ MoveTo(s, NotRunning)
  BY DEF LedgerRefuses
<1>2. /\ stage' \in [Stages -> StageState] /\ stage'[s] = NotRunning
      /\ \A t \in Stages : t # s => stage'[t] = stage[t]
  <2>1. NotRunning \in StageState
    BY DEF StageState
  <2> QED BY <1>t, <1>1, <2>1, OneStageMoves
<1>3. HardeningTyped'
  BY <1>1, <1>2 DEF HardeningIInv, HardeningTyped, LedgerRefuses
<1>4. /\ LedgerSound(blocks', alone') /\ HasEvolution(blocks', tip', version')
      /\ \A t \in Stages : stage'[t] = stage[t] => StageHolds(t)'
  <2>1. version' \in Nat /\ version <= version'
    BY <1>t, <1>1
  <2>3. alone' \in BOOLEAN /\ (alone' => alone)
    BY <1>1
  <2>2. HasEvolution(blocks, tip, version)
    BY DEF HardeningIInv
  <2> QED BY <1>t, <1>1, <2>1, <2>2, <2>3, QuietStep
<1>5. StageHolds(s)'
  BY <1>2 DEF StageHolds, NotRunning
<1>6. RegistryIsNewest'
  BY <1>1 DEF RegistryIsNewest
<1>7. MasksHaveBlocks'
  BY <1>1 DEF HardeningIInv, MasksHaveBlocks
<1> QED BY <1>2, <1>3, <1>4, <1>5, <1>6, <1>7 DEF HardeningIInv

LEMMA AEvolutionCommitted ==
    ASSUME HardeningIInv, NEW s \in Stages, EvolutionCommitted(s)
    PROVE  HardeningIInv'
<1>t. /\ HardeningTyped /\ version \in Nat /\ alone \in BOOLEAN /\ made \in Nat /\ counter \in Nat
      /\ blocks \in Seq(Block) /\ RegistryIsNewest /\ StageHolds(s) /\ PersistenceThreshold \in Nat
  BY HardeningAssumption DEF HardeningIInv, HardeningTyped
<1>1. /\ blocks' = blocks /\ version' = version /\ masks' = masks /\ alone' = alone
      /\ stage[s].at = "evolved" /\ tip' = stage[s].block.hash
  BY DEF EvolutionCommitted, NextTip
<1>2. /\ stage[s].head \in Nat /\ stage[s].block.hash \in Nat
      /\ HasEvolution(blocks, stage[s].block.hash, version)
      /\ OwnAndOlder(blocks, Len(blocks), stage[s].block.hash, stage[s].head)
  BY <1>t, <1>1, PhaseOf DEF StageHolds
<1>3. PICK x \in StageState :
          /\ MoveTo(s, x) /\ made' \in Nat
          /\ \/ x = NotRunning
             \/ /\ x.at = "resetting" /\ x # NotRunning /\ x.block.kind = "reset"
                /\ x.block.count >= PersistenceThreshold
                /\ x.block.own = stage[s].block.hash /\ x.block.previous = stage[s].head
  <2>1. CASE ResetRecommended
    <3> DEFINE b == ResetBlock(s)
               x == [at |-> "resetting", block |-> b]
    <3>1. /\ b \in SignedReset /\ b.kind = "reset" /\ b.count >= PersistenceThreshold
          /\ b.own = stage[s].block.hash /\ b.previous = stage[s].head
      BY <1>t, <1>2, <2>1 DEF ResetBlock, SignedReset, ResetRecommended
    <3>2. MoveTo(s, x) /\ made' = made + 1
      BY <2>1 DEF EvolutionCommitted
    <3> HIDE DEF b
    <3>3. x \in StageState /\ x.at = "resetting" /\ x # NotRunning /\ x.block = b
      BY <3>1 DEF StageState, NotRunning
    <3> HIDE DEF x
    <3> QED BY <1>t, <3>1, <3>2, <3>3
  <2>2. CASE ~ResetRecommended
    <3>1. MoveTo(s, NotRunning) /\ made' = made
      BY <2>2 DEF EvolutionCommitted
    <3>2. NotRunning \in StageState
      BY DEF StageState
    <3> QED BY <1>t, <3>1, <3>2
  <2> QED BY <2>1, <2>2
<1>4. /\ stage' \in [Stages -> StageState] /\ stage'[s] = x
      /\ \A t \in Stages : t # s => stage'[t] = stage[t]
  BY <1>t, <1>3, OneStageMoves
<1>5. HardeningTyped'
  BY <1>1, <1>2, <1>3, <1>4 DEF HardeningIInv, HardeningTyped, EvolutionCommitted
<1>6. /\ LedgerSound(blocks', alone') /\ HasEvolution(blocks', tip', version')
      /\ \A t \in Stages : stage'[t] = stage[t] => StageHolds(t)'
  <2>1. version' \in Nat /\ version <= version' /\ alone' \in BOOLEAN /\ (alone' => alone)
    BY <1>t, <1>1
  <2> QED BY <1>1, <1>2, <2>1, QuietStep
<1>7. StageHolds(s)'
  <2>1. CASE x = NotRunning
    BY <1>4, <2>1 DEF StageHolds, NotRunning
  <2>2. CASE x # NotRunning
    <3>1. MayLand(blocks, x.block, alone) /\ x.at = "resetting"
      BY <1>2, <1>3, <2>2 DEF MayLand
    <3> QED BY <1>1, <1>4, <3>1 DEF StageHolds
  <2> QED BY <2>1, <2>2
<1>8. RegistryIsNewest'
  <2>1. SUFFICES ASSUME alone' PROVE RegistryIsNewest'
    BY DEF RegistryIsNewest
  <2>2. stage[s] # NotRunning
    BY <1>1 DEF NotRunning
  <2>3. \A t \in Stages : t # s => stage'[t] = NotRunning
    BY <1>t, <1>1, <1>4, <2>1, <2>2 DEF RegistryIsNewest
  <2>4. \A t \in Stages : stage'[t].at \notin {"evolving", "evolved"}
    BY <1>3, <1>4, <2>3 DEF NotRunning
  <2>5. LastOf(blocks', Len(blocks'), tip', version')
    BY <1>t, <1>1, <2>1 DEF RegistryIsNewest
  <2> QED BY <2>3, <2>4, <2>5 DEF RegistryIsNewest
<1>9. MasksHaveBlocks'
  BY <1>1 DEF HardeningIInv, MasksHaveBlocks
<1> QED BY <1>4, <1>5, <1>6, <1>7, <1>8, <1>9 DEF HardeningIInv

LEMMA AEmitMask ==
    ASSUME HardeningIInv, NEW s \in Stages, EmitMask(s)
    PROVE  HardeningIInv'
<1>t. /\ HardeningTyped /\ version \in Nat /\ alone \in BOOLEAN /\ tip \in Nat
      /\ RegistryIsNewest /\ StageHolds(s) /\ masks \subseteq Nat /\ MasksHaveBlocks
  BY DEF HardeningIInv, HardeningTyped
<1>1. /\ blocks' = blocks /\ version' = version /\ tip' = tip /\ alone' = alone
      /\ stage[s].at = "reset" /\ masks' \in {masks, masks \cup {stage[s].block.hash}}
      /\ MoveTo(s, NotRunning)
  BY DEF EmitMask, MaskPhases
<1>2. /\ stage' \in [Stages -> StageState] /\ stage'[s] = NotRunning
      /\ \A t \in Stages : t # s => stage'[t] = stage[t]
  <2>1. NotRunning \in StageState
    BY DEF StageState
  <2> QED BY <1>t, <1>1, <2>1, OneStageMoves
<1>3. HardeningTyped'
  <2>1. stage[s].block.hash \in Nat
    BY <1>t, <1>1, PhaseOf
  <2>2. masks' \subseteq Nat
    BY <1>t, <1>1, <2>1
  <2> QED BY <1>1, <1>2, <2>2 DEF HardeningIInv, HardeningTyped, EmitMask
<1>4. /\ LedgerSound(blocks', alone') /\ HasEvolution(blocks', tip', version')
      /\ \A t \in Stages : stage'[t] = stage[t] => StageHolds(t)'
  <2>1. version' \in Nat /\ version <= version' /\ alone' \in BOOLEAN /\ (alone' => alone)
    BY <1>t, <1>1
  <2>2. HasEvolution(blocks, tip, version)
    BY DEF HardeningIInv
  <2> QED BY <1>t, <1>1, <2>1, <2>2, QuietStep
<1>5. StageHolds(s)'
  BY <1>2 DEF StageHolds, NotRunning
<1>6. RegistryIsNewest'
  <2>1. \A t \in Stages : stage'[t] = stage[t] \/ t = s
    BY <1>2
  <2>2. stage'[s].at = "none" /\ stage[s] # NotRunning
    BY <1>1, <1>2 DEF NotRunning
  <2>3. (\A t \in Stages : stage'[t].at \notin {"evolving", "evolved"})
          => \A t \in Stages : stage[t].at \notin {"evolving", "evolved"}
    BY <1>1, <2>1
  <2>4. alone => \A o, t \in Stages : stage'[o] # NotRunning /\ stage'[t] # NotRunning => o = t
    BY <1>t, <1>2, <2>1 DEF RegistryIsNewest
  <2>5. \A t \in Stages : stage'[t].at \in {"evolving", "evolved"} => stage'[t] = stage[t]
    BY <2>1, <2>2
  <2> QED BY <1>t, <1>1, <2>3, <2>4, <2>5 DEF RegistryIsNewest
<1>7. MasksHaveBlocks'
  BY <1>t, <1>1 DEF MasksHaveBlocks, StageHolds
<1> QED BY <1>2, <1>3, <1>4, <1>5, <1>6, <1>7 DEF HardeningIInv

LEMMA HardeningStart == HardeningInit => HardeningIInv
<1> SUFFICES ASSUME HardeningInit PROVE HardeningIInv
  OBVIOUS
<1>1. /\ blocks = <<>> /\ blocks \in Seq(Block) /\ DOMAIN blocks = {} /\ Len(blocks) = 0
      /\ version = 0 /\ tip = 0 /\ masks = {}
  BY DEF HardeningInit, ZeroHash
<1>2. \A s \in Stages : stage[s] = NotRunning /\ stage[s].at = "none"
  BY DEF HardeningInit, NotRunning
<1>3. HardeningTyped
  BY HardeningAssumption DEF HardeningInit, HardeningTyped, StageState, ZeroHash
<1>4. HasEvolution(blocks, tip, version) /\ LedgerSound(blocks, alone) /\ MasksHaveBlocks
  BY <1>1 DEF HasEvolution, LedgerSound, MasksHaveBlocks, ZeroHash
<1>5. \A s \in Stages : StageHolds(s)
  BY <1>2 DEF StageHolds
<1>6. LastOf(blocks, Len(blocks), tip, version)
  BY <1>1 DEF LastOf, ZeroHash
<1>7. RegistryIsNewest
  BY <1>2, <1>6 DEF RegistryIsNewest
<1> QED BY <1>3, <1>4, <1>5, <1>7 DEF HardeningIInv

(* What holds of each block is what the properties say.                    *)
LEMMA HardeningHolds == HardeningIInv => HardeningInv
<1> SUFFICES ASSUME HardeningIInv PROVE HardeningInv
  OBVIOUS
<1>1. DOMAIN blocks = 1..Len(blocks) /\ Len(blocks) \in Nat /\ HardeningTyped
  BY DEF HardeningIInv, HardeningTyped
<1>2. \A i \in DOMAIN blocks : /\ BlockSound(blocks, i, alone)
                               /\ \A j : j \in 1..(i - 1) <=> j \in DOMAIN blocks /\ j < i
  BY <1>1 DEF HardeningIInv, LedgerSound
<1>3. EvolutionsFormTree
  <2>1. SUFFICES ASSUME NEW i \in MatrixAt
                 PROVE  LET earlier == {j \in MatrixAt : j < i}
                        IN  /\ \/ blocks[i].parent = ZeroHash
                               \/ \E j \in earlier : /\ blocks[j].hash = blocks[i].parent
                                                     /\ blocks[j].version < blocks[i].version
                            /\ alone => LastEvolution(earlier, blocks[i].parent,
                                                      blocks[i].version - 1)
    BY DEF EvolutionsFormTree
  <2> DEFINE earlier == {j \in MatrixAt : j < i}
  <2>2. i \in DOMAIN blocks /\ blocks[i].kind = "matrix" /\ BlockSound(blocks, i, alone)
    BY <1>2 DEF MatrixAt
  <2>3. \A j : j \in earlier <=> j \in 1..(i - 1) /\ blocks[j].kind = "matrix"
    BY <1>2, <2>2 DEF MatrixAt
  <2> HIDE DEF earlier
  <2>4. \/ blocks[i].parent = ZeroHash
        \/ \E j \in earlier : /\ blocks[j].hash = blocks[i].parent
                              /\ blocks[j].version < blocks[i].version
    BY <2>2, <2>3 DEF BlockSound
  <2>5. ASSUME alone PROVE LastEvolution(earlier, blocks[i].parent, blocks[i].version - 1)
    <3>1. LastOf(blocks, i - 1, blocks[i].parent, blocks[i].version - 1)
      BY <2>2, <2>5 DEF BlockSound
    <3> QED BY <2>3, <3>1 DEF LastOf, LastEvolution
  <2> QED BY <2>4, <2>5 DEF earlier
<1>4. ResetsAreEarnedAndLate
  <2>1. SUFFICES ASSUME NEW i \in DOMAIN blocks, blocks[i].kind = "reset"
                 PROVE  /\ blocks[i].count >= PersistenceThreshold
                        /\ \E j \in 1..(i - 1) : blocks[j].hash = blocks[i].own
                        /\ \/ blocks[i].previous = ZeroHash
                           \/ \E k, j \in 1..(i - 1) : /\ k < j /\ blocks[j].hash = blocks[i].own
                                                       /\ blocks[k].hash = blocks[i].previous
    BY DEF ResetsAreEarnedAndLate
  <2> QED BY <1>2, <2>1 DEF BlockSound, OwnAndOlder
<1>5. HardeningTypeOK
  <2>1. \A s \in Stages :
          stage[s].at \in {"none", "reading", "read", "evolving", "evolved", "resetting", "reset"}
    BY <1>1, PhaseOf
  <2> QED BY <1>1, <2>1 DEF HardeningTyped, HardeningTypeOK
<1> QED BY <1>3, <1>4, <1>5 DEF HardeningIInv, HardeningInv

(* Evolutions form a tree, resets are earned, masks rest on resets, for    *)
(* every number of overlapping stages, refusals of the ledger and policies *)
(* committed between (commitPipelineStageExecution, evolveAndCommit).      *)
THEOREM StagesGrowATree == HardeningSpec => []HardeningInv
<1>1. HardeningIInv /\ [HardeningNext]_hardeningVars => HardeningIInv'
  <2> SUFFICES ASSUME HardeningIInv, [HardeningNext]_hardeningVars PROVE HardeningIInv'
    OBVIOUS
  <2>1. ASSUME NEW s \in Stages,
               \/ BeginStage(s) \/ ReadSubstrate(s) \/ Evolve(s) \/ LedgerTakes(s)
               \/ LedgerRefuses(s) \/ EvolutionCommitted(s) \/ EmitMask(s)
        PROVE  HardeningIInv'
    BY <2>1, ABeginStage, AReadSubstrate, AEvolve, ALedgerTakes, ALedgerRefuses,
       AEvolutionCommitted, AEmitMask
  <2>2. CASE UNCHANGED hardeningVars
    <3>1. \A s \in Stages : StageHolds(s)'
      BY <2>2 DEF hardeningVars, HardeningIInv, StageHolds
    <3>2. HardeningTyped' /\ MasksHaveBlocks' /\ RegistryIsNewest'
      BY <2>2 DEF hardeningVars, HardeningIInv, HardeningTyped, MasksHaveBlocks, RegistryIsNewest
    <3> QED BY <2>2, <3>1, <3>2 DEF hardeningVars, HardeningIInv
  <2> QED BY <2>1, <2>2, ACommitPolicy DEF HardeningNext
<1> QED BY <1>1, HardeningStart, HardeningHolds, PTL DEF HardeningSpec

-----------------------------------------------------------------------------
(* The control loop. *)

(* A set of numbers has a least one, a set of two a lesser and a greater.  *)
LEMMA LeastNumber ==
    ASSUME NEW T, T \subseteq Nat, T # {}
    PROVE  Min(T) \in T /\ \A y \in T : Min(T) <= y
<1>1. PICK x \in T : \A y \in T : <<y, x>> \notin OpToRel(<, Nat)
  BY NatLessThanWellFounded, WFMin, Zenon
<1>2. \A y \in T : ~(y < x)
  BY <1>1, Zenon DEF OpToRel
<1>3. \E c \in T : \A y \in T : c <= y
  BY <1>2
<1> QED BY <1>3 DEF Min

LEMMA ClampIsBetween ==
    ASSUME NEW v \in Int
    PROVE  /\ Clamp(v) = IF v <= OutputMin THEN OutputMin
                         ELSE IF OutputMax <= v THEN OutputMax ELSE v
           /\ Clamp(v) \in OutputMin..OutputMax /\ OutputMin \in Int /\ OutputMax \in Int
<1>1. OutputMin \in Int /\ OutputMax \in Int /\ OutputMin <= OutputMax
  BY ControlAssumption
<1>2. ASSUME NEW a \in Int, NEW b \in Int PROVE Min({a, b}) = IF a <= b THEN a ELSE b
  <2>1. \E c \in {a, b} : \A y \in {a, b} : c <= y
    OBVIOUS
  <2> QED BY <2>1 DEF Min
<1>3. ASSUME NEW a \in Int, NEW b \in Int PROVE Max({a, b}) = IF a <= b THEN b ELSE a
  <2>1. \E c \in {a, b} : \A y \in {a, b} : c >= y
    OBVIOUS
  <2> QED BY <2>1 DEF Max
<1>4. PICK w \in Int : w = Min({OutputMax, v}) /\ w = IF OutputMax <= v THEN OutputMax ELSE v
  BY <1>1, <1>2
<1>5. Clamp(v) = IF OutputMin <= w THEN w ELSE OutputMin
  BY <1>1, <1>3, <1>4 DEF Clamp, Finite
<1> QED BY <1>1, <1>4, <1>5

LEMMA ProductSigns ==
    ASSUME NEW a \in Nat, NEW b \in Int
    PROVE  /\ a * b \in Int
           /\ b < 0 => a * b <= 0
           /\ b > 0 => a * b >= 0
           /\ a > 0 /\ b < 0 => a * b < 0
           /\ a > 0 /\ b > 0 => a * b > 0
           /\ b >= 0 => a * b >= 0
           /\ b <= 0 => a * b <= 0
OBVIOUS

(* The law with the proportional part p, the integral's change q and the   *)
(* derivative d: it reaches a limit against the error only if d does.      *)
LEMMA NothingHeldAgainstTheError ==
    ASSUME NEW lo \in Int, NEW hi \in Int, lo <= 0, 0 <= hi, lo < hi,
           NEW i \in lo..hi, NEW p \in Int, NEW q \in Int, NEW d \in Int,
           NEW candidate \in lo..hi,
           candidate = IF i + q <= lo THEN lo ELSE IF hi <= i + q THEN hi ELSE i + q,
           NEW kept \in lo..hi, NEW out \in lo..hi,
           out = IF p + kept + d <= lo THEN lo ELSE IF hi <= p + kept + d THEN hi ELSE p + kept + d
    PROVE  /\ /\ p <= 0 /\ q <= 0 /\ p + q < 0 /\ d <= 0
              /\ kept = candidate \/ (kept = i /\ p + candidate + d < lo)
              => out < hi
           /\ /\ p >= 0 /\ q >= 0 /\ p + q > 0 /\ d >= 0
              /\ kept = candidate \/ (kept = i /\ p + candidate + d > hi)
              => out > lo
<1>1. ASSUME p <= 0, q <= 0, p + q < 0, d <= 0,
             kept = candidate \/ (kept = i /\ p + candidate + d < lo)
      PROVE  out < hi
  <2>1. candidate <= i /\ (q < 0 => candidate < hi)
    BY <1>1
  <2>2. p + kept + d < hi
    BY <1>1, <2>1
  <2> QED BY <2>2
<1>2. ASSUME p >= 0, q >= 0, p + q > 0, d >= 0,
             kept = candidate \/ (kept = i /\ p + candidate + d > hi)
      PROVE  out > lo
  <2>1. candidate >= i /\ (q > 0 => candidate > lo)
    BY <1>2
  <2>2. p + kept + d > lo
    BY <1>2, <2>1
  <2> QED BY <2>2
<1> QED BY <1>1, <1>2

-----------------------------------------------------------------------------
(* What a run keeps. *)
Readings == Int \cup NotFinite
Tick == [measurement : Int, error : Int, output : OutputMin..OutputMax, saturated : BOOLEAN,
         read : Readings, aimed : Int]

ControlTyped ==
    /\ setpoint \in Setpoints /\ integral \in OutputMin..OutputMax
    /\ prev = <<>> \/ \E m \in Readings : prev = <<m>>
    /\ measured = <<>> \/ \E m \in Readings : measured = <<m>>
    /\ aim = <<>> \/ \E v \in Int : aim = <<v>>
    /\ initialError \in Int \cup {NaN}
    /\ ticks \in Seq(Tick)

(* A tick records the error of what was read against what was aimed at, 0  *)
(* where nothing finite was read.                                          *)
TicksTellErrors ==
    \A k \in DOMAIN ticks :
        ticks[k].error = IF Finite(ticks[k].read) THEN ticks[k].aimed - ticks[k].read ELSE 0

(* The controller remembers the last tick or, reset, nothing.              *)
PrevIsLastTick ==
    prev # <<>> => Len(ticks) > 0 /\ prev[1] = ticks[Len(ticks)].read

(* Nothing is measured any more when the run has its ticks, and a report   *)
(* is of those ticks.                                                      *)
ReportOfTheseTicks ==
    /\ Len(ticks) <= MaxTicks
    /\ measured # <<>> => Len(ticks) < MaxTicks
    /\ report = NoReport \/ /\ Len(ticks) = MaxTicks /\ report.settleTick = SettleTick
                            /\ report.verdict = "converged" <=> SettleTick # 0

ControlIInv ==
    ControlTyped /\ TicksTellErrors /\ PrevIsLastTick /\ NoWindup /\ ReportOfTheseTicks

(* A tick t that no limit is held against, if the one before read o.       *)
HeldBack(t, after, o) ==
    LET known == after /\ Finite(o) /\ Finite(t.read)
    IN  /\ t.error < 0 /\ t.output = OutputMax => known /\ t.read < o
        /\ t.error > 0 /\ t.output = OutputMin =>
              (known /\ t.read > o) \/ (after /\ Kd > 0 /\ ~Finite(o))

(* What is not finite is no number; the error of a reading is one exactly  *)
(* if the reading is.                                                      *)
LEMMA ReadingsAre ==
    /\ ~Finite(NaN) /\ NaN # -1 /\ \A m \in NotFinite : ~Finite(m)
    /\ \A m \in Readings : Finite(m) \/ m \in NotFinite
    /\ \A v \in Int : Finite(v)
BY ControlAssumption DEF Finite, NotFinite, Readings

LEMMA ErrorOfReading ==
    ASSUME setpoint \in Int, NEW m \in Readings
    PROVE  /\ Finite(m) => Error(m) = setpoint - m /\ Error(m) \in Int
           /\ ~Finite(m) => ~Finite(Error(m))
<1>1. CASE Finite(m)
  <2>1. m \in Int
    BY <1>1 DEF Finite
  <2>2. Error(m) = setpoint - m
    <3> DEFINE fin == Finite(m)
    <3>1. Error(m) = CASE fin -> setpoint - m [] m = Infinity -> MinusInfinity
                       [] m = MinusInfinity -> Infinity [] OTHER -> NaN
      BY DEF Error
    <3>2. fin /\ m # Infinity /\ m # MinusInfinity
      BY <1>1, <2>1, ControlAssumption
    <3> HIDE DEF fin
    <3> QED BY <3>1, <3>2
  <2> QED BY <1>1, <2>1, <2>2
<1>2. CASE ~Finite(m)
  <2>1. Error(m) \in {MinusInfinity, Infinity, NaN}
    <3> DEFINE fin == Finite(m)
    <3>1. Error(m) = CASE fin -> setpoint - m [] m = Infinity -> MinusInfinity
                       [] m = MinusInfinity -> Infinity [] OTHER -> NaN
      BY DEF Error
    <3>2. ~fin
      BY <1>2
    <3>3. Infinity # MinusInfinity
      BY ControlAssumption
    <3> HIDE DEF fin
    <3> QED BY <3>1, <3>2, <3>3
  <2> QED BY <1>2, <2>1, ReadingsAre DEF NotFinite
<1> QED BY <1>1, <1>2

(* What is not finite makes the output the least.                          *)
LEMMA NothingFinite == Clamp(NaN) = OutputMin /\ OutputMin \in Int
BY ReadingsAre, ControlAssumption DEF Clamp

(* With a derivative, if any, of two finite readings.                      *)
LEMMA FiniteUpdateHoldsBack ==
    ASSUME ControlTyped, OutputMin < OutputMax, Kp + Ki > 0,
           NEW m \in Int, NEW error \in Int, NEW kept,
           Kd = 0 \/ prev = <<>> \/ Finite(prev[1]),
           kept = Committed(error, m, Candidate(error)),
           NEW out, out = Clamp(Raw(error, m, kept))
    PROVE  /\ kept \in OutputMin..OutputMax /\ out \in OutputMin..OutputMax
           /\ error < 0 /\ out = OutputMax => prev # <<>> /\ Finite(prev[1]) /\ m < prev[1]
           /\ error > 0 /\ out = OutputMin => prev # <<>> /\ Finite(prev[1]) /\ m > prev[1]
<1>t. /\ OutputMin \in Int /\ OutputMax \in Int /\ OutputMin <= 0 /\ 0 <= OutputMax
      /\ Kp \in Nat /\ Ki \in Nat /\ Kd \in Nat /\ integral \in OutputMin..OutputMax
  BY ControlAssumption DEF ControlTyped
<1>1. PICK p \in Int : p = Kp * error /\ (error < 0 => p <= 0) /\ (error > 0 => p >= 0)
                       /\ (Kp > 0 /\ error < 0 => p < 0) /\ (Kp > 0 /\ error > 0 => p > 0)
  BY <1>t, ProductSigns
<1>2. PICK q \in Int : q = Ki * error /\ (error < 0 => q <= 0) /\ (error > 0 => q >= 0)
                       /\ (Ki > 0 /\ error < 0 => q < 0) /\ (Ki > 0 /\ error > 0 => q > 0)
  BY <1>t, ProductSigns
<1>3. (error < 0 => p + q < 0) /\ (error > 0 => p + q > 0)
  BY <1>t, <1>1, <1>2
<1>4. PICK d \in Int : /\ d = Derivative(m)
                       /\ ~(prev # <<>> /\ Finite(prev[1]) /\ m < prev[1]) => d <= 0
                       /\ ~(prev # <<>> /\ Finite(prev[1]) /\ m > prev[1]) => d >= 0
  <2>1. CASE Kd = 0 \/ prev = <<>>
    BY <2>1 DEF Derivative
  <2>2. CASE ~(Kd = 0 \/ prev = <<>>)
    <3>1. PICK o \in Int : prev = <<o>> /\ prev[1] = o /\ Finite(o) /\ Finite(m)
      BY <2>2 DEF ControlTyped, Finite
    <3>2. PICK x \in Int : x = m - o
      OBVIOUS
    <3>3. PICK y \in Int : y = Kd * x /\ (x >= 0 => y >= 0) /\ (x <= 0 => y <= 0)
      BY <1>t, ProductSigns
    <3>4. Derivative(m) = -Kd * x
      BY <2>2, <3>1, <3>2 DEF Derivative
    <3>5. -Kd * x = -y
      BY <1>t, <3>3
    <3> QED BY <3>1, <3>2, <3>3, <3>4, <3>5
  <2> QED BY <2>1, <2>2
<1>5. PICK candidate \in OutputMin..OutputMax :
          /\ candidate = Candidate(error)
          /\ candidate = IF integral + q <= OutputMin THEN OutputMin
                         ELSE IF OutputMax <= integral + q THEN OutputMax ELSE integral + q
  <2>1. integral + q \in Int /\ Candidate(error) = Clamp(integral + q)
    BY <1>t, <1>2 DEF Candidate, Finite
  <2> QED BY <2>1, ClampIsBetween
<1>6. \A i \in OutputMin..OutputMax : Raw(error, m, i) = p + i + d /\ p + i + d \in Int
  BY <1>t, <1>1, <1>4 DEF Raw, Finite
<1>7. /\ kept = candidate \/ kept = integral
      /\ error < 0 /\ kept # candidate => kept = integral /\ p + candidate + d < OutputMin
      /\ error > 0 /\ kept # candidate => kept = integral /\ p + candidate + d > OutputMax
  <2>0. (UnderTarget(error) <=> error > 0) /\ (OverTarget(error) <=> error < 0)
    <3>1. error # Infinity /\ error # MinusInfinity
      BY ControlAssumption
    <3> QED BY <3>1 DEF UnderTarget, OverTarget, Finite
  <2>1. PICK r \in Int : r = Raw(error, m, candidate) /\ r = p + candidate + d
    BY <1>6
  <2>2. Clamp(r) = (IF r <= OutputMin THEN OutputMin ELSE IF OutputMax <= r THEN OutputMax ELSE r)
    BY ClampIsBetween
  <2>3. kept = IF r # Clamp(r) /\ PushingDeeper(error, Clamp(r)) THEN integral ELSE candidate
    BY <1>5, <2>1 DEF Committed, Saturated
  <2>4. r # Clamp(r) => r < OutputMin \/ r > OutputMax
    BY <1>t, <2>2
  <2>5. r < OutputMin => Clamp(r) = OutputMin
    BY <1>t, <2>2
  <2>6. r > OutputMax => Clamp(r) = OutputMax
    BY <1>t, <2>2
  <2>7. error < 0 /\ r # Clamp(r) /\ PushingDeeper(error, Clamp(r)) => r < OutputMin
    BY <1>t, <2>0, <2>4, <2>6 DEF PushingDeeper
  <2>8. error > 0 /\ r # Clamp(r) /\ PushingDeeper(error, Clamp(r)) => r > OutputMax
    BY <1>t, <2>0, <2>4, <2>5 DEF PushingDeeper
  <2> QED BY <2>1, <2>3, <2>7, <2>8
<1>8. kept \in OutputMin..OutputMax
  BY <1>t, <1>5, <1>7
<1>9. /\ out \in OutputMin..OutputMax
      /\ out = IF p + kept + d <= OutputMin THEN OutputMin
               ELSE IF OutputMax <= p + kept + d THEN OutputMax ELSE p + kept + d
  <2>1. PICK r \in Int : r = Raw(error, m, kept) /\ r = p + kept + d
    BY <1>6, <1>8
  <2> QED BY <2>1, ClampIsBetween
<1>10. /\ /\ p <= 0 /\ q <= 0 /\ p + q < 0 /\ d <= 0
          /\ kept = candidate \/ (kept = integral /\ p + candidate + d < OutputMin)
          => out < OutputMax
       /\ /\ p >= 0 /\ q >= 0 /\ p + q > 0 /\ d >= 0
          /\ kept = candidate \/ (kept = integral /\ p + candidate + d > OutputMax)
          => out > OutputMin
  BY <1>t, <1>5, <1>8, <1>9, NothingHeldAgainstTheError
<1>11. ASSUME error < 0, out = OutputMax PROVE prev # <<>> /\ Finite(prev[1]) /\ m < prev[1]
  <2>1. ~(out < OutputMax)
    BY <1>t, <1>11
  <2>2. p <= 0 /\ q <= 0 /\ p + q < 0
    BY <1>1, <1>2, <1>3, <1>11
  <2>3. kept = candidate \/ (kept = integral /\ p + candidate + d < OutputMin)
    BY <1>7, <1>11
  <2> QED BY <1>4, <1>10, <2>1, <2>2, <2>3
<1>12. ASSUME error > 0, out = OutputMin PROVE prev # <<>> /\ Finite(prev[1]) /\ m > prev[1]
  <2>1. ~(out > OutputMin)
    BY <1>t, <1>12
  <2>2. p >= 0 /\ q >= 0 /\ p + q > 0
    BY <1>1, <1>2, <1>3, <1>12
  <2>3. kept = candidate \/ (kept = integral /\ p + candidate + d > OutputMax)
    BY <1>7, <1>12
  <2> QED BY <1>4, <1>10, <2>1, <2>2, <2>3
<1> QED BY <1>8, <1>9, <1>11, <1>12

(* Whatever was read.                                                      *)
LEMMA UpdateHoldsBack ==
    ASSUME ControlTyped, OutputMin < OutputMax, Kp + Ki > 0,
           NEW m \in Readings, NEW error, error = Error(m), NEW kept,
           kept = Committed(error, m, Candidate(error)),
           NEW out, out = Clamp(Raw(error, m, kept)),
           NEW t, t.error = Round6(error), t.output = out, t.read = m
    PROVE  /\ kept \in OutputMin..OutputMax /\ out \in OutputMin..OutputMax
           /\ HeldBack(t, prev # <<>>, prev[1])
<1>t. /\ OutputMin \in Int /\ OutputMax \in Int /\ setpoint \in Int
      /\ Kd \in Nat /\ integral \in OutputMin..OutputMax
  BY ControlAssumption DEF ControlTyped
<1>1. CASE ~Finite(m)
  <2>1. ~Finite(error)
    BY <1>t, <1>1, ErrorOfReading
  <2>2. /\ \A i : Raw(error, m, i) = NaN
        /\ Candidate(error) = OutputMin /\ t.error = 0
    BY <2>1, NothingFinite DEF Raw, Candidate, Round6
  <2>3. out = OutputMin /\ kept \in {integral, OutputMin}
    BY <2>2, NothingFinite DEF Committed
  <2> QED BY <1>t, <2>2, <2>3 DEF HeldBack
<1>2. CASE Finite(m) /\ (Kd = 0 \/ prev = <<>> \/ Finite(prev[1]))
  <2>1. m \in Int /\ error \in Int /\ t.error = error
    BY <1>t, <1>2, ErrorOfReading DEF Finite, Round6
  <2>2. /\ kept \in OutputMin..OutputMax /\ out \in OutputMin..OutputMax
        /\ error < 0 /\ out = OutputMax => prev # <<>> /\ Finite(prev[1]) /\ m < prev[1]
        /\ error > 0 /\ out = OutputMin => prev # <<>> /\ Finite(prev[1]) /\ m > prev[1]
    BY <1>2, <2>1, FiniteUpdateHoldsBack
  <2> QED BY <1>2, <2>1, <2>2 DEF HeldBack
<1>3. CASE Finite(m) /\ Kd # 0 /\ prev # <<>> /\ ~Finite(prev[1])
  <2>1. Derivative(m) = NaN
    BY <1>3 DEF Derivative
  <2>2. \A i : Raw(error, m, i) = NaN
    BY <2>1, ReadingsAre DEF Raw
  <2>3. m \in Int /\ error \in Int
    BY <1>t, <1>3, ErrorOfReading DEF Finite
  <2>4. out = OutputMin /\ kept \in {integral, Candidate(error)}
    BY <2>2, NothingFinite DEF Committed
  <2>5. Candidate(error) \in OutputMin..OutputMax
    <3>1. PICK v \in Int : v = integral + Ki * error
      BY <1>t, <2>3, ControlAssumption, ProductSigns
    <3>2. Candidate(error) = Clamp(v)
      BY <2>3, <3>1 DEF Candidate, Finite
    <3> QED BY <3>2, ClampIsBetween
  <2> QED BY <1>t, <1>3, <2>4, <2>5 DEF HeldBack
<1> QED BY <1>1, <1>2, <1>3

(* What NoWindup says, tick by tick.                                       *)
LEMMA NoWindupByTicks ==
    ASSUME ticks \in Seq(Tick)
    PROVE  NoWindup <=> \A k \in DOMAIN ticks : HeldBack(ticks[k], k > 1, ticks[k - 1].read)
<1>1. ASSUME NEW k \in DOMAIN ticks
      PROVE  (k > 1 /\ Finite(ticks[k - 1].read) /\ Finite(ticks[k].read))
               => (ticks[k].read < ticks[k - 1].read <=> ticks[k - 1].read > ticks[k].read)
  BY DEF Finite
<1> QED BY <1>1 DEF NoWindup, HeldBack

LEMMA AUpdate ==
    ASSUME ControlIInv, OutputMin < OutputMax, Kp + Ki > 0, Update
    PROVE  ControlIInv'
<1>t. /\ ControlTyped /\ ticks \in Seq(Tick) /\ Len(ticks) \in Nat /\ DOMAIN ticks = 1..Len(ticks)
      /\ setpoint \in Int /\ MaxTicks \in Nat
  BY ControlAssumption DEF ControlIInv, ControlTyped
<1>1. PICK m \in Readings : measured = <<m>> /\ measured[1] = m
  BY DEF Update, ControlIInv, ControlTyped
<1>2. PICK error : error = Error(m)
  OBVIOUS
<1>3. PICK kept : kept = Committed(error, m, Candidate(error))
  OBVIOUS
<1>4. PICK out : out = Clamp(Raw(error, m, kept))
  OBVIOUS
<1>5. PICK s \in BOOLEAN : s = Saturated(error, m, Candidate(error))
  BY DEF Saturated
<1> DEFINE t == [measurement |-> Round6(m), error |-> Round6(error), output |-> out,
                 saturated |-> s, read |-> m, aimed |-> setpoint]
<1>6. /\ integral' = kept /\ prev' = <<m>> /\ ticks' = Append(ticks, t)
      /\ measured' = <<>> /\ setpoint' = setpoint /\ aim' = aim /\ initialError' = initialError
      /\ report' = report
  BY <1>1, <1>2, <1>3, <1>4, <1>5 DEF Update
<1>u. /\ t.error = Round6(error) /\ t.output = out /\ t.read = m /\ t.aimed = setpoint
  OBVIOUS
<1>7. /\ kept \in OutputMin..OutputMax /\ out \in OutputMin..OutputMax
      /\ HeldBack(t, prev # <<>>, prev[1])
  <2> HIDE DEF t
  <2> QED BY <1>t, <1>2, <1>3, <1>4, <1>u, UpdateHoldsBack
<1>8. t \in Tick /\ t.error = IF Finite(t.read) THEN t.aimed - t.read ELSE 0
  <2>1. Round6(m) \in Int /\ Round6(error) \in Int
    BY DEF Round6, Finite
  <2>2. Round6(error) = IF Finite(m) THEN setpoint - m ELSE 0
    BY <1>t, <1>2, ErrorOfReading DEF Round6, Finite
  <2>3. t \in Tick
    BY <1>t, <1>7, <2>1 DEF Tick
  <2> QED BY <1>u, <2>2, <2>3
<1> HIDE DEF t
<1>9. PICK n \in Nat : n = Len(ticks)
  BY <1>t
<1>10. /\ ticks' \in Seq(Tick) /\ Len(ticks') = n + 1 /\ DOMAIN ticks' = 1..(n + 1)
       /\ ticks'[n + 1] = t /\ \A k \in 1..n : ticks'[k] = ticks[k]
  BY <1>t, <1>6, <1>8, <1>9, AppendProperties
<1>11. ControlTyped'
  BY <1>t, <1>6, <1>7, <1>10 DEF ControlTyped
<1>12. PrevIsLastTick'
  BY <1>6, <1>u, <1>10 DEF PrevIsLastTick
<1>k. \A k \in 1..(n + 1) : k \in 1..n \/ k = n + 1
  BY <1>9
<1>v. TicksTellErrors'
  <2>1. \A k \in 1..n : ticks[k].error = IF Finite(ticks[k].read)
                                         THEN ticks[k].aimed - ticks[k].read ELSE 0
    BY <1>t, <1>9 DEF ControlIInv, TicksTellErrors
  <2> QED BY <1>8, <1>10, <1>k, <2>1 DEF TicksTellErrors
<1>13. NoWindup'
  <2>1. ASSUME NEW k \in 1..(n + 1) PROVE HeldBack(ticks'[k], k > 1, ticks'[k - 1].read)
    <3>1. CASE k \in 1..n
      <4>1. ticks'[k] = ticks[k] /\ (k > 1 => ticks'[k - 1] = ticks[k - 1])
        BY <1>9, <1>10, <3>1
      <4>2. HeldBack(ticks[k], k > 1, ticks[k - 1].read)
        BY <1>t, <1>9, <3>1, NoWindupByTicks DEF ControlIInv
      <4> QED BY <4>1, <4>2 DEF HeldBack
    <3>2. CASE k = n + 1
      <4>1. prev # <<>> => k > 1 /\ ticks'[k - 1].read = prev[1]
        <5>1. prev # <<>> => n > 0 /\ prev[1] = ticks[n].read
          BY <1>9 DEF ControlIInv, PrevIsLastTick
        <5>2. n > 0 => k > 1 /\ ticks'[k - 1] = ticks[n]
          BY <1>10, <3>2
        <5> QED BY <5>1, <5>2
      <4>2. ticks'[k] = t
        BY <1>10, <3>2
      <4> QED BY <1>7, <4>1, <4>2 DEF HeldBack
    <3> QED BY <1>k, <3>1, <3>2
  <2>2. NoWindup' <=> \A k \in DOMAIN ticks' : HeldBack(ticks'[k], k > 1, ticks'[k - 1].read)
    <3>1. ASSUME NEW k \in DOMAIN ticks'
          PROVE  (k > 1 /\ Finite(ticks'[k - 1].read) /\ Finite(ticks'[k].read))
                   => (ticks'[k].read < ticks'[k - 1].read <=> ticks'[k - 1].read > ticks'[k].read)
      BY DEF Finite
    <3> QED BY <3>1 DEF NoWindup, HeldBack
  <2> QED BY <1>10, <2>1, <2>2
<1>14. ReportOfTheseTicks'
  <2>1. measured # <<>> /\ n < MaxTicks
    BY <1>9 DEF Update, ControlIInv, ReportOfTheseTicks
  <2>2. report = NoReport
    BY <1>9, <1>t, <2>1 DEF ControlIInv, ReportOfTheseTicks
  <2> QED BY <1>t, <1>6, <1>10, <2>1, <2>2 DEF ReportOfTheseTicks
<1> QED BY <1>11, <1>12, <1>13, <1>14, <1>v DEF ControlIInv

-----------------------------------------------------------------------------
(* What the report says of the ticks. *)

LEMMA SettledMeansWindow ==
    ASSUME ControlTyped
    PROVE  /\ SettleTick \in 0..Len(ticks)
           /\ SettleTick # 0 <=>
                 /\ Len(ticks) >= SettleWindow
                 /\ \A k \in (Len(ticks) - SettleWindow + 1)..Len(ticks) : Within(k)
           /\ SettleTick > 1 => ~Within(SettleTick - 1)
<1>1. PICK n \in Nat : n = Len(ticks)
  BY DEF ControlTyped
<1>2. PICK w \in Nat \ {0} : w = SettleWindow
  BY ControlAssumption
<1>3. SettleStarts = {s \in 1..(n - w + 1) : \A k \in s..n : Within(k)}
  BY <1>1, <1>2 DEF SettleStarts
<1>4. SettleStarts \subseteq 1..n
  BY <1>3
<1>5. ASSUME SettleStarts = {}
      PROVE  SettleTick = 0 /\ ~(n >= w /\ \A k \in (n - w + 1)..n : Within(k))
  <2>1. n >= w => n - w + 1 \in 1..(n - w + 1)
    BY <1>1
  <2> QED BY <1>3, <1>5, <2>1 DEF SettleTick
<1>6. ASSUME SettleStarts # {}
      PROVE  /\ SettleTick \in 1..n
             /\ n >= w /\ \A k \in (n - w + 1)..n : Within(k)
             /\ SettleTick > 1 => ~Within(SettleTick - 1)
  <2>1. PICK s \in SettleStarts : SettleTick = s /\ \A y \in SettleStarts : s <= y
    <3>1. SettleStarts \subseteq Nat
      BY <1>4
    <3> QED BY <1>6, <3>1, LeastNumber DEF SettleTick
  <2>2. s \in 1..(n - w + 1) /\ \A k \in s..n : Within(k)
    BY <1>3
  <2>3. n >= w /\ \A k \in (n - w + 1)..n : k \in s..n
    BY <2>2
  <2>4. ASSUME s > 1, Within(s - 1) PROVE FALSE
    <3>1. s - 1 \in 1..(n - w + 1) /\ \A k \in (s - 1)..n : k = s - 1 \/ k \in s..n
      BY <2>2, <2>4
    <3>2. s - 1 \in SettleStarts
      BY <1>3, <2>2, <2>4, <3>1
    <3>3. ~(s <= s - 1)
      BY <2>2
    <3> QED BY <2>1, <3>2, <3>3
  <2>5. s \in 1..n
    BY <1>4
  <2> QED BY <2>1, <2>2, <2>3, <2>4, <2>5
<1>7. CASE SettleStarts = {}
  BY <1>1, <1>2, <1>5, <1>7
<1>8. CASE SettleStarts # {}
  BY <1>1, <1>2, <1>6, <1>8
<1> QED BY <1>7, <1>8

LEMMA ConvergedIsSettled == Verdict = "converged" <=> SettleTick # 0
<1>1. CASE SettleTick # 0
  BY <1>1 DEF Verdict
<1>2. CASE SettleTick = 0
  <2> DEFINE D == /\ Finite(initialError) /\ initialError > 0
                  /\ 2 * Abs(Last(ticks).error) > 3 * initialError
             O == OscillationCount >= Max({3, Len(ticks) \div 3})
             S == 2 * SaturatedTicks > Len(ticks)
  <2>1. Verdict = CASE SettleTick # 0 -> "converged"
                    [] SettleTick = 0 /\ D -> "diverging"
                    [] OTHER -> IF O THEN "oscillating" ELSE IF S THEN "saturated" ELSE "unsettled"
    BY DEF Verdict
  <2> HIDE DEF D, O, S
  <2>2. Verdict \in {"diverging", "oscillating", "saturated", "unsettled"}
    BY <1>2, <2>1
  <2> QED BY <1>2, <2>2
<1> QED BY <1>1, <1>2

LEMMA TheTicksStay ==
    ASSUME UNCHANGED ticks
    PROVE  /\ SettleTick' = SettleTick /\ (NoWindup => NoWindup')
           /\ TicksTellErrors => TicksTellErrors'
BY DEF SettleTick, SettleStarts, Within, NoWindup, TicksTellErrors

(* A tick counts as within tolerance if it was, or read nothing finite.    *)
LEMMA WithinMeans ==
    ASSUME ControlIInv, NEW k \in DOMAIN ticks
    PROVE  Within(k) <=> NearOrLost(k)
<1>1. ticks[k].error = IF Finite(ticks[k].read) THEN ticks[k].aimed - ticks[k].read ELSE 0
  BY DEF ControlIInv, TicksTellErrors
<1>2. CASE Finite(ticks[k].read)
  BY <1>1, <1>2 DEF Within, NearOrLost
<1>3. CASE ~Finite(ticks[k].read)
  <2>1. Abs(0) <= SettleTolerance
    BY ControlAssumption DEF Abs
  <2> QED BY <1>1, <1>3, <2>1 DEF Within, NearOrLost
<1> QED BY <1>2, <1>3

LEMMA ControlMeans == ControlIInv => ControlInv
<1> SUFFICES ASSUME ControlIInv PROVE ControlInv
  OBVIOUS
<1>1. /\ ControlTyped /\ ticks \in Seq(Tick) /\ Len(ticks) \in Nat
      /\ \A k \in DOMAIN ticks : ticks[k] \in Tick
  BY DEF ControlIInv, ControlTyped
<1>2. \A k \in DOMAIN ticks : ticks[k].output \in OutputMin..OutputMax
  BY <1>1 DEF Tick
<1>3. report = NoReport => report.settleTick \in 0..Len(ticks)
  BY <1>1 DEF NoReport
<1>4. /\ SettleTick \in 0..Len(ticks)
      /\ SettleTick # 0 <=>
            /\ Len(ticks) >= SettleWindow
            /\ \A k \in (Len(ticks) - SettleWindow + 1)..Len(ticks) : Within(k)
      /\ SettleTick > 1 => ~Within(SettleTick - 1)
  BY <1>1, SettledMeansWindow
<1>5. report # NoReport => /\ report.settleTick = SettleTick
                           /\ report.verdict = "converged" <=> SettleTick # 0
  BY DEF ControlIInv, ReportOfTheseTicks
<1>6. report.settleTick \in 0..Len(ticks)
  BY <1>3, <1>4, <1>5
<1>7. ControlTypeOK
  BY <1>1, <1>2, <1>6 DEF ControlTyped, ControlTypeOK
<1>8. ConvergedMeansSettled
  <2>1. PICK n \in Nat : n = Len(ticks) /\ DOMAIN ticks = 1..n
    BY <1>1
  <2>2. \A k \in 1..n : Within(k) <=> NearOrLost(k)
    BY <2>1, WithinMeans
  <2>3. SettleTick > 1 => SettleTick - 1 \in 1..n
    BY <1>4, <2>1
  <2>4. n >= SettleWindow => \A k \in (n - SettleWindow + 1)..n : k \in 1..n
    BY <2>1, ControlAssumption
  <2>5. SettleTick # 0 <=> /\ n >= SettleWindow
                           /\ \A k \in (n - SettleWindow + 1)..n : NearOrLost(k)
    BY <1>4, <2>1, <2>2, <2>4
  <2>6. SettleTick > 1 => ~NearOrLost(SettleTick - 1)
    BY <1>4, <2>2, <2>3
  <2> QED BY <1>5, <2>1, <2>5, <2>6 DEF ConvergedMeansSettled
<1> QED BY <1>7, <1>8 DEF ControlIInv, ControlInv

(* With a gain on the error and a limit to either side, the controller     *)
(* does not wind up, and a run reported as converged has settled as far as *)
(* its readings tell, whatever the plant answers, finite or not, and its   *)
(* owner does meanwhile (PIDController.update, FastControlLoop.summarize). *)
THEOREM ControlDoesNotWindUp ==
    ASSUME OutputMin < OutputMax, Kp + Ki > 0
    PROVE  ControlSpec => []ControlInv
<1>1. ControlInit => ControlIInv
  <2> SUFFICES ASSUME ControlInit PROVE ControlIInv
    OBVIOUS
  <2>1. /\ ticks = <<>> /\ ticks \in Seq(Tick) /\ Len(ticks) = 0 /\ DOMAIN ticks = {}
        /\ prev = <<>> /\ measured = <<>> /\ aim = <<>> /\ report = NoReport /\ integral = 0
        /\ setpoint \in Setpoints /\ initialError = -1
    BY DEF ControlInit
  <2>2. 0 \in OutputMin..OutputMax /\ 0 <= MaxTicks /\ -1 \in Int
    BY ControlAssumption
  <2> QED BY <2>1, <2>2 DEF ControlIInv, ControlTyped, TicksTellErrors, PrevIsLastTick, NoWindup,
                            ReportOfTheseTicks
<1>2. ControlIInv /\ [ControlNext]_controlVars => ControlIInv'
  <2> SUFFICES ASSUME ControlIInv, [ControlNext]_controlVars PROVE ControlIInv'
    OBVIOUS
  <2>t. /\ ControlTyped /\ Len(ticks) \in Nat /\ setpoint \in Int /\ MaxTicks \in Nat
        /\ PrevIsLastTick /\ NoWindup /\ ReportOfTheseTicks /\ TicksTellErrors
    BY ControlAssumption DEF ControlIInv, ControlTyped
  <2>0. CASE StartRun
    <3>1. UNCHANGED <<setpoint, integral, prev, measured, initialError, ticks, report>>
      BY <2>0 DEF StartRun
    <3>2. aim' = <<setpoint>>
      BY <2>0 DEF StartRun
    <3>3. \E v \in Int : aim' = <<v>>
      BY <2>t, <3>2
    <3> QED BY <2>t, <3>1, <3>3, TheTicksStay
            DEF ControlIInv, ControlTyped, PrevIsLastTick, ReportOfTheseTicks
  <2>1. CASE MeasureFirst
    <3>1. PICK m \in Readings, v \in Int :
              initialError' = IF Finite(m) THEN Abs(v - m) ELSE NaN
      <4>1. aim # <<>>
        BY <2>1 DEF MeasureFirst
      <4>2. PICK v \in Int : aim[1] = v
        BY <2>t, <4>1 DEF ControlTyped
      <4> QED BY <2>1, <4>2, ControlAssumption DEF MeasureFirst, Readings
    <3>2. initialError' \in Int \cup {NaN}
      <4>1. CASE Finite(m)
        <5>1. PICK e \in Int : e = v - m
          BY <4>1 DEF Finite
        <5> QED BY <3>1, <4>1, <5>1 DEF Abs
      <4> QED BY <3>1, <4>1
    <3>3. UNCHANGED <<setpoint, integral, prev, aim, measured, ticks, report>>
      BY <2>1 DEF MeasureFirst
    <3> QED BY <2>t, <3>2, <3>3, TheTicksStay
            DEF ControlIInv, ControlTyped, PrevIsLastTick, ReportOfTheseTicks
  <2>2. CASE Measure
    <3>1. PICK m \in Readings : measured' = <<m>>
      BY <2>2, ControlAssumption DEF Measure, Readings
    <3>2. /\ UNCHANGED <<setpoint, integral, prev, aim, initialError, ticks, report>>
          /\ Len(ticks) < MaxTicks
      BY <2>2 DEF Measure
    <3> QED BY <2>t, <3>1, <3>2, TheTicksStay
            DEF ControlIInv, ControlTyped, PrevIsLastTick, ReportOfTheseTicks
  <2>3. CASE Move
    <3>1. UNCHANGED <<aim, measured, initialError, ticks, report>>
      BY <2>3 DEF Move, SetSetpoint, ResetController
    <3>2. setpoint' \in Setpoints
      BY <2>t, <2>3 DEF Move, SetSetpoint, ResetController, ControlTyped
    <3>3. integral' \in OutputMin..OutputMax
      BY <2>t, <2>3, ControlAssumption DEF Move, SetSetpoint, ResetController, ControlTyped
    <3>4. prev' = <<>> \/ prev' = prev
      BY <2>3 DEF Move, SetSetpoint, ResetController
    <3> QED BY <2>t, <3>1, <3>2, <3>3, <3>4, TheTicksStay
            DEF ControlIInv, ControlTyped, PrevIsLastTick, ReportOfTheseTicks
  <2>4. CASE Finish
    <3>1. /\ UNCHANGED <<setpoint, integral, prev, aim, measured, initialError, ticks>>
          /\ Len(ticks) = MaxTicks
          /\ report' = [settleTick |-> SettleTick, verdict |-> Verdict]
      BY <2>4 DEF Finish
    <3>2. report'.settleTick = SettleTick /\ report'.verdict = Verdict
      BY <3>1
    <3>3. ReportOfTheseTicks'
      BY <2>t, <3>1, <3>2, ConvergedIsSettled, TheTicksStay DEF ReportOfTheseTicks
    <3> QED BY <2>t, <3>1, <3>3, TheTicksStay DEF ControlIInv, ControlTyped, PrevIsLastTick
  <2>5. CASE UNCHANGED controlVars
    BY <2>t, <2>5, TheTicksStay
       DEF controlVars, ControlIInv, ControlTyped, PrevIsLastTick, ReportOfTheseTicks
  <2> QED BY <2>0, <2>1, <2>2, <2>3, <2>4, <2>5, AUpdate DEF ControlNext
<1> QED BY <1>1, <1>2, ControlMeans, PTL DEF ControlSpec

-----------------------------------------------------------------------------
(* Rings of the newest. *)

(* The newest n items of s, and a ring of c places that takes one more.    *)
LastItems(s, n) == SubSeq(s, Len(s) - (IF n < Len(s) THEN n ELSE Len(s)) + 1, Len(s))
RingTakes(s, c, x) == IF Len(s) = c THEN Append(Tail(s), x) ELSE Append(s, x)

(* r is the last k of the l items of s; r is those and then x.             *)
IsEnd(r, s, l, k) == Len(r) = k /\ \A i \in 1..k : l - k + i \in 1..l /\ r[i] = s[l - k + i]
IsEndAnd(r, s, l, k, x) ==
    Len(r) = k + 1 /\ r[k + 1] = x /\ \A i \in 1..k : l - k + i \in 1..l /\ r[i] = s[l - k + i]

LEMMA LastItemsAre ==
    ASSUME NEW T, NEW s \in Seq(T), NEW n \in Nat
    PROVE  /\ LastItems(s, n) \in Seq(T)
           /\ \E l \in Nat, k \in Nat : /\ l = Len(s) /\ k = (IF n < l THEN n ELSE l)
                                        /\ IsEnd(LastItems(s, n), s, l, k)
<1>1. PICK l \in Nat, k \in Nat : l = Len(s) /\ k = (IF n < Len(s) THEN n ELSE Len(s))
  <2>1. Len(s) \in Nat
    OBVIOUS
  <2> QED BY <2>1
<1>2. k <= l /\ l - k + 1 \in Int /\ l \in Int /\ l - k + 1 >= 1
  BY <1>1
<1>3. \A i \in (l - k + 1)..l : s[i] \in T
  BY <1>1, <1>2
<1>4. PICK r : r = LastItems(s, n) /\ r = SubSeq(s, l - k + 1, l)
  BY <1>1 DEF LastItems
<1>5. /\ r \in Seq(T) /\ Len(r) = (IF l - k + 1 <= l THEN l - (l - k + 1) + 1 ELSE 0)
      /\ \A i \in 1..(l - (l - k + 1) + 1) : r[i] = s[(l - k + 1) + i - 1]
  BY <1>2, <1>3, <1>4, SubSeqProperties
<1>6. l - (l - k + 1) + 1 = k /\ Len(r) = k
  BY <1>2, <1>5
<1>7. \A i \in 1..k : (l - k + 1) + i - 1 = l - k + i /\ l - k + i \in 1..l
  BY <1>2
<1>8. \A i \in 1..k : r[i] = s[l - k + i]
  BY <1>5, <1>6, <1>7
<1>9. IsEnd(r, s, l, k)
  BY <1>6, <1>7, <1>8 DEF IsEnd
<1> QED BY <1>1, <1>4, <1>5, <1>9

LEMMA RingTook ==
    ASSUME NEW T, NEW s \in Seq(T), NEW c \in Nat \ {0}, Len(s) <= c, NEW x \in T
    PROVE  /\ RingTakes(s, c, x) \in Seq(T)
           /\ \E l \in Nat, k \in Nat : /\ l = Len(s) /\ k = (IF l = c THEN c - 1 ELSE l)
                                        /\ IsEndAnd(RingTakes(s, c, x), s, l, k, x)
<1> DEFINE r == RingTakes(s, c, x)
<1>1. CASE Len(s) = c
  <2>1. s # <<>> /\ Len(s) \in Nat
    BY <1>1
  <2>2. PICK t \in Seq(T) : t = Tail(s) /\ Len(t) = Len(s) - 1 /\ \A i \in 1..Len(t) : t[i] = s[i + 1]
    BY <2>1, HeadTailProperties
  <2>3. r = Append(t, x)
    BY <1>1, <2>2 DEF RingTakes
  <2> HIDE DEF r
  <2>4. r \in Seq(T) /\ Len(r) = Len(t) + 1 /\ r[Len(t) + 1] = x /\ \A i \in 1..Len(t) : r[i] = t[i]
    BY <2>3, AppendProperties
  <2>5. PICK k \in Nat : k = Len(t) /\ k = c - 1 /\ Len(s) = k + 1 /\ Len(r) = k + 1
    BY <1>1, <2>1, <2>2, <2>4
  <2>6. \A i \in 1..k : (k + 1) - k + i = i + 1 /\ i + 1 \in 1..(k + 1)
    BY <2>5
  <2>7. \A i \in 1..k : r[i] = s[i + 1]
    BY <2>2, <2>4, <2>5
  <2>8. IsEndAnd(r, s, k + 1, k, x)
    BY <2>4, <2>5, <2>6, <2>7 DEF IsEndAnd
  <2> QED BY <1>1, <2>4, <2>5, <2>8 DEF r
<1>2. CASE Len(s) # c
  <2>1. r = Append(s, x)
    BY <1>2 DEF RingTakes
  <2> HIDE DEF r
  <2>2. r \in Seq(T) /\ Len(r) = Len(s) + 1 /\ r[Len(s) + 1] = x /\ \A i \in 1..Len(s) : r[i] = s[i]
    BY <2>1, AppendProperties
  <2>3. PICK k \in Nat : k = Len(s) /\ Len(r) = k + 1
    <3>1. Len(s) \in Nat
      OBVIOUS
    <3> QED BY <1>2, <2>2, <3>1
  <2>4. \A i \in 1..k : k - k + i = i
    BY <2>3
  <2>5. IsEndAnd(r, s, k, k, x)
    BY <2>2, <2>3, <2>4 DEF IsEndAnd
  <2> QED BY <1>2, <2>2, <2>3, <2>5 DEF r
<1> QED BY <1>1, <1>2

(* What is the newest of a list stays so when both take one more.          *)
LEMMA RingStaysNewest ==
    ASSUME NEW T, NEW s \in Seq(T), NEW c \in Nat \ {0}, NEW x \in T
    PROVE  RingTakes(LastItems(s, c), c, x) = LastItems(Append(s, x), c)
<1>0. PICK a, b, t : a = LastItems(s, c) /\ t = Append(s, x) /\ b = LastItems(t, c)
  OBVIOUS
<1>1. a \in Seq(T) /\ \E m \in Nat, k \in Nat : /\ m = Len(s) /\ k = (IF c < m THEN c ELSE m)
                                                /\ IsEnd(a, s, m, k)
  BY <1>0, LastItemsAre
<1>2. PICK l \in Nat, k \in Nat : l = Len(s) /\ k = (IF c < l THEN c ELSE l) /\ IsEnd(a, s, l, k)
  BY <1>1
<1>3. /\ t \in Seq(T) /\ Len(t) = l + 1 /\ t[l + 1] = x
      /\ \A i \in 1..l : t[i] = s[i]
  BY <1>0, <1>2, AppendProperties
<1>4. b \in Seq(T) /\ \E m \in Nat, j \in Nat : /\ m = Len(t) /\ j = (IF c < m THEN c ELSE m)
                                                /\ IsEnd(b, t, m, j)
  BY <1>0, <1>3, LastItemsAre
<1>5. PICK j \in Nat : j = (IF c < l + 1 THEN c ELSE l + 1) /\ IsEnd(b, t, l + 1, j)
  BY <1>3, <1>4
<1>6. PICK r : r = RingTakes(a, c, x)
  OBVIOUS
<1>7. Len(a) = k /\ k <= c
  BY <1>2 DEF IsEnd
<1>8. r \in Seq(T) /\ \E m \in Nat, h \in Nat : /\ m = Len(a) /\ h = (IF m = c THEN c - 1 ELSE m)
                                                /\ IsEndAnd(r, a, m, h, x)
  BY <1>1, <1>6, <1>7, RingTook
<1>9. PICK h \in Nat : h = (IF k = c THEN c - 1 ELSE k) /\ IsEndAnd(r, a, k, h, x)
  BY <1>7, <1>8
<1>10. j = h + 1
  BY <1>2, <1>5, <1>9
<1>11. Len(r) = h + 1 /\ Len(b) = h + 1
  BY <1>5, <1>9, <1>10 DEF IsEnd, IsEndAnd
<1>12. ASSUME NEW i \in 1..(h + 1) PROVE r[i] = b[i]
  <2>1. CASE i = h + 1
    <3>1. (l + 1) - j + i = l + 1 /\ i \in 1..j
      BY <2>1, <1>10
    <3>2. r[i] = x
      BY <1>9, <2>1 DEF IsEndAnd
    <3>3. b[i] = t[l + 1]
      BY <1>5, <3>1 DEF IsEnd
    <3> QED BY <1>3, <3>2, <3>3
  <2>2. CASE i # h + 1
    <3>1. i \in 1..h /\ i \in 1..j
      BY <1>10, <2>2
    <3>2. PICK g \in 1..k : g = k - h + i /\ r[i] = a[g]
      BY <1>9, <3>1 DEF IsEndAnd
    <3>3. PICK f \in 1..l : f = l - k + g /\ a[g] = s[f]
      BY <1>2, <3>2 DEF IsEnd
    <3>4. (l + 1) - j + i = f
      BY <1>10, <3>2, <3>3
    <3>5. b[i] = t[f]
      BY <1>5, <3>1, <3>4 DEF IsEnd
    <3> QED BY <1>3, <3>2, <3>3, <3>5
  <2> QED BY <2>1, <2>2
<1>13. r = b
  BY <1>4, <1>8, <1>11, <1>12, SeqEqual
<1> QED BY <1>0, <1>6, <1>13

-----------------------------------------------------------------------------
(* The trace memory. *)

(* Its traces, whose hashes are among S, and the lines of its file.        *)
TracesOf(S) == [id : TraceIds, dual : BOOLEAN, parent : S, hash : S]
LinesOf(S) == TracesOf(S) \cup {Torn, Garbage}

Digested(t) == t.hash = Digest(Payload(t.id, t.dual), t.parent)

Trails == UNION {[S -> {"fresh", "faded"}] : S \in SUBSET TraceIds}

MemoryTyped(S) ==
    /\ up \subseteq Memories
    /\ recorded \in 0..MaxRecorded /\ mishaps \in 0..MaxMishaps /\ calm \in BOOLEAN
    /\ ring \in [Memories -> Seq(TracesOf(S))] /\ file \in Seq(LinesOf(S))
    /\ trail \in [Memories -> Trails]
    /\ laid \in [Memories -> Seq(TraceIds)] /\ pruned \in [Memories -> SUBSET TraceIds]
    /\ \A m \in Memories : Len(ring[m]) <= RingCapacity

(* Every trace says its own hash, in memory and on disk.                   *)
HashesAreDigests ==
    /\ \A m \in Memories : \A i \in DOMAIN ring[m] : Digested(ring[m][i])
    /\ \A i \in DOMAIN file : file[i] \in {Torn, Garbage} \/ Digested(file[i])

(* While all is calm one memory is open at most, and no line is garbage.   *)
CalmMeans == calm => Readable(file) /\ \A m, n \in up : m = n

(* The ring holds the traces laid last.                                    *)
RingIsLaid(items, ids) ==
    /\ Len(items) <= Len(ids)
    /\ \A i \in 1..Len(items) : items[i].id = ids[Len(ids) - Len(items) + i]

(* The id is at one place of ids only.                                     *)
Once(ids, id) == \E i \in DOMAIN ids : \A j \in DOMAIN ids : ids[j] = id <=> j = i

(* What is laid once and was not pruned has its trail, and every trail its *)
(* trace.                                                                  *)
TrailsFollow(items, trails, ids, gone) ==
    /\ RingIsLaid(items, ids)
    /\ DOMAIN trails \subseteq Ids(items)
    /\ \A id \in Ids(items) \ gone : Once(ids, id) => id \in DOMAIN trails

MemoryIInv ==
    /\ \E S : MemoryTyped(S)
    /\ HashesAreDigests
    /\ CalmMeans
    /\ MemoryIsTailOfChain
    /\ \A m \in up : TrailsFollow(ring[m], trail[m], laid[m], pruned[m])

LEMMA TracesGrow ==
    ASSUME NEW S, NEW R, S \subseteq R
    PROVE  /\ TracesOf(S) \subseteq TracesOf(R) /\ LinesOf(S) \subseteq LinesOf(R)
           /\ \A x : x \in Seq(TracesOf(S)) => x \in Seq(TracesOf(R))
           /\ \A x : x \in Seq(LinesOf(S)) => x \in Seq(LinesOf(R))
<1>1. TracesOf(S) \subseteq TracesOf(R) /\ LinesOf(S) \subseteq LinesOf(R)
  BY DEF TracesOf, LinesOf
<1> QED BY <1>1, SeqMonotonic

LEMMA TracesAreNoGarbage ==
    ASSUME NEW S, NEW t \in TracesOf(S)
    PROVE  t \notin {Torn, Garbage} /\ t.id \in TraceIds /\ t.hash \in S /\ t.parent \in S
<1>1. t.id \in TraceIds /\ t.hash \in S /\ t.parent \in S /\ "id" \in DOMAIN t
  BY DEF TracesOf
<1>2. "id" \notin DOMAIN Torn /\ "id" \notin DOMAIN Garbage
  BY DEF Torn, Garbage
<1> QED BY <1>1, <1>2

(* A trail is a function of some ids.                                      *)
LEMMA TrailsAre ==
    /\ \A f \in Trails : /\ DOMAIN f \subseteq TraceIds /\ f \in [DOMAIN f -> {"fresh", "faded"}]
                         /\ \A i \in DOMAIN f : f[i] \in {"fresh", "faded"}
    /\ \A X \in SUBSET TraceIds : [X -> {"fresh", "faded"}] \subseteq Trails
<1>1. ASSUME NEW f \in Trails
      PROVE  /\ DOMAIN f \subseteq TraceIds /\ f \in [DOMAIN f -> {"fresh", "faded"}]
             /\ \A i \in DOMAIN f : f[i] \in {"fresh", "faded"}
  <2>1. PICK X \in SUBSET TraceIds : f \in [X -> {"fresh", "faded"}]
    BY DEF Trails
  <2>2. DOMAIN f = X
    BY <2>1
  <2> QED BY <2>1, <2>2
<1>2. \A X \in SUBSET TraceIds : [X -> {"fresh", "faded"}] \subseteq Trails
  BY DEF Trails
<1> QED BY <1>1, <1>2

LEMMA TrailOperators ==
    ASSUME NEW f \in Trails, NEW id \in TraceIds
    PROVE  /\ Deposit(f, id) \in Trails /\ DOMAIN Deposit(f, id) = DOMAIN f \cup {id}
           /\ \A x : Forget(f, x) \in Trails /\ DOMAIN Forget(f, x) = DOMAIN f \ {x}
<1>1. DOMAIN f \subseteq TraceIds /\ \A i \in DOMAIN f : f[i] \in {"fresh", "faded"}
  BY TrailsAre
<1>2. Deposit(f, id) \in [DOMAIN f \cup {id} -> {"fresh", "faded"}]
  BY <1>1 DEF Deposit
<1>3. \A x : Forget(f, x) \in [DOMAIN f \ {x} -> {"fresh", "faded"}]
  BY <1>1 DEF Forget, Restrict
<1>4. DOMAIN f \cup {id} \in SUBSET TraceIds /\ \A x : DOMAIN f \ {x} \in SUBSET TraceIds
  BY <1>1
<1>5. Deposit(f, id) \in Trails /\ DOMAIN Deposit(f, id) = DOMAIN f \cup {id}
  BY <1>2, <1>4, TrailsAre
<1>6. ASSUME NEW x PROVE Forget(f, x) \in Trails /\ DOMAIN Forget(f, x) = DOMAIN f \ {x}
  BY <1>3, <1>4, TrailsAre
<1> QED BY <1>5, <1>6

(* An id laid a second time is not laid once.                              *)
LEMMA LaidOnce ==
    ASSUME NEW ids \in Seq(TraceIds), NEW id
    PROVE  Cardinality({i \in DOMAIN ids : ids[i] = id}) = 1 <=> Once(ids, id)
<1> DEFINE L == {i \in DOMAIN ids : ids[i] = id}
<1>1. IsFiniteSet(L)
  <2>1. L \subseteq 1..Len(ids) /\ Len(ids) \in Nat /\ IsFiniteSet(1..Len(ids))
    BY FS_Interval
  <2> QED BY <2>1, FS_Subset
<1>2. Cardinality(L) = 1 <=> \E x : L = {x}
  BY <1>1, FS_Singleton
<1>3. (\E x : L = {x}) => Once(ids, id)
  <2>1. SUFFICES ASSUME NEW x, L = {x} PROVE Once(ids, id)
    OBVIOUS
  <2>2. x \in DOMAIN ids
    BY <2>1
  <2>3. \A j \in DOMAIN ids : ids[j] = id <=> j = x
    BY <2>1
  <2> QED BY <2>2, <2>3 DEF Once
<1>4. Once(ids, id) => \E x : L = {x}
  <2>1. SUFFICES ASSUME NEW i \in DOMAIN ids, \A j \in DOMAIN ids : ids[j] = id <=> j = i
                 PROVE  \E x : L = {x}
    BY DEF Once
  <2>2. L = {i}
    BY <2>1
  <2> QED BY <2>2
<1> QED BY <1>2, <1>3, <1>4

(* One more trace is laid in the ring: the trails follow.                  *)
LEMMA LaidDown ==
    ASSUME NEW S, NEW items \in Seq(TracesOf(S)), NEW trails \in Trails, NEW ids \in Seq(TraceIds),
           NEW gone, TrailsFollow(items, trails, ids, gone), Len(items) <= RingCapacity,
           NEW t \in TracesOf(S)
    PROVE  /\ PushTrace(items, t) \in Seq(TracesOf(S)) /\ Len(PushTrace(items, t)) <= RingCapacity
           /\ LayDown(trails, items, t) \in Trails
           /\ TrailsFollow(PushTrace(items, t), LayDown(trails, items, t), Append(ids, t.id),
                           gone \ {t.id})
<1>c. RingCapacity \in Nat \ {0}
  BY TraceMemoryAssumption
<1>0. PICK next, more, left : /\ next = PushTrace(items, t) /\ more = Append(ids, t.id)
                              /\ left = LayDown(trails, items, t)
  OBVIOUS
<1>1. PICK l \in Nat, k \in Nat : /\ l = Len(items) /\ k = (IF l = RingCapacity THEN RingCapacity - 1 ELSE l)
                                  /\ IsEndAnd(next, items, l, k, t) /\ next \in Seq(TracesOf(S))
  <2>1. next = RingTakes(items, RingCapacity, t)
    BY <1>0 DEF PushTrace, RingTakes
  <2>2. /\ next \in Seq(TracesOf(S))
        /\ \E l \in Nat, k \in Nat : /\ l = Len(items)
                                     /\ k = (IF l = RingCapacity THEN RingCapacity - 1 ELSE l)
                                     /\ IsEndAnd(next, items, l, k, t)
    BY <1>c, <2>1, RingTook
  <2> QED BY <2>2
<1>2. /\ Len(next) = k + 1 /\ next[k + 1] = t /\ DOMAIN next = 1..(k + 1) /\ k + 1 <= RingCapacity
      /\ \A i \in 1..k : l - k + i \in 1..l /\ next[i] = items[l - k + i]
  <2>1. /\ Len(next) = k + 1 /\ next[k + 1] = t
        /\ \A i \in 1..k : l - k + i \in 1..l /\ next[i] = items[l - k + i]
    BY <1>1 DEF IsEndAnd
  <2>2. DOMAIN next = 1..(k + 1)
    <3>1. next \in Seq(TracesOf(S)) /\ Len(next) = k + 1
      BY <1>1, <2>1
    <3> QED BY <3>1
  <2>3. k + 1 <= RingCapacity
    <3>1. PICK c \in Nat \ {0} : c = RingCapacity
      BY <1>c
    <3>2. l <= c /\ k = (IF l = c THEN c - 1 ELSE l)
      BY <1>1, <3>1
    <3> QED BY <3>1, <3>2
  <2> QED BY <2>1, <2>2, <2>3
<1>3. PICK d \in Nat : d = Len(ids)
  BY LenProperties
<1>4. /\ l <= d /\ DOMAIN items = 1..l /\ DOMAIN ids = 1..d
      /\ \A i \in 1..l : items[i].id = ids[d - l + i]
  BY <1>1, <1>3 DEF TrailsFollow, RingIsLaid
<1>5. t.id \in TraceIds
  BY TracesAreNoGarbage
<1>6. /\ more \in Seq(TraceIds) /\ Len(more) = d + 1 /\ DOMAIN more = 1..(d + 1)
      /\ more[d + 1] = t.id /\ \A i \in 1..d : more[i] = ids[i]
  BY <1>0, <1>3, <1>5, AppendProperties
<1>7. RingIsLaid(next, more)
  <2>1. ASSUME NEW i \in 1..(k + 1) PROVE next[i].id = more[(d + 1) - (k + 1) + i]
    <3>1. CASE i = k + 1
      <4>1. (d + 1) - (k + 1) + i = d + 1
        BY <3>1
      <4> QED BY <1>2, <1>6, <3>1, <4>1
    <3>2. CASE i # k + 1
      <4>1. i \in 1..k
        BY <3>2
      <4>2. PICK j \in 1..l : j = l - k + i /\ next[i] = items[j]
        BY <1>2, <4>1
      <4>3. PICK h \in 1..d : h = d - l + j /\ items[j].id = ids[h]
        <5>1. d - l + j \in 1..d
          <6>1. l <= d
            BY <1>4
          <6> QED BY <6>1
        <5>2. items[j].id = ids[d - l + j]
          BY <1>4
        <5> QED BY <5>1, <5>2
      <4>4. (d + 1) - (k + 1) + i = h
        BY <4>2, <4>3
      <4> QED BY <1>6, <4>2, <4>3, <4>4
    <3> QED BY <3>1, <3>2
  <2>2. k + 1 <= d + 1
    BY <1>1, <1>4
  <2> QED BY <1>2, <1>6, <2>1, <2>2 DEF RingIsLaid
<1>8. /\ left \in Trails
      /\ t.id \in DOMAIN left \/ (l = RingCapacity /\ items[1].id = t.id)
      /\ l # RingCapacity => DOMAIN left = DOMAIN trails \cup {t.id}
      /\ l = RingCapacity => DOMAIN left = (DOMAIN trails \cup {t.id}) \ {items[1].id}
  <2>1. PICK f \in Trails : f = Deposit(trails, t.id) /\ DOMAIN f = DOMAIN trails \cup {t.id}
    BY <1>5, TrailOperators
  <2>2. \A x : Forget(f, x) \in Trails /\ DOMAIN Forget(f, x) = DOMAIN f \ {x}
    BY <1>5, TrailOperators
  <2>3. l # RingCapacity => left = f
    BY <1>0, <1>1, <2>1 DEF LayDown
  <2>4. l = RingCapacity => left = Forget(f, items[1].id)
    <3>1. l = RingCapacity => Head(items) = items[1]
      BY <1>1, <1>c, HeadTailProperties
    <3> QED BY <1>0, <1>1, <2>1, <3>1 DEF LayDown
  <2>5. CASE l = RingCapacity
    <3>1. left \in Trails /\ DOMAIN left = DOMAIN f \ {items[1].id}
      BY <2>2, <2>4, <2>5
    <3> QED BY <2>1, <2>5, <3>1
  <2>6. CASE l # RingCapacity
    BY <2>1, <2>3, <2>6
  <2> QED BY <2>5, <2>6
<1>9. ASSUME NEW x PROVE x \in Ids(next) <=> x = t.id \/ \E i \in 1..k : x = items[l - k + i].id
  <2>1. x \in Ids(next) <=> \E i \in 1..(k + 1) : x = next[i].id
    BY <1>2 DEF Ids
  <2>2. \A i \in 1..(k + 1) : i = k + 1 \/ i \in 1..k
    OBVIOUS
  <2>3. k + 1 \in 1..(k + 1) /\ \A i \in 1..k : i \in 1..(k + 1)
    OBVIOUS
  <2> QED BY <1>2, <2>1, <2>2, <2>3
<1>10. ASSUME NEW x, x \in Ids(items), x \notin Ids(next) PROVE l = RingCapacity /\ x = items[1].id
  <2>1. PICK j \in 1..l : x = items[j].id
    BY <1>4, <1>10 DEF Ids
  <2>2. CASE j = 1 /\ l = RingCapacity
    BY <2>1, <2>2
  <2>3. CASE ~(j = 1 /\ l = RingCapacity)
    <3>1. PICK i \in 1..k : l - k + i = j
      <4>c. PICK c \in Nat \ {0} : c = RingCapacity
        BY <1>c
      <4>1. j - (l - k) \in 1..k /\ l - k + (j - (l - k)) = j
        <5>1. CASE l = c
          <6>1. k = l - 1 /\ j \in 2..l
            BY <1>1, <2>3, <4>c, <5>1
          <6> QED BY <6>1
        <5>2. CASE l # c
          <6>1. k = l
            BY <1>1, <4>c, <5>2
          <6> QED BY <6>1
        <5> QED BY <5>1, <5>2
      <4> QED BY <4>1
    <3> QED BY <1>9, <1>10, <2>1, <3>1
  <2> QED BY <2>2, <2>3
<1>11. DOMAIN left \subseteq Ids(next)
  <2>1. DOMAIN trails \subseteq Ids(items)
    BY DEF TrailsFollow
  <2>2. t.id \in Ids(next)
    BY <1>9
  <2> QED BY <1>8, <1>10, <2>1, <2>2
<1>12. ASSUME NEW x \in Ids(next) \ (gone \ {t.id}), Once(more, x) PROVE x \in DOMAIN left
  <2>1. PICK p \in 1..(d + 1) : \A j \in 1..(d + 1) : more[j] = x <=> j = p
    BY ZenonT(60), <1>6, <1>12 DEF Once
  <2>2. CASE x = t.id
    <3>1. p = d + 1
      <4>1. d + 1 \in 1..(d + 1)
        OBVIOUS
      <4> QED BY <1>6, <2>1, <2>2, <4>1
    <3>2. ASSUME l = RingCapacity PROVE items[1].id # x
      <4>1. 1 \in 1..l /\ d - l + 1 \in 1..d /\ d - l + 1 \in 1..(d + 1) /\ d - l + 1 # d + 1
        BY <1>c, <1>4, <3>2
      <4>2. items[1].id = more[d - l + 1]
        BY <1>4, <1>6, <4>1
      <4> QED BY <2>1, <3>1, <4>1, <4>2
    <3> QED BY <1>8, <2>2, <3>2
  <2>3. CASE x # t.id
    <3>1. PICK i \in 1..k : x = items[l - k + i].id
      BY <1>9, <1>12, <2>3
    <3>2. PICK j \in 1..l : j = l - k + i /\ x = items[j].id
      BY <1>2, <3>1
    <3>3. PICK h \in 1..d : h = d - l + j /\ x = ids[h]
      <4>1. d - l + j \in 1..d
        <5>1. l <= d
          BY <1>4
        <5> QED BY <5>1
      <4>2. items[j].id = ids[d - l + j]
        BY <1>4
      <4> QED BY <3>2, <4>1, <4>2
    <3>4. h = p /\ h \in 1..(d + 1)
      BY <1>6, <2>1, <3>3
    <3>5. Once(ids, x)
      <4>1. \A g \in 1..d : ids[g] = x <=> g = h
        BY <1>6, <2>1, <3>4
      <4>2. h \in DOMAIN ids /\ DOMAIN ids = 1..d
        BY <1>4
      <4> QED BY <4>1, <4>2 DEF Once
    <3>6. x \in Ids(items) /\ x \notin gone
      BY <1>4, <1>12, <2>3, <3>2 DEF Ids
    <3>7. x \in DOMAIN trails
      BY <3>5, <3>6 DEF TrailsFollow
    <3>8. ASSUME l = RingCapacity PROVE items[1].id # x
      <4>1. 1 \in 1..l /\ d - l + 1 \in 1..(d + 1) /\ d - l + 1 \in 1..d
        BY <1>c, <1>4, <3>8
      <4>2. j # 1 /\ h # d - l + 1
        <5>1. k = l - 1
          BY <1>1, <3>8
        <5>2. j # 1
          BY <3>2, <5>1
        <5> QED BY <3>3, <5>2
      <4>3. items[1].id = more[d - l + 1]
        BY <1>4, <1>6, <4>1
      <4> QED BY <2>1, <3>4, <4>1, <4>2, <4>3
    <3> QED BY <1>8, <3>7, <3>8
  <2> QED BY <2>2, <2>3
<1>13. TrailsFollow(next, left, more, gone \ {t.id})
  BY <1>7, <1>11, <1>12 DEF TrailsFollow
<1> QED BY <1>0, <1>1, <1>2, <1>8, <1>13

(* Lines that all read are traces.                                         *)
LEMMA ReadableLines ==
    ASSUME NEW S, NEW lines \in Seq(LinesOf(S)), Readable(lines)
    PROVE  lines \in Seq(TracesOf(S))
<1>1. \A i \in 1..Len(lines) : lines[i] \in TracesOf(S)
  <2>1. \A i \in 1..Len(lines) : lines[i] \in LinesOf(S) /\ i \in DOMAIN lines
    OBVIOUS
  <2> QED BY <2>1 DEF LinesOf, Readable
<1>2. lines \in [1..Len(lines) -> TracesOf(S)] /\ Len(lines) \in Nat
  BY <1>1
<1> QED BY <1>2, SeqDef

(* What a memory that opens reads, and the trails it lays.                 *)
LEMMA WhatIsLoaded ==
    ASSUME NEW S, file \in Seq(LinesOf(S)), Readable(file), HashesAreDigests
    PROVE  /\ Loaded \in Seq(TracesOf(S)) /\ Len(Loaded) <= RingCapacity
           /\ \A i \in DOMAIN Loaded : Digested(Loaded[i])
           /\ [id \in Ids(Loaded) |-> "fresh"] \in Trails
           /\ [i \in DOMAIN Loaded |-> Loaded[i].id] \in Seq(TraceIds)
           /\ TrailsFollow(Loaded, [id \in Ids(Loaded) |-> "fresh"],
                           [i \in DOMAIN Loaded |-> Loaded[i].id], {})
<1>c. PICK c \in Nat : c = RingCapacity
  BY TraceMemoryAssumption
<1>1. file \in Seq(TracesOf(S))
  BY ReadableLines
<1>2. PICK r : r = Loaded /\ r = LastItems(file, c)
  BY <1>c DEF Loaded, Newest, LastItems
<1>3. /\ r \in Seq(TracesOf(S))
      /\ \E l \in Nat, k \in Nat : /\ l = Len(file) /\ k = (IF c < l THEN c ELSE l)
                                   /\ IsEnd(r, file, l, k)
  <2>1. /\ LastItems(file, c) \in Seq(TracesOf(S))
        /\ \E l \in Nat, k \in Nat : /\ l = Len(file) /\ k = (IF c < l THEN c ELSE l)
                                     /\ IsEnd(LastItems(file, c), file, l, k)
    BY <1>1, LastItemsAre
  <2> QED BY <1>2, <2>1
<1>4. PICK l \in Nat, k \in Nat : /\ l = Len(file) /\ k = (IF c < l THEN c ELSE l)
                                  /\ IsEnd(r, file, l, k)
  BY <1>3
<1>5. /\ Len(r) = k /\ DOMAIN r = 1..k /\ k <= RingCapacity
      /\ \A i \in 1..k : l - k + i \in 1..l /\ r[i] = file[l - k + i]
  <2>1. Len(r) = k /\ \A i \in 1..k : l - k + i \in 1..l /\ r[i] = file[l - k + i]
    BY <1>4 DEF IsEnd
  <2>2. DOMAIN r = 1..k
    <3>1. r \in Seq(TracesOf(S)) /\ Len(r) = k
      BY <1>3, <2>1
    <3> QED BY <3>1
  <2>3. k <= RingCapacity
    <3>1. k <= c
      BY <1>4
    <3> QED BY <1>c, <3>1
  <2> QED BY <2>1, <2>2, <2>3
<1>6. \A i \in DOMAIN r : Digested(r[i])
  <2>1. \A i \in 1..l : Digested(file[i])
    <3>1. \A i \in 1..l : i \in DOMAIN file /\ file[i] \notin {Torn, Garbage}
      BY <1>4 DEF Readable
    <3> QED BY <3>1 DEF HashesAreDigests
  <2> QED BY <1>5, <2>1
<1>7. \A i \in 1..k : r[i].id \in TraceIds
  <2>1. \A i \in 1..k : r[i] \in TracesOf(S)
    BY <1>3, <1>5
  <2> QED BY <2>1 DEF TracesOf
<1>8. Ids(r) \subseteq TraceIds
  BY <1>5, <1>7 DEF Ids
<1>9. PICK f : f = [id \in Ids(r) |-> "fresh"]
  OBVIOUS
<1>10. f \in Trails /\ DOMAIN f = Ids(r)
  <2>1. f \in [Ids(r) -> {"fresh", "faded"}]
    BY <1>9
  <2> QED BY <1>8, <1>9, <2>1, TrailsAre
<1>11. PICK ids : ids = [i \in DOMAIN r |-> r[i].id]
  OBVIOUS
<1>12. ids \in Seq(TraceIds) /\ Len(ids) = k /\ \A i \in 1..k : ids[i] = r[i].id
  <2>1. ids \in [1..k -> TraceIds]
    BY <1>5, <1>7, <1>11
  <2>2. ids \in Seq(TraceIds)
    BY <2>1, SeqDef
  <2>3. Len(ids) = k
    BY <2>1, <2>2
  <2> QED BY <1>5, <1>11, <2>2, <2>3
<1>13. RingIsLaid(r, ids)
  <2>1. \A i \in 1..k : k - k + i = i
    OBVIOUS
  <2>2. \A i \in 1..k : r[i].id = ids[k - k + i]
    BY <1>12, <2>1
  <2>3. k <= k
    OBVIOUS
  <2> QED BY <1>5, <1>12, <2>2, <2>3 DEF RingIsLaid
<1>14. TrailsFollow(r, f, ids, {})
  BY <1>10, <1>13 DEF TrailsFollow
<1> QED BY <1>2, <1>3, <1>5, <1>6, <1>9, <1>10, <1>11, <1>12, <1>14

LEMMA MemoryOpens ==
    ASSUME MemoryIInv, NEW m \in Memories, Open(m)
    PROVE  MemoryIInv'
<1>1. PICK S : MemoryTyped(S)
  BY DEF MemoryIInv
<1>2. /\ HashesAreDigests /\ CalmMeans /\ MemoryIsTailOfChain
      /\ \A n \in up : TrailsFollow(ring[n], trail[n], laid[n], pruned[n])
  BY DEF MemoryIInv
<1>3. /\ up' = up \cup {m} /\ file' = file /\ recorded' = recorded /\ mishaps' = mishaps
      /\ calm' = (calm /\ up = {}) /\ Readable(file)
  BY DEF Open
<1>4. PICK r, f, ids : /\ r = Loaded /\ f = [id \in Ids(Loaded) |-> "fresh"]
                       /\ ids = [i \in DOMAIN Loaded |-> Loaded[i].id]
  OBVIOUS
<1>5. /\ r \in Seq(TracesOf(S)) /\ Len(r) <= RingCapacity /\ f \in Trails /\ ids \in Seq(TraceIds)
      /\ \A i \in DOMAIN r : Digested(r[i])
      /\ TrailsFollow(r, f, ids, {})
  BY <1>1, <1>2, <1>3, <1>4, WhatIsLoaded DEF MemoryTyped
<1>6. /\ ring' = [ring EXCEPT ![m] = r] /\ trail' = [trail EXCEPT ![m] = f]
      /\ laid' = [laid EXCEPT ![m] = ids] /\ pruned' = [pruned EXCEPT ![m] = {}]
  BY <1>4 DEF Open
<1>7. /\ ring \in [Memories -> Seq(TracesOf(S))] /\ trail \in [Memories -> Trails]
      /\ laid \in [Memories -> Seq(TraceIds)] /\ pruned \in [Memories -> SUBSET TraceIds]
  BY <1>1 DEF MemoryTyped
<1>8. /\ ring'[m] = r /\ trail'[m] = f /\ laid'[m] = ids /\ pruned'[m] = {}
      /\ \A n \in Memories \ {m} : /\ ring'[n] = ring[n] /\ trail'[n] = trail[n]
                                   /\ laid'[n] = laid[n] /\ pruned'[n] = pruned[n]
  BY <1>6, <1>7
<1>9. MemoryTyped(S)'
  <2>1. /\ ring' \in [Memories -> Seq(TracesOf(S))] /\ trail' \in [Memories -> Trails]
        /\ laid' \in [Memories -> Seq(TraceIds)] /\ pruned' \in [Memories -> SUBSET TraceIds]
    BY <1>5, <1>6, <1>7
  <2>2. \A n \in Memories : Len(ring'[n]) <= RingCapacity
    BY <1>1, <1>5, <1>8 DEF MemoryTyped
  <2>3. /\ up' \subseteq Memories /\ recorded' \in 0..MaxRecorded /\ mishaps' \in 0..MaxMishaps
        /\ calm' \in BOOLEAN /\ file' \in Seq(LinesOf(S))
    BY <1>1, <1>3 DEF MemoryTyped
  <2> QED BY <2>1, <2>2, <2>3 DEF MemoryTyped
<1>10. HashesAreDigests'
  <2>1. \A n \in Memories : \A i \in DOMAIN ring'[n] : Digested(ring'[n][i])
    BY <1>2, <1>5, <1>8 DEF HashesAreDigests
  <2> QED BY <1>2, <1>3, <2>1 DEF HashesAreDigests, Digested
<1>11. CalmMeans'
  BY <1>2, <1>3 DEF CalmMeans, Readable
<1>12. MemoryIsTailOfChain'
  <2>1. SUFFICES ASSUME calm'
                 PROVE  /\ \A n \in up' : ring'[n] = Newest(file', RingCapacity)
                        /\ \A i \in DOMAIN file' :
                              file'[i].parent = (IF i = 1 THEN NoParentHash ELSE file'[i - 1].hash)
    BY DEF MemoryIsTailOfChain, Newest
  <2>2. calm /\ up' = {m}
    BY <1>3, <2>1
  <2>3. r = Newest(file, RingCapacity)
    BY <1>4 DEF Loaded
  <2> QED BY <1>2, <1>3, <1>8, <2>2, <2>3 DEF MemoryIsTailOfChain
<1>13. \A n \in up' : TrailsFollow(ring'[n], trail'[n], laid'[n], pruned'[n])
  <2>1. \A n \in up \ {m} : n \in Memories \ {m}
    BY <1>1 DEF MemoryTyped
  <2> QED BY <1>2, <1>3, <1>5, <1>8, <2>1
<1>14. MemoryIInv' <=> /\ (\E R : MemoryTyped(R))'
                       /\ HashesAreDigests' /\ CalmMeans' /\ MemoryIsTailOfChain'
                       /\ \A n \in up' : TrailsFollow(ring'[n], trail'[n], laid'[n], pruned'[n])
  BY DEF MemoryIInv, TrailsFollow, RingIsLaid, Ids, Once
<1> QED BY <1>9, <1>10, <1>11, <1>12, <1>13, <1>14

LEMMA MemoryCloses ==
    ASSUME MemoryIInv, NEW m \in Memories, Close(m)
    PROVE  MemoryIInv'
<1>1. PICK S : MemoryTyped(S)
  BY DEF MemoryIInv
<1>2. /\ HashesAreDigests /\ CalmMeans /\ MemoryIsTailOfChain
      /\ \A n \in up : TrailsFollow(ring[n], trail[n], laid[n], pruned[n])
  BY DEF MemoryIInv
<1>3. /\ up' = up \ {m} /\ file' = file /\ recorded' = recorded /\ calm' = calm
      /\ mishaps < MaxMishaps /\ mishaps' = mishaps + 1
  BY DEF Close, Mishap
<1>4. PICK f : f = [id \in {} |-> "fresh"]
  OBVIOUS
<1>5. f \in Trails
  <2>1. f \in [{} -> {"fresh", "faded"}] /\ {} \in SUBSET TraceIds
    BY <1>4
  <2> QED BY <2>1, TrailsAre
<1>6. /\ ring' = [ring EXCEPT ![m] = <<>>] /\ trail' = [trail EXCEPT ![m] = f]
      /\ laid' = [laid EXCEPT ![m] = <<>>] /\ pruned' = [pruned EXCEPT ![m] = {}]
  BY <1>4 DEF Close
<1>7. /\ ring \in [Memories -> Seq(TracesOf(S))] /\ trail \in [Memories -> Trails]
      /\ laid \in [Memories -> Seq(TraceIds)] /\ pruned \in [Memories -> SUBSET TraceIds]
  BY <1>1 DEF MemoryTyped
<1>8. /\ ring'[m] = <<>>
      /\ \A n \in Memories \ {m} : /\ ring'[n] = ring[n] /\ trail'[n] = trail[n]
                                   /\ laid'[n] = laid[n] /\ pruned'[n] = pruned[n]
  BY <1>6, <1>7
<1>9. MemoryTyped(S)'
  <2>1. /\ ring' \in [Memories -> Seq(TracesOf(S))] /\ trail' \in [Memories -> Trails]
        /\ laid' \in [Memories -> Seq(TraceIds)] /\ pruned' \in [Memories -> SUBSET TraceIds]
    BY <1>5, <1>6, <1>7
  <2>2. \A n \in Memories : Len(ring'[n]) <= RingCapacity
    <3>1. Len(<<>>) <= RingCapacity
      BY TraceMemoryAssumption
    <3> QED BY <1>1, <1>8, <3>1 DEF MemoryTyped
  <2>3. mishaps' \in 0..MaxMishaps
    BY <1>1, <1>3, TraceMemoryAssumption DEF MemoryTyped
  <2>4. up' \subseteq Memories /\ recorded' \in 0..MaxRecorded /\ calm' \in BOOLEAN
        /\ file' \in Seq(LinesOf(S))
    BY <1>1, <1>3 DEF MemoryTyped
  <2> QED BY <2>1, <2>2, <2>3, <2>4 DEF MemoryTyped
<1>10. HashesAreDigests'
  <2>1. \A n \in Memories : \A i \in DOMAIN ring'[n] : Digested(ring'[n][i])
    <3>1. \A i \in DOMAIN ring'[m] : Digested(ring'[m][i])
      BY <1>8
    <3> QED BY <1>2, <1>8, <3>1 DEF HashesAreDigests
  <2> QED BY <1>2, <1>3, <2>1 DEF HashesAreDigests, Digested
<1>11. CalmMeans'
  BY <1>2, <1>3 DEF CalmMeans, Readable
<1>12. \A n \in up' : n \in up /\ n \in Memories \ {m}
  BY <1>1, <1>3 DEF MemoryTyped
<1>13. MemoryIsTailOfChain'
  <2>1. \A n \in up' : ring'[n] = ring[n]
    BY <1>8, <1>12
  <2> QED BY <1>2, <1>3, <1>12, <2>1 DEF MemoryIsTailOfChain, Newest
<1>14. \A n \in up' : TrailsFollow(ring'[n], trail'[n], laid'[n], pruned'[n])
  BY <1>2, <1>8, <1>12
<1> QED BY <1>9, <1>10, <1>11, <1>13, <1>14
        DEF MemoryIInv, TrailsFollow, RingIsLaid, Ids, Once

(* Traces and lines that say their hashes.                                 *)
SoundTraces(S) == {t \in TracesOf(S) : Digested(t)}
SoundLines(S) == {t \in LinesOf(S) : t \in {Torn, Garbage} \/ Digested(t)}

LEMMA SoundSequences ==
    ASSUME NEW S
    PROVE  /\ \A s \in Seq(TracesOf(S)) :
                  (\A i \in DOMAIN s : Digested(s[i])) => s \in Seq(SoundTraces(S))
           /\ \A s \in Seq(SoundTraces(S)) :
                  s \in Seq(TracesOf(S)) /\ \A i \in DOMAIN s : Digested(s[i])
           /\ \A s \in Seq(LinesOf(S)) :
                  (\A i \in DOMAIN s : s[i] \in {Torn, Garbage} \/ Digested(s[i]))
                  => s \in Seq(SoundLines(S))
           /\ \A s \in Seq(SoundLines(S)) :
                  /\ s \in Seq(LinesOf(S))
                  /\ \A i \in DOMAIN s : s[i] \in {Torn, Garbage} \/ Digested(s[i])
<1>1. ASSUME NEW T, NEW R, NEW s \in Seq(T), \A i \in 1..Len(s) : s[i] \in T => s[i] \in R
      PROVE  s \in Seq(R)
  <2>1. s \in [1..Len(s) -> R] /\ Len(s) \in Nat
    <3>1. \A i \in 1..Len(s) : s[i] \in T
      OBVIOUS
    <3> QED BY <1>1, <3>1
  <2> QED BY <2>1, SeqDef
<1>2. ASSUME NEW s \in Seq(TracesOf(S)), \A i \in DOMAIN s : Digested(s[i])
      PROVE  s \in Seq(SoundTraces(S))
  <2>1. \A i \in 1..Len(s) : s[i] \in TracesOf(S) => s[i] \in SoundTraces(S)
    BY <1>2 DEF SoundTraces
  <2> QED BY <1>1, <2>1
<1>3. ASSUME NEW s \in Seq(SoundTraces(S))
      PROVE  s \in Seq(TracesOf(S)) /\ \A i \in DOMAIN s : Digested(s[i])
  <2>1. \A i \in 1..Len(s) : s[i] \in SoundTraces(S)
    OBVIOUS
  <2>2. \A i \in 1..Len(s) : s[i] \in TracesOf(S) /\ Digested(s[i])
    BY <2>1 DEF SoundTraces
  <2>3. s \in Seq(TracesOf(S))
    BY <1>1, <2>2
  <2> QED BY <2>2, <2>3
<1>4. ASSUME NEW s \in Seq(LinesOf(S)),
             \A i \in DOMAIN s : s[i] \in {Torn, Garbage} \/ Digested(s[i])
      PROVE  s \in Seq(SoundLines(S))
  <2>1. \A i \in 1..Len(s) : s[i] \in LinesOf(S) => s[i] \in SoundLines(S)
    BY <1>4 DEF SoundLines
  <2> QED BY <1>1, <2>1
<1>5. ASSUME NEW s \in Seq(SoundLines(S))
      PROVE  /\ s \in Seq(LinesOf(S))
             /\ \A i \in DOMAIN s : s[i] \in {Torn, Garbage} \/ Digested(s[i])
  <2>1. \A i \in 1..Len(s) : s[i] \in SoundLines(S)
    OBVIOUS
  <2>2. \A i \in 1..Len(s) :
           s[i] \in LinesOf(S) /\ (s[i] \in {Torn, Garbage} \/ Digested(s[i]))
    BY <2>1 DEF SoundLines
  <2>3. s \in Seq(LinesOf(S))
    BY <1>1, <2>2
  <2> QED BY <2>2, <2>3
<1> QED BY <1>2, <1>3, <1>4, <1>5

(* A line is written behind the others, or spoils the torn one before it.  *)
LEMMA LinesWritten ==
    ASSUME NEW X, NEW lines \in Seq(X), NEW line \in X, Garbage \in X
    PROVE  /\ WriteLine(lines, line) \in Seq(X)
           /\ Readable(lines) => WriteLine(lines, line) = Append(lines, line)
<1>1. CASE lines # <<>> /\ Last(lines) = Torn
  <2>1. PICK l \in Nat : l = Len(lines) /\ l # 0 /\ DOMAIN lines = 1..l
    BY <1>1
  <2>2. PICK f : f = Front(lines) /\ f = SubSeq(lines, 1, l - 1)
    BY <2>1 DEF Front
  <2>3. f \in Seq(X)
    <3>1. \A i \in 1..(l - 1) : lines[i] \in X
      BY <2>1
    <3> QED BY <2>2, <3>1, SubSeqProperties
  <2>4. WriteLine(lines, line) = Append(f, Garbage)
    BY <1>1, <2>2 DEF WriteLine
  <2>5. ~Readable(lines)
    BY <1>1, <2>1 DEF Readable, Last
  <2> QED BY <2>3, <2>4, <2>5, AppendProperties
<1>2. CASE ~(lines # <<>> /\ Last(lines) = Torn)
  <2>1. WriteLine(lines, line) = Append(lines, line)
    BY <1>2 DEF WriteLine
  <2> QED BY <2>1, AppendProperties
<1> QED BY <1>1, <1>2

(* Traces that grow are typed by more hashes.                              *)
LEMMA MemoryTypedByMore ==
    ASSUME NEW S, NEW R, S \subseteq R, MemoryTyped(S)
    PROVE  MemoryTyped(R)
<1>1. /\ ring \in [Memories -> Seq(TracesOf(S))] /\ file \in Seq(LinesOf(S))
  BY DEF MemoryTyped
<1>2. file \in Seq(LinesOf(R))
  BY <1>1, TracesGrow
<1>3. ring \in [Memories -> Seq(TracesOf(R))]
  <2>1. \A n \in Memories : ring[n] \in Seq(TracesOf(S))
    BY <1>1
  <2>2. \A n \in Memories : ring[n] \in Seq(TracesOf(R))
    BY <2>1, TracesGrow
  <2> QED BY <1>1, <2>2
<1> QED BY <1>2, <1>3 DEF MemoryTyped

(* The new trace names the newest of the ring as its parent.               *)
LEMMA TraceIsNew ==
    ASSUME NEW S, NEW m \in Memories, ring[m] \in Seq(TracesOf(S)), NEW id \in TraceIds,
           NEW dual \in BOOLEAN
    PROVE  \E R : /\ S \subseteq R
                  /\ NewTrace(m, id, dual) \in TracesOf(R)
                  /\ Digested(NewTrace(m, id, dual))
                  /\ NewTrace(m, id, dual).id = id
                  /\ NewTrace(m, id, dual).parent = RootOf(ring[m])
<1>1. PICK p, h : p = RootOf(ring[m]) /\ h = Digest(Payload(id, dual), p)
  OBVIOUS
<1>2. PICK t : t = NewTrace(m, id, dual)
  OBVIOUS
<1>3. t = [id |-> id, dual |-> dual, parent |-> p, hash |-> h]
  BY <1>1, <1>2 DEF NewTrace
<1>4. PICK R : R = S \cup {p, h}
  OBVIOUS
<1>5. t \in TracesOf(R) /\ t.id = id /\ t.parent = p
  BY <1>3, <1>4 DEF TracesOf
<1>6. Digested(t)
  BY <1>1, <1>3 DEF Digested
<1> QED BY <1>1, <1>2, <1>4, <1>5, <1>6

(* Each line names the line before it.                                     *)
ChainedLines(lines) ==
    \A i \in DOMAIN lines :
        lines[i].parent = (IF i = 1 THEN NoParentHash ELSE lines[i - 1].hash)

(* A trace whose parent is the newest of the ring, which is the newest of  *)
(* the file, prolongs both.                                                *)
LEMMA FileChainGrows ==
    ASSUME NEW S, NEW lines \in Seq(TracesOf(S)), NEW t \in TracesOf(S),
           NEW items, items = Newest(lines, RingCapacity), t.parent = RootOf(items),
           ChainedLines(lines)
    PROVE  /\ PushTrace(items, t) = Newest(Append(lines, t), RingCapacity)
           /\ ChainedLines(Append(lines, t))
<1>c. PICK c \in Nat \ {0} : c = RingCapacity
  BY TraceMemoryAssumption
<1>1. items = LastItems(lines, c)
  BY <1>c DEF Newest, LastItems
<1>2. PushTrace(items, t) = Newest(Append(lines, t), RingCapacity)
  <2>1. RingTakes(LastItems(lines, c), c, t) = LastItems(Append(lines, t), c)
    BY RingStaysNewest
  <2>2. PushTrace(items, t) = RingTakes(items, c, t)
    BY <1>c DEF PushTrace, RingTakes
  <2>3. LastItems(Append(lines, t), c) = Newest(Append(lines, t), RingCapacity)
    BY <1>c DEF Newest, LastItems
  <2> QED BY <1>1, <2>1, <2>2, <2>3
<1>3. /\ items \in Seq(TracesOf(S))
      /\ \E l \in Nat, k \in Nat : /\ l = Len(lines) /\ k = (IF c < l THEN c ELSE l)
                                   /\ IsEnd(items, lines, l, k)
  <2>1. /\ LastItems(lines, c) \in Seq(TracesOf(S))
        /\ \E l \in Nat, k \in Nat : /\ l = Len(lines) /\ k = (IF c < l THEN c ELSE l)
                                     /\ IsEnd(LastItems(lines, c), lines, l, k)
    BY LastItemsAre
  <2> QED BY <1>1, <2>1
<1>4. PICK l \in Nat, k \in Nat : /\ l = Len(lines) /\ k = (IF c < l THEN c ELSE l)
                                  /\ IsEnd(items, lines, l, k)
  BY <1>3
<1>5. PICK more : more = Append(lines, t)
  OBVIOUS
<1>6. /\ more \in Seq(TracesOf(S)) /\ DOMAIN more = 1..(l + 1) /\ more[l + 1] = t
      /\ \A i \in 1..l : more[i] = lines[i]
  BY <1>4, <1>5, AppendProperties
<1>7. Len(items) = k /\ \A i \in 1..k : l - k + i \in 1..l /\ items[i] = lines[l - k + i]
  BY <1>4 DEF IsEnd
<1>8. t.parent = (IF l = 0 THEN NoParentHash ELSE lines[l].hash)
  <2>1. CASE l = 0
    <3>1. items = <<>>
      BY <1>3, <1>4, <1>7, <2>1
    <3> QED BY <2>1, <3>1 DEF RootOf
  <2>2. CASE l # 0
    <3>1. k \in 1..k /\ l - k + k = l
      BY <1>4, <2>2
    <3>2. items[k] = lines[l]
      BY <1>7, <3>1
    <3>3. items # <<>>
      BY <1>7, <3>1
    <3>4. RootOf(items) = items[k].hash
      BY <1>7, <3>3 DEF RootOf, Last
    <3> QED BY <2>2, <3>2, <3>4
  <2> QED BY <2>1, <2>2
<1>9. ASSUME NEW i \in 1..(l + 1)
      PROVE  more[i].parent = (IF i = 1 THEN NoParentHash ELSE more[i - 1].hash)
  <2>1. CASE i = l + 1
    <3>1. CASE l = 0
      BY <1>6, <1>8, <2>1, <3>1
    <3>2. CASE l # 0
      <4>1. i # 1 /\ i - 1 = l /\ l \in 1..l
        BY <2>1, <3>2
      <4>2. more[l] = lines[l]
        BY <1>6, <4>1
      <4> QED BY <1>6, <1>8, <2>1, <3>2, <4>1, <4>2
    <3> QED BY <3>1, <3>2
  <2>2. CASE i # l + 1
    <3>1. i \in 1..l /\ (i = 1 \/ i - 1 \in 1..l)
      BY <2>2
    <3>2. more[i] = lines[i] /\ (i = 1 \/ more[i - 1] = lines[i - 1])
      BY <1>6, <3>1
    <3>3. lines[i].parent = (IF i = 1 THEN NoParentHash ELSE lines[i - 1].hash)
      <4>1. i \in DOMAIN lines
        BY <1>4, <3>1
      <4> QED BY <4>1 DEF ChainedLines
    <3> QED BY <3>2, <3>3
  <2> QED BY <2>1, <2>2
<1>10. ChainedLines(more)
  BY <1>6, <1>9 DEF ChainedLines
<1> QED BY <1>2, <1>5, <1>10

LEMMA MemoryRecords ==
    ASSUME MemoryIInv, NEW m \in Memories, NEW id \in TraceIds, NEW dual \in BOOLEAN,
           RecordTraceInto(m, id, dual)
    PROVE  MemoryIInv'
<1>1. PICK S : MemoryTyped(S)
  BY DEF MemoryIInv
<1>2. /\ HashesAreDigests /\ CalmMeans /\ MemoryIsTailOfChain
      /\ \A n \in up : TrailsFollow(ring[n], trail[n], laid[n], pruned[n])
  BY DEF MemoryIInv
<1>3. PICK t : t = NewTrace(m, id, dual)
  OBVIOUS
<1>4. PICK R : S \subseteq R /\ t \in TracesOf(R) /\ Digested(t) /\ t.id = id /\ t.parent = RootOf(ring[m])
  <2>1. ring[m] \in Seq(TracesOf(S))
    BY <1>1 DEF MemoryTyped
  <2>2. \E R : /\ S \subseteq R
               /\ NewTrace(m, id, dual) \in TracesOf(R)
               /\ Digested(NewTrace(m, id, dual))
               /\ NewTrace(m, id, dual).id = id
               /\ NewTrace(m, id, dual).parent = RootOf(ring[m])
    BY <2>1, TraceIsNew
  <2> QED BY <1>3, <2>2
<1>5. MemoryTyped(R)
  BY <1>1, <1>4, MemoryTypedByMore
<1>6. /\ ring \in [Memories -> Seq(TracesOf(R))] /\ trail \in [Memories -> Trails]
      /\ laid \in [Memories -> Seq(TraceIds)] /\ pruned \in [Memories -> SUBSET TraceIds]
      /\ file \in Seq(LinesOf(R)) /\ \A n \in Memories : Len(ring[n]) <= RingCapacity
  BY <1>5 DEF MemoryTyped
<1>7. m \in up /\ up' = up /\ recorded < MaxRecorded /\ recorded' = recorded + 1
  BY DEF RecordTraceInto
<1>8. PICK r, f, ids, gone : /\ r = PushTrace(ring[m], t) /\ f = LayDown(trail[m], ring[m], t)
                             /\ ids = Append(laid[m], t.id) /\ gone = pruned[m] \ {t.id}
  OBVIOUS
<1>9. /\ ring' = [ring EXCEPT ![m] = r] /\ trail' = [trail EXCEPT ![m] = f]
      /\ laid' = [laid EXCEPT ![m] = ids] /\ pruned' = [pruned EXCEPT ![m] = gone]
  BY <1>3, <1>4, <1>8 DEF RecordTraceInto
<1>10. r \in Seq(TracesOf(R)) /\ Len(r) <= RingCapacity /\ f \in Trails /\ TrailsFollow(r, f, ids, gone)
  <2>1. PICK items, trails, old, off : /\ items = ring[m] /\ trails = trail[m]
                                       /\ old = laid[m] /\ off = pruned[m]
    OBVIOUS
  <2>2. /\ items \in Seq(TracesOf(R)) /\ trails \in Trails /\ old \in Seq(TraceIds)
        /\ TrailsFollow(items, trails, old, off) /\ Len(items) <= RingCapacity
    BY <1>2, <1>6, <1>7, <2>1
  <2>3. /\ PushTrace(items, t) \in Seq(TracesOf(R)) /\ Len(PushTrace(items, t)) <= RingCapacity
        /\ LayDown(trails, items, t) \in Trails
        /\ TrailsFollow(PushTrace(items, t), LayDown(trails, items, t), Append(old, t.id),
                        off \ {t.id})
    BY <1>4, <2>2, LaidDown
  <2> QED BY <1>8, <2>1, <2>3
<1>11. /\ ids \in Seq(TraceIds) /\ gone \in SUBSET TraceIds
  <2>1. laid[m] \in Seq(TraceIds) /\ pruned[m] \in SUBSET TraceIds
    BY <1>6
  <2> QED BY <1>4, <1>8, <2>1, AppendProperties
<1>12. /\ ring'[m] = r /\ trail'[m] = f /\ laid'[m] = ids /\ pruned'[m] = gone
       /\ \A n \in Memories \ {m} : /\ ring'[n] = ring[n] /\ trail'[n] = trail[n]
                                    /\ laid'[n] = laid[n] /\ pruned'[n] = pruned[n]
  BY <1>6, <1>9
<1>13. \A i \in DOMAIN r : Digested(r[i])
  <2>1. PICK items : items = ring[m]
    OBVIOUS
  <2>2. items \in Seq(SoundTraces(R)) /\ Len(items) <= RingCapacity
    BY <1>2, <1>6, <2>1, SoundSequences DEF HashesAreDigests
  <2>3. t \in SoundTraces(R)
    BY <1>4 DEF SoundTraces
  <2>4. PICK c \in Nat \ {0} : c = RingCapacity
    BY TraceMemoryAssumption
  <2>5. RingTakes(items, c, t) \in Seq(SoundTraces(R))
    BY <2>2, <2>3, <2>4, RingTook
  <2>6. r = RingTakes(items, c, t)
    BY <1>8, <2>1, <2>4 DEF PushTrace, RingTakes
  <2> QED BY <2>5, <2>6, SoundSequences
<1>14. \/ file' = WriteLine(file, t) /\ mishaps' = mishaps /\ calm' = calm
       \/ /\ file' \in {file, WriteLine(file, Torn)} /\ calm' = FALSE
          /\ mishaps < MaxMishaps /\ mishaps' = mishaps + 1
  BY <1>3 DEF RecordTraceInto, Mishap
<1>15. file \in Seq(SoundLines(R))
  BY <1>2, <1>6, SoundSequences DEF HashesAreDigests
<1>16. file' \in Seq(SoundLines(R))
  <2>1. Garbage \in SoundLines(R) /\ Torn \in SoundLines(R) /\ t \in SoundLines(R)
    BY <1>4 DEF SoundLines, LinesOf
  <2>2. WriteLine(file, t) \in Seq(SoundLines(R)) /\ WriteLine(file, Torn) \in Seq(SoundLines(R))
    BY <1>15, <2>1, LinesWritten
  <2> QED BY <1>14, <1>15, <2>2
<1>17. file' \in Seq(LinesOf(R)) /\ \A i \in DOMAIN file' : file'[i] \in {Torn, Garbage} \/ Digested(file'[i])
  BY <1>16, SoundSequences
<1>18. MemoryTyped(R)'
  <2>1. /\ ring' \in [Memories -> Seq(TracesOf(R))] /\ trail' \in [Memories -> Trails]
        /\ laid' \in [Memories -> Seq(TraceIds)] /\ pruned' \in [Memories -> SUBSET TraceIds]
    BY <1>6, <1>9, <1>10, <1>11
  <2>2. \A n \in Memories : Len(ring'[n]) <= RingCapacity
    BY <1>6, <1>10, <1>12
  <2>3. recorded' \in 0..MaxRecorded /\ mishaps' \in 0..MaxMishaps /\ calm' \in BOOLEAN
    <3>1. recorded \in 0..MaxRecorded /\ mishaps \in 0..MaxMishaps /\ calm \in BOOLEAN
      BY <1>5 DEF MemoryTyped
    <3>2. MaxRecorded \in Nat /\ MaxMishaps \in Nat
      BY TraceMemoryAssumption
    <3>3. recorded' \in 0..MaxRecorded
      BY <1>7, <3>1, <3>2
    <3>4. mishaps' \in 0..MaxMishaps
      BY <1>14, <3>1, <3>2
    <3>5. calm' \in BOOLEAN
      BY <1>14, <3>1
    <3> QED BY <3>3, <3>4, <3>5
  <2>4. up' \subseteq Memories
    BY <1>5, <1>7 DEF MemoryTyped
  <2> QED BY <1>17, <2>1, <2>2, <2>3, <2>4 DEF MemoryTyped
<1>19. HashesAreDigests'
  <2>1. \A n \in Memories : \A i \in DOMAIN ring'[n] : Digested(ring'[n][i])
    BY <1>2, <1>12, <1>13 DEF HashesAreDigests
  <2> QED BY <1>17, <2>1 DEF HashesAreDigests, Digested
<1>20. ASSUME calm'
       PROVE  /\ Readable(file') /\ up = {m} /\ r = Newest(file', RingCapacity)
              /\ ChainedLines(file')
  <2>1. calm /\ Readable(file) /\ file' = WriteLine(file, t)
    BY <1>2, <1>14, <1>20 DEF CalmMeans
  <2>2. file' = Append(file, t)
    <3>1. Garbage \in LinesOf(R) /\ t \in LinesOf(R)
      BY <1>4 DEF LinesOf
    <3> QED BY <1>6, <2>1, <3>1, LinesWritten
  <2>3. PICK lines, items : lines = file /\ items = ring[m]
    OBVIOUS
  <2>4. lines \in Seq(TracesOf(R))
    BY <1>6, <2>1, <2>3, ReadableLines
  <2>5. items = Newest(lines, RingCapacity) /\ ChainedLines(lines)
    BY <1>2, <1>7, <2>1, <2>3 DEF MemoryIsTailOfChain, ChainedLines
  <2>6. /\ PushTrace(items, t) = Newest(Append(lines, t), RingCapacity)
        /\ ChainedLines(Append(lines, t))
    BY <1>4, <2>3, <2>4, <2>5, FileChainGrows
  <2>7. PICK more : more = Append(lines, t)
    OBVIOUS
  <2>8. Readable(more)
    <3>1. more \in Seq(TracesOf(R))
      BY <1>4, <2>4, <2>7, AppendProperties
    <3>2. \A i \in DOMAIN more : more[i] \in TracesOf(R)
      BY <3>1
    <3> QED BY <3>2, TracesAreNoGarbage DEF Readable
  <2>9. up = {m}
    BY <1>2, <1>7, <2>1 DEF CalmMeans
  <2> QED BY <1>8, <2>2, <2>3, <2>6, <2>7, <2>8, <2>9
<1>21. CalmMeans'
  <2>1. calm' => Readable(file') /\ \A n, k \in up' : n = k
    BY <1>7, <1>20
  <2> QED BY <2>1 DEF CalmMeans, Readable
<1>22. MemoryIsTailOfChain'
  <2>1. calm' => /\ \A n \in up' : ring'[n] = Newest(file', RingCapacity)
                 /\ ChainedLines(file')
    BY <1>7, <1>12, <1>20
  <2> QED BY <2>1 DEF MemoryIsTailOfChain, ChainedLines, Newest
<1>23. \A n \in up' : TrailsFollow(ring'[n], trail'[n], laid'[n], pruned'[n])
  <2>1. \A n \in up \ {m} : n \in Memories \ {m}
    BY <1>5 DEF MemoryTyped
  <2> QED BY <1>2, <1>7, <1>10, <1>12, <2>1
<1> QED BY <1>18, <1>19, <1>21, <1>22, <1>23
        DEF MemoryIInv, TrailsFollow, RingIsLaid, Ids, Once

(* Trails change, and the traces that lose theirs are pruned.              *)
LEMMA TrailsChange ==
    ASSUME MemoryIInv, NEW m \in up, NEW f \in Trails, NEW gone \in SUBSET TraceIds,
           DOMAIN f \subseteq DOMAIN trail[m], pruned[m] \subseteq gone,
           DOMAIN trail[m] \ DOMAIN f \subseteq gone,
           trail' = [trail EXCEPT ![m] = f], pruned' = [pruned EXCEPT ![m] = gone],
           UNCHANGED <<up, ring, file, recorded, mishaps, calm, laid>>
    PROVE  MemoryIInv'
<1>1. PICK S : MemoryTyped(S)
  BY DEF MemoryIInv
<1>2. /\ HashesAreDigests /\ CalmMeans /\ MemoryIsTailOfChain
      /\ \A n \in up : TrailsFollow(ring[n], trail[n], laid[n], pruned[n])
  BY DEF MemoryIInv
<1>3. trail \in [Memories -> Trails] /\ pruned \in [Memories -> SUBSET TraceIds] /\ m \in Memories
  BY <1>1 DEF MemoryTyped
<1>4. /\ trail'[m] = f /\ pruned'[m] = gone
      /\ \A n \in Memories \ {m} : trail'[n] = trail[n] /\ pruned'[n] = pruned[n]
  BY <1>3
<1>5. MemoryTyped(S)'
  <2>1. trail' \in [Memories -> Trails] /\ pruned' \in [Memories -> SUBSET TraceIds]
    BY <1>3
  <2> QED BY <1>1, <2>1 DEF MemoryTyped
<1>6. HashesAreDigests' /\ CalmMeans' /\ MemoryIsTailOfChain'
  BY <1>2 DEF HashesAreDigests, CalmMeans, MemoryIsTailOfChain, Digested, Readable, Newest
<1>7. \A n \in up' : TrailsFollow(ring'[n], trail'[n], laid'[n], pruned'[n])
  <2>1. TrailsFollow(ring[m], f, laid[m], gone)
    BY <1>2 DEF TrailsFollow
  <2>2. \A n \in up \ {m} : n \in Memories \ {m}
    BY <1>1 DEF MemoryTyped
  <2> QED BY <1>2, <1>4, <2>1, <2>2
<1> QED BY <1>5, <1>6, <1>7 DEF MemoryIInv, TrailsFollow, RingIsLaid, Ids, Once

LEMMA TrailIsRefreshed ==
    ASSUME MemoryIInv, NEW m \in Memories, NEW id \in TraceIds,
           ReinforceTrail(m, id) \/ Evaporate(m, id)
    PROVE  MemoryIInv'
<1>1. PICK S : MemoryTyped(S)
  BY DEF MemoryIInv
<1>2. trail \in [Memories -> Trails] /\ pruned \in [Memories -> SUBSET TraceIds]
  BY <1>1 DEF MemoryTyped
<1>3. PICK old : old = trail[m]
  OBVIOUS
<1>4. PICK how \in {"fresh", "faded"} : trail' = [trail EXCEPT ![m] = [old EXCEPT ![id] = how]]
  BY <1>3 DEF ReinforceTrail, Evaporate
<1>5. m \in up /\ UNCHANGED <<up, ring, file, recorded, mishaps, calm, laid, pruned>>
  BY DEF ReinforceTrail, Evaporate
<1>6. PICK f : f = [old EXCEPT ![id] = how]
  OBVIOUS
<1>7. f \in Trails /\ DOMAIN f = DOMAIN old
  <2>1. old \in Trails
    BY <1>2, <1>3
  <2>2. DOMAIN old \in SUBSET TraceIds /\ old \in [DOMAIN old -> {"fresh", "faded"}]
    BY <2>1, TrailsAre
  <2>3. f \in [DOMAIN old -> {"fresh", "faded"}]
    BY <1>6, <2>2
  <2> QED BY <2>2, <2>3, TrailsAre
<1>8. pruned' = [pruned EXCEPT ![m] = pruned[m]] /\ pruned[m] \in SUBSET TraceIds
  BY <1>2, <1>5
<1>9. DOMAIN f \subseteq DOMAIN trail[m] /\ DOMAIN trail[m] \ DOMAIN f \subseteq pruned[m]
  BY <1>3, <1>7
<1>10. trail' = [trail EXCEPT ![m] = f] /\ UNCHANGED <<up, ring, file, recorded, mishaps, calm, laid>>
  BY <1>4, <1>5, <1>6
<1>11. PICK gone \in SUBSET TraceIds : gone = pruned[m]
  BY <1>8
<1> QED BY <1>5, <1>7, <1>8, <1>9, <1>10, <1>11, TrailsChange

LEMMA FadedTracesArePruned ==
    ASSUME MemoryIInv, NEW m \in Memories, PruneFaded(m)
    PROVE  MemoryIInv'
<1>1. PICK S : MemoryTyped(S)
  BY DEF MemoryIInv
<1>2. trail \in [Memories -> Trails] /\ pruned \in [Memories -> SUBSET TraceIds]
  BY <1>1 DEF MemoryTyped
<1>3. PICK old, faded : old = trail[m] /\ faded = {id \in DOMAIN trail[m] : trail[m][id] = "faded"}
  OBVIOUS
<1>4. PICK f, gone : f = Restrict(old, DOMAIN old \ faded) /\ gone = pruned[m] \cup faded
  OBVIOUS
<1>5. /\ trail' = [trail EXCEPT ![m] = f] /\ pruned' = [pruned EXCEPT ![m] = gone]
      /\ m \in up /\ UNCHANGED <<up, ring, file, recorded, mishaps, calm, laid>>
  BY <1>2, <1>3, <1>4 DEF PruneFaded
<1>6. /\ DOMAIN old \in SUBSET TraceIds /\ old \in [DOMAIN old -> {"fresh", "faded"}]
      /\ faded \subseteq DOMAIN old
  <2>1. old \in Trails
    BY <1>2, <1>3
  <2> QED BY <1>3, <2>1, TrailsAre
<1>7. f \in Trails /\ DOMAIN f = DOMAIN old \ faded
  <2>1. f \in [DOMAIN old \ faded -> {"fresh", "faded"}] /\ DOMAIN old \ faded \in SUBSET TraceIds
    BY <1>4, <1>6 DEF Restrict
  <2> QED BY <2>1, TrailsAre
<1>8. gone \in SUBSET TraceIds /\ pruned[m] \subseteq gone
  BY <1>2, <1>4, <1>6
<1>9. DOMAIN f \subseteq DOMAIN trail[m] /\ DOMAIN trail[m] \ DOMAIN f \subseteq gone
  BY <1>3, <1>4, <1>7
<1> QED BY <1>5, <1>7, <1>8, <1>9, TrailsChange

(* A snapshot's traces are lines of the file, turned round and cut off.    *)
LEMMA MemoryFileRestored ==
    ASSUME MemoryIInv, NEW k \in 0..MaxRecorded, Restore(k)
    PROVE  MemoryIInv'
<1>1. PICK S : MemoryTyped(S)
  BY DEF MemoryIInv
<1>2. /\ HashesAreDigests /\ CalmMeans /\ MemoryIsTailOfChain
      /\ \A n \in up : TrailsFollow(ring[n], trail[n], laid[n], pruned[n])
  BY DEF MemoryIInv
<1>3. /\ up' = up /\ ring' = ring /\ trail' = trail /\ recorded' = recorded /\ laid' = laid
      /\ pruned' = pruned /\ calm' = FALSE /\ mishaps < MaxMishaps /\ mishaps' = mishaps + 1
      /\ k \in 0..Len(file)
  BY DEF Restore, Mishap
<1>4. file \in Seq(SoundLines(S))
  BY <1>1, <1>2, SoundSequences DEF MemoryTyped, HashesAreDigests
<1>5. PICK part : part = SubSeq(file, 1, k)
  OBVIOUS
<1>6. part \in Seq(SoundLines(S))
  <2>1. \A i \in 1..k : file[i] \in SoundLines(S)
    BY <1>3, <1>4
  <2> QED BY <1>5, <2>1, SubSeqProperties
<1>7. PICK back : back = Reverse(part)
  OBVIOUS
<1>8. back \in Seq(SoundLines(S))
  <2>1. PICK n \in Nat : n = Len(part)
    BY <1>6
  <2>2. \A i \in 1..n : n - i + 1 \in 1..n /\ part[n - i + 1] \in SoundLines(S)
    <3>1. \A i \in 1..n : part[i] \in SoundLines(S)
      BY <1>6, <2>1
    <3>2. \A i \in 1..n : n - i + 1 \in 1..n
      OBVIOUS
    <3> QED BY <3>1, <3>2
  <2>3. back \in [1..n -> SoundLines(S)]
    BY <1>7, <2>1, <2>2 DEF Reverse
  <2> QED BY <2>3, SeqDef
<1>9. PICK written \in 0..Len(back) : file' = SubSeq(back, 1, written)
  BY <1>5, <1>7 DEF Restore, SnapshotOf
<1>10. file' \in Seq(SoundLines(S))
  <2>1. \A i \in 1..written : back[i] \in SoundLines(S)
    BY <1>8, <1>9
  <2>2. PICK kept : kept = SubSeq(back, 1, written)
    OBVIOUS
  <2>3. written \in Int
    BY <1>8, <1>9
  <2>4. kept \in Seq(SoundLines(S))
    BY <2>1, <2>2, <2>3, SubSeqProperties
  <2> QED BY <1>9, <2>2, <2>4
<1>11. file' \in Seq(LinesOf(S)) /\ \A i \in DOMAIN file' : file'[i] \in {Torn, Garbage} \/ Digested(file'[i])
  BY <1>10, SoundSequences
<1>12. MemoryTyped(S)'
  <2>1. mishaps' \in 0..MaxMishaps
    BY <1>1, <1>3, TraceMemoryAssumption DEF MemoryTyped
  <2> QED BY <1>1, <1>3, <1>11, <2>1 DEF MemoryTyped
<1>13. HashesAreDigests'
  BY <1>2, <1>3, <1>11 DEF HashesAreDigests, Digested
<1>14. ~calm'
  BY <1>3
<1>15. CalmMeans'
  BY <1>14 DEF CalmMeans
<1>16. MemoryIsTailOfChain'
  <2>1. calm' => /\ \A n \in up' : ring'[n] = Newest(file', RingCapacity)
                 /\ ChainedLines(file')
    BY <1>14
  <2> QED BY <2>1 DEF MemoryIsTailOfChain, ChainedLines, Newest
<1>17. \A n \in up' : TrailsFollow(ring'[n], trail'[n], laid'[n], pruned'[n])
  BY <1>2, <1>3
<1> QED BY <1>12, <1>13, <1>15, <1>16, <1>17
        DEF MemoryIInv, TrailsFollow, RingIsLaid, Ids, Once

LEMMA MemoryStarts ==
    ASSUME TraceMemoryInit
    PROVE  MemoryIInv
<1>1. PICK f : f = [id \in {} |-> "fresh"]
  OBVIOUS
<1>2. f \in Trails
  <2>1. f \in [{} -> {"fresh", "faded"}] /\ {} \in SUBSET TraceIds
    BY <1>1
  <2> QED BY <2>1, TrailsAre
<1>3. /\ up = {} /\ file = <<>> /\ recorded = 0 /\ mishaps = 0 /\ calm = TRUE
      /\ ring = [m \in Memories |-> <<>>] /\ trail = [m \in Memories |-> f]
      /\ laid = [m \in Memories |-> <<>>] /\ pruned = [m \in Memories |-> {}]
  BY <1>1 DEF TraceMemoryInit
<1>4. MemoryTyped({})
  <2>1. Len(<<>>) <= RingCapacity /\ 0 \in 0..MaxRecorded /\ 0 \in 0..MaxMishaps
    BY TraceMemoryAssumption
  <2>2. trail \in [Memories -> Trails]
    BY <1>2, <1>3
  <2> QED BY <1>3, <2>1, <2>2 DEF MemoryTyped
<1>5. HashesAreDigests /\ CalmMeans /\ MemoryIsTailOfChain
  BY <1>3 DEF HashesAreDigests, CalmMeans, MemoryIsTailOfChain, Readable
<1> QED BY <1>3, <1>4, <1>5 DEF MemoryIInv

(* The invariant says what the property says.                              *)
LEMMA MemoryIInvSaysAll ==
    ASSUME MemoryIInv
    PROVE  TraceMemoryInv
<1>1. PICK S : MemoryTyped(S)
  BY DEF MemoryIInv
<1>2. /\ HashesAreDigests /\ MemoryIsTailOfChain
      /\ \A n \in up : TrailsFollow(ring[n], trail[n], laid[n], pruned[n])
  BY DEF MemoryIInv
<1>3. TraceMemoryTypeOK
  <2>1. ASSUME NEW m \in Memories
        PROVE  /\ Len(ring[m]) \in 0..RingCapacity
               /\ \A i \in DOMAIN ring[m] :
                     ring[m][i].hash = Digest(Payload(ring[m][i].id, ring[m][i].dual), ring[m][i].parent)
               /\ trail[m] \in UNION {[R -> {"fresh", "faded"}] : R \in SUBSET TraceIds}
               /\ laid[m] \in Seq(TraceIds) /\ pruned[m] \subseteq TraceIds
    <3>1. Len(ring[m]) \in 0..RingCapacity
      <4>1. ring[m] \in Seq(TracesOf(S)) /\ Len(ring[m]) <= RingCapacity
        BY <1>1 DEF MemoryTyped
      <4>2. Len(ring[m]) \in Nat
        BY <4>1
      <4> QED BY <4>1, <4>2, TraceMemoryAssumption
    <3>2. \A i \in DOMAIN ring[m] :
             ring[m][i].hash = Digest(Payload(ring[m][i].id, ring[m][i].dual), ring[m][i].parent)
      BY <1>2 DEF HashesAreDigests, Digested
    <3>3. trail[m] \in UNION {[R -> {"fresh", "faded"}] : R \in SUBSET TraceIds}
      <4>1. trail[m] \in Trails
        BY <1>1 DEF MemoryTyped
      <4> QED BY <4>1 DEF Trails
    <3>4. laid[m] \in Seq(TraceIds) /\ pruned[m] \subseteq TraceIds
      BY <1>1 DEF MemoryTyped
    <3> QED BY <3>1, <3>2, <3>3, <3>4
  <2>2. up \subseteq Memories /\ recorded \in 0..MaxRecorded /\ mishaps \in 0..MaxMishaps
        /\ calm \in BOOLEAN
    BY <1>1 DEF MemoryTyped
  <2> QED BY <2>1, <2>2 DEF TraceMemoryTypeOK
<1>4. TrailsWithinRing
  BY <1>2 DEF TrailsWithinRing, TrailsFollow
<1>5. TracesKeepTheirTrail
  <2>1. SUFFICES ASSUME NEW m \in up, NEW id \in Ids(ring[m]) \ pruned[m], Laid(m, id) = 1
                 PROVE  id \in DOMAIN trail[m]
    BY DEF TracesKeepTheirTrail
  <2>2. PICK ids : ids = laid[m]
    OBVIOUS
  <2>3. ids \in Seq(TraceIds)
    BY <1>1, <2>2 DEF MemoryTyped
  <2>4. Cardinality({i \in DOMAIN ids : ids[i] = id}) = 1
    BY <2>1, <2>2 DEF Laid
  <2>5. Once(ids, id)
    BY <2>3, <2>4, LaidOnce
  <2> QED BY <1>2, <2>2, <2>5 DEF TrailsFollow
<1> QED BY <1>2, <1>3, <1>4, <1>5 DEF TraceMemoryInv

(* A memory is the newest part of its file while the disk holds and one    *)
(* memory is open at a time, the file is one chain of traces, no trail is  *)
(* without its trace, and no trace that was laid once and not pruned is    *)
(* without its trail, for every capacity, number of memories and ids.      *)
THEOREM MemoriesFollowTheirFile == TraceMemorySpec => []TraceMemoryInv
<1>1. TraceMemoryInit => MemoryIInv
  BY MemoryStarts
<1>2. MemoryIInv /\ [TraceMemoryNext]_traceMemoryVars => MemoryIInv'
  <2>1. SUFFICES ASSUME MemoryIInv, [TraceMemoryNext]_traceMemoryVars PROVE MemoryIInv'
    OBVIOUS
  <2>2. ASSUME NEW m \in Memories, Open(m) PROVE MemoryIInv'
    BY <2>1, <2>2, MemoryOpens
  <2>3. ASSUME NEW m \in Memories, Close(m) PROVE MemoryIInv'
    BY <2>1, <2>3, MemoryCloses
  <2>4. ASSUME NEW m \in Memories, PruneFaded(m) PROVE MemoryIInv'
    BY <2>1, <2>4, FadedTracesArePruned
  <2>5. ASSUME NEW m \in Memories, NEW id \in TraceIds, NEW dual \in BOOLEAN,
               RecordTraceInto(m, id, dual)
        PROVE  MemoryIInv'
    BY <2>1, <2>5, MemoryRecords
  <2>6. ASSUME NEW m \in Memories, NEW id \in TraceIds, ReinforceTrail(m, id) \/ Evaporate(m, id)
        PROVE  MemoryIInv'
    BY <2>1, <2>6, TrailIsRefreshed
  <2>7. ASSUME NEW k \in 0..MaxRecorded, Restore(k) PROVE MemoryIInv'
    BY <2>1, <2>7, MemoryFileRestored
  <2>8. CASE UNCHANGED traceMemoryVars
    <3>1. UNCHANGED <<up, ring, trail, file, recorded, mishaps, calm, laid, pruned>>
      BY <2>8 DEF traceMemoryVars
    <3>2. (\E S : MemoryTyped(S))'
      <4>1. PICK S : MemoryTyped(S)
        BY <2>1 DEF MemoryIInv
      <4>2. MemoryTyped(S)'
        BY <3>1, <4>1 DEF MemoryTyped
      <4> QED BY <4>2
    <3>3. HashesAreDigests' /\ CalmMeans' /\ MemoryIsTailOfChain'
      BY <2>1, <3>1 DEF MemoryIInv, HashesAreDigests, Digested, CalmMeans, Readable,
         MemoryIsTailOfChain, Newest
    <3>4. \A n \in up' : TrailsFollow(ring'[n], trail'[n], laid'[n], pruned'[n])
      BY <2>1, <3>1 DEF MemoryIInv
    <3> QED BY <3>2, <3>3, <3>4 DEF MemoryIInv, TrailsFollow, RingIsLaid, Ids, Once
  <2> QED BY <2>1, <2>2, <2>3, <2>4, <2>5, <2>6, <2>7, <2>8 DEF TraceMemoryNext
<1>3. MemoryIInv => TraceMemoryInv
  BY MemoryIInvSaysAll
<1> QED BY <1>1, <1>2, <1>3, PTL DEF TraceMemorySpec

-----------------------------------------------------------------------------
(* The etch store. *)

(* What a ring shows stays the newest when it takes something else.        *)
LEMMA ShowsAfterHole ==
    ASSUME NEW T, NEW shown \in Seq(T), NEW next \in Seq(T), NEW l \in Nat, NEW k \in Nat,
           l = Len(shown), k <= l, IsEndAnd(next, shown, l, k, Hole),
           NEW list, ShowsNewest(shown, list)
    PROVE  ShowsNewest(next, list)
<1>1. /\ Len(next) = k + 1 /\ next[k + 1] = Hole
      /\ \A i \in 1..k : l - k + i \in 1..l /\ next[i] = shown[l - k + i]
  BY DEF IsEndAnd
<1>2. DOMAIN next = 1..(k + 1) /\ DOMAIN shown = 1..l
  BY <1>1
<1>3. SUFFICES ASSUME NEW i \in 1..(k + 1), next[i] # Hole
               PROVE  LET n == Cardinality({next[h] : h \in i..(k + 1)} \ {Hole})
                      IN  n <= Len(list) /\ list[Len(list) - n + 1] = next[i]
  BY <1>1, <1>2 DEF ShowsNewest
<1>4. i \in 1..k
  BY <1>1, <1>3
<1>5. PICK j \in 1..l : j = l - k + i /\ next[i] = shown[j]
  BY <1>1, <1>4
<1>6. {next[h] : h \in i..(k + 1)} \ {Hole} = {shown[h] : h \in j..l} \ {Hole}
  <2>1. ASSUME NEW h \in i..(k + 1), next[h] # Hole
        PROVE  next[h] \in {shown[g] : g \in j..l}
    <3>1. h \in 1..k
      BY <1>1, <2>1
    <3>2. next[h] = shown[l - k + h] /\ l - k + h \in j..l
      BY <1>1, <1>5, <3>1
    <3> QED BY <3>2
  <2>2. ASSUME NEW h \in j..l
        PROVE  shown[h] \in {next[g] : g \in i..(k + 1)}
    <3>1. PICK g \in i..k : h = l - k + g
      <4>1. h - (l - k) \in i..k /\ l - k + (h - (l - k)) = h
        BY <1>5
      <4> QED BY <4>1
    <3>2. g \in 1..k /\ g \in i..(k + 1)
      OBVIOUS
    <3> QED BY <1>1, <3>1, <3>2
  <2> QED BY <2>1, <2>2
<1>7. LET n == Cardinality({shown[h] : h \in j..l} \ {Hole})
      IN  n <= Len(list) /\ list[Len(list) - n + 1] = shown[j]
  BY <1>2, <1>3, <1>5 DEF ShowsNewest
<1> QED BY <1>5, <1>6, <1>7

(* No more is shown than there are places.                                 *)
LEMMA ShownAreFew ==
    ASSUME NEW s, NEW j \in Nat, NEW l \in Nat, j <= l
    PROVE  /\ IsFiniteSet({s[h] : h \in j..l} \ {Hole})
           /\ Cardinality({s[h] : h \in j..l} \ {Hole}) \in Nat
           /\ Cardinality({s[h] : h \in j..l} \ {Hole}) <= l - j + 1
<1>1. PICK f : f = [h \in j..l |-> s[h]]
  OBVIOUS
<1>2. PICK U : U = {s[h] : h \in j..l}
  OBVIOUS
<1>3. f \in Surjection(j..l, U)
  <2>1. f \in [j..l -> U] /\ \A u \in U : \E h \in j..l : f[h] = u
    BY <1>1, <1>2
  <2> QED BY <2>1 DEF Surjection
<1>4. IsFiniteSet(j..l) /\ Cardinality(j..l) = l - j + 1
  BY FS_Interval
<1>5. IsFiniteSet(U) /\ Cardinality(U) <= l - j + 1
  BY <1>3, <1>4, FS_Surjection
<1>6. U \ {Hole} \in SUBSET U
  OBVIOUS
<1>7. IsFiniteSet(U \ {Hole}) /\ Cardinality(U \ {Hole}) <= Cardinality(U)
  BY <1>5, <1>6, FS_Subset
<1>8. Cardinality(U \ {Hole}) \in Nat /\ Cardinality(U) \in Nat
  BY <1>5, <1>7, FS_CardinalityType
<1> QED BY <1>2, <1>5, <1>7, <1>8

(* It stays so when the ring and the list both take the same new item, and *)
(* the list keeps at least as many as the ring.                            *)
LEMMA ShowsAfterBothTook ==
    ASSUME NEW T, NEW shown \in Seq(T), NEW next \in Seq(T), NEW l \in Nat, NEW k \in Nat,
           l = Len(shown), k <= l, NEW x, IsEndAnd(next, shown, l, k, x),
           x # Hole, \A i \in 1..l : shown[i] # x,
           NEW list, NEW more, NEW m \in Nat, NEW p \in Nat, m = Len(list), p <= m,
           IsEndAnd(more, list, m, p, x), p = m \/ k <= p, ShowsNewest(shown, list)
    PROVE  ShowsNewest(next, more)
<1>1. /\ Len(next) = k + 1 /\ next[k + 1] = x
      /\ \A i \in 1..k : l - k + i \in 1..l /\ next[i] = shown[l - k + i]
  BY DEF IsEndAnd
<1>2. /\ Len(more) = p + 1 /\ more[p + 1] = x
      /\ \A i \in 1..p : m - p + i \in 1..m /\ more[i] = list[m - p + i]
  BY DEF IsEndAnd
<1>3. DOMAIN next = 1..(k + 1) /\ DOMAIN shown = 1..l
  BY <1>1
<1>4. SUFFICES ASSUME NEW i \in 1..(k + 1), next[i] # Hole
               PROVE  LET n == Cardinality({next[h] : h \in i..(k + 1)} \ {Hole})
                      IN  n <= p + 1 /\ more[(p + 1) - n + 1] = next[i]
  BY <1>1, <1>2, <1>3 DEF ShowsNewest
<1>5. CASE i = k + 1
  <2>1. {next[h] : h \in i..(k + 1)} \ {Hole} = {x}
    <3>1. \A h \in i..(k + 1) : h = k + 1
      BY <1>5
    <3>2. k + 1 \in i..(k + 1)
      BY <1>5
    <3> QED BY <1>1, <3>1, <3>2
  <2>2. Cardinality({next[h] : h \in i..(k + 1)} \ {Hole}) = 1
    BY <2>1, FS_Singleton
  <2>3. (p + 1) - 1 + 1 = p + 1 /\ 1 <= p + 1
    OBVIOUS
  <2>4. more[(p + 1) - 1 + 1] = next[i]
    BY <1>1, <1>2, <1>5, <2>3
  <2> QED BY <2>2, <2>3, <2>4
<1>6. CASE i # k + 1
  <2>1. i \in 1..k
    BY <1>6
  <2>2. PICK j \in 1..l : j = l - k + i /\ next[i] = shown[j]
    BY <1>1, <2>1
  <2>3. PICK D : D = {shown[h] : h \in j..l} \ {Hole}
    OBVIOUS
  <2>4. {next[h] : h \in i..(k + 1)} \ {Hole} = D \cup {x}
    <3>1. ASSUME NEW h \in i..(k + 1), next[h] # Hole PROVE next[h] \in D \cup {x}
      <4>1. CASE h = k + 1
        BY <1>1, <4>1
      <4>2. CASE h # k + 1
        <5>1. h \in 1..k
          BY <4>2
        <5>2. next[h] = shown[l - k + h] /\ l - k + h \in j..l
          BY <1>1, <2>2, <5>1
        <5> QED BY <2>3, <3>1, <5>2
      <4> QED BY <4>1, <4>2
    <3>2. ASSUME NEW h \in j..l, shown[h] # Hole
          PROVE  shown[h] \in {next[g] : g \in i..(k + 1)}
      <4>1. PICK g \in i..k : h = l - k + g
        <5>1. h - (l - k) \in i..k /\ l - k + (h - (l - k)) = h
          BY <2>2
        <5> QED BY <5>1
      <4>2. g \in 1..k /\ g \in i..(k + 1)
        OBVIOUS
      <4> QED BY <1>1, <4>1, <4>2
    <3>3. x \in {next[g] : g \in i..(k + 1)}
      <4>1. k + 1 \in i..(k + 1)
        OBVIOUS
      <4> QED BY <1>1, <4>1
    <3> QED BY <2>3, <3>1, <3>2, <3>3
  <2>5. x \notin D
    <3>1. \A h \in j..l : h \in 1..l
      OBVIOUS
    <3> QED BY <2>3, <3>1
  <2>6. PICK n \in Nat : n = Cardinality(D)
    <3>1. j \in Nat /\ j <= l
      OBVIOUS
    <3> QED BY <2>3, <3>1, ShownAreFew
  <2>7. IsFiniteSet(D) /\ n <= l - j + 1
    <3>1. j \in Nat /\ j <= l
      OBVIOUS
    <3> QED BY <2>3, <2>6, <3>1, ShownAreFew
  <2>8. Cardinality(D \cup {x}) = n + 1
    BY <2>5, <2>6, <2>7, FS_AddElement
  <2>9. n <= m /\ list[m - n + 1] = shown[j]
    <3>1. LET c == Cardinality({shown[h] : h \in j..l} \ {Hole})
          IN  c <= Len(list) /\ list[Len(list) - c + 1] = shown[j]
      BY <1>3, <1>4, <2>2 DEF ShowsNewest
    <3> QED BY <2>3, <2>6, <3>1
  <2>10. n <= p /\ n >= 1
    <3>1. n <= k
      BY <2>2, <2>7
    <3>2. n >= 1
      <4>1. shown[j] \in D
        <5>1. j \in j..l /\ shown[j] # Hole
          BY <1>4, <2>2
        <5> QED BY <2>3, <5>1
      <4>2. D # {}
        BY <4>1
      <4>3. n # 0
        BY <2>6, <2>7, <4>2, FS_EmptySet
      <4> QED BY <4>3
    <3> QED BY <2>9, <3>1, <3>2
  <2>11. more[p - n + 1] = list[m - n + 1]
    <3>1. p - n + 1 \in 1..p /\ m - p + (p - n + 1) = m - n + 1
      BY <2>10
    <3> QED BY <1>2, <3>1
  <2>12. (p + 1) - (n + 1) + 1 = p - n + 1 /\ n + 1 <= p + 1
    BY <2>10
  <2> QED BY <2>2, <2>4, <2>8, <2>9, <2>11, <2>12
<1> QED BY <1>5, <1>6

(* A list of different items shows itself.                                 *)
LEMMA ListShowsItself ==
    ASSUME NEW T, NEW s \in Seq(T), Hole \notin T,
           \A i, j \in DOMAIN s : s[i] = s[j] => i = j
    PROVE  ShowsNewest(s, s)
<1>1. PICK l \in Nat : l = Len(s) /\ DOMAIN s = 1..l
  BY LenProperties
<1>2. SUFFICES ASSUME NEW i \in 1..l
               PROVE  LET n == Cardinality({s[h] : h \in i..l} \ {Hole})
                      IN  n <= l /\ s[l - n + 1] = s[i]
  BY <1>1 DEF ShowsNewest
<1>3. PICK U : U = {s[h] : h \in i..l}
  OBVIOUS
<1>4. PICK f : f = [h \in i..l |-> s[h]]
  OBVIOUS
<1>5. f \in Surjection(i..l, U)
  <2>1. f \in [i..l -> U] /\ \A u \in U : \E h \in i..l : f[h] = u
    BY <1>3, <1>4
  <2> QED BY <2>1 DEF Surjection
<1>6. f \in Injection(i..l, U)
  <2>1. f \in [i..l -> U]
    BY <1>3, <1>4
  <2>2. \A g, h \in i..l : f[g] = f[h] => g = h
    <3>1. \A h \in i..l : h \in DOMAIN s /\ f[h] = s[h]
      BY <1>1, <1>4
    <3> QED BY <3>1
  <2> QED BY <2>1, <2>2 DEF Injection, IsInjective
<1>7. IsFiniteSet(i..l) /\ Cardinality(i..l) = l - i + 1
  BY FS_Interval
<1>8. Cardinality(U) = l - i + 1
  BY <1>5, <1>6, <1>7, FS_Surjection
<1>9. {s[h] : h \in i..l} \ {Hole} = U
  <2>1. \A h \in i..l : s[h] \in T
    BY <1>1
  <2> QED BY <1>3, <2>1
<1>10. l - (l - i + 1) + 1 = i /\ l - i + 1 <= l
  OBVIOUS
<1> QED BY <1>8, <1>9, <1>10

(* What a ring of records, and one of growth happened, shows of the commits. *)
CommittedOf(items) == [i \in DOMAIN items |-> IF items[i].committed THEN items[i] ELSE Hole]
EtchOf(e) == IF e.of.kind = "etch" THEN e.of.record ELSE Hole
EtchesOf(happened) ==
    [i \in DOMAIN happened |-> IF happened[i].of.kind = "etch" THEN happened[i].of.record ELSE Hole]

(* A ring that takes one more shows one more.                              *)
LEMMA CommittedTook ==
    ASSUME NEW items \in Seq(Record), NEW next \in Seq(Record), NEW y \in Record,
           NEW l \in Nat, NEW k \in Nat, l = Len(items), k <= l, IsEndAnd(next, items, l, k, y)
    PROVE  /\ CommittedOf(items) \in Seq(Record \cup {Hole})
           /\ CommittedOf(next) \in Seq(Record \cup {Hole})
           /\ Len(CommittedOf(items)) = l
           /\ \A i \in 1..l : CommittedOf(items)[i] \in {items[i], Hole}
           /\ IsEndAnd(CommittedOf(next), CommittedOf(items), l, k,
                       IF y.committed THEN y ELSE Hole)
<1>1. /\ Len(next) = k + 1 /\ next[k + 1] = y
      /\ \A i \in 1..k : l - k + i \in 1..l /\ next[i] = items[l - k + i]
  BY DEF IsEndAnd
<1>2. DOMAIN next = 1..(k + 1) /\ DOMAIN items = 1..l
  BY <1>1
<1>3. PICK a, b : a = CommittedOf(items) /\ b = CommittedOf(next)
  OBVIOUS
<1>4. /\ DOMAIN a = 1..l /\ \A i \in 1..l : a[i] = IF items[i].committed THEN items[i] ELSE Hole
      /\ DOMAIN b = 1..(k + 1)
      /\ \A i \in 1..(k + 1) : b[i] = IF next[i].committed THEN next[i] ELSE Hole
  BY <1>2, <1>3 DEF CommittedOf
<1>5. a \in [1..l -> Record \cup {Hole}]
  <2>1. \A i \in 1..l : a[i] \in Record \cup {Hole}
    BY <1>2, <1>4
  <2>2. a = [i \in 1..l |-> IF items[i].committed THEN items[i] ELSE Hole]
    BY <1>2, <1>3 DEF CommittedOf
  <2> QED BY <2>1, <2>2
<1>6. b \in [1..(k + 1) -> Record \cup {Hole}]
  <2>1. \A i \in 1..(k + 1) : b[i] \in Record \cup {Hole}
    BY <1>2, <1>4
  <2>2. b = [i \in 1..(k + 1) |-> IF next[i].committed THEN next[i] ELSE Hole]
    BY <1>2, <1>3 DEF CommittedOf
  <2> QED BY <2>1, <2>2
<1>7. a \in Seq(Record \cup {Hole}) /\ b \in Seq(Record \cup {Hole})
  BY <1>5, <1>6, SeqDef
<1>8. Len(a) = l /\ Len(b) = k + 1
  BY <1>4, <1>7
<1>9. IsEndAnd(b, a, l, k, IF y.committed THEN y ELSE Hole)
  <2>1. b[k + 1] = (IF y.committed THEN y ELSE Hole)
    BY <1>1, <1>4
  <2>2. \A i \in 1..k : b[i] = a[l - k + i]
    <3>1. \A i \in 1..k : i \in 1..(k + 1)
      OBVIOUS
    <3> QED BY <1>1, <1>4, <3>1
  <2> QED BY <1>1, <1>8, <2>1, <2>2 DEF IsEndAnd
<1>10. \A i \in 1..l : a[i] \in {items[i], Hole}
  BY <1>4
<1> QED BY <1>3, <1>7, <1>8, <1>9, <1>10

(* The records of the happened, and what is shown of them.                   *)
KnowRecords(happened) ==
    \A i \in DOMAIN happened : happened[i].of.kind = "etch" => happened[i].of.record \in Record
AreShown(happened, l) ==
    \A i \in 1..l :
        EtchesOf(happened)[i] = Hole
        \/ (happened[i].of.kind = "etch" /\ EtchesOf(happened)[i] = happened[i].of.record)

LEMMA EtchesTook ==
    ASSUME NEW S, NEW happened \in Seq(S), NEW next \in Seq(S), NEW y, NEW r,
           KnowRecords(happened),
           NEW l \in Nat, NEW k \in Nat, l = Len(happened), k <= l,
           IsEndAnd(next, happened, l, k, y),
           r \in Record \cup {Hole}, r = EtchOf(y)
    PROVE  /\ EtchesOf(happened) \in Seq(Record \cup {Hole})
           /\ EtchesOf(next) \in Seq(Record \cup {Hole})
           /\ Len(EtchesOf(happened)) = l
           /\ AreShown(happened, l)
           /\ IsEndAnd(EtchesOf(next), EtchesOf(happened), l, k, r)
<1>1. /\ Len(next) = k + 1 /\ next[k + 1] = y
      /\ \A i \in 1..k : l - k + i \in 1..l /\ next[i] = happened[l - k + i]
  BY DEF IsEndAnd
<1>2. DOMAIN next = 1..(k + 1) /\ DOMAIN happened = 1..l
  BY <1>1
<1>3. PICK a, b : a = EtchesOf(happened) /\ b = EtchesOf(next)
  OBVIOUS
<1>4. /\ a = [i \in 1..l |-> IF happened[i].of.kind = "etch" THEN happened[i].of.record ELSE Hole]
      /\ b = [i \in 1..(k + 1) |-> IF next[i].of.kind = "etch" THEN next[i].of.record ELSE Hole]
  BY <1>2, <1>3 DEF EtchesOf
<1>5. a \in [1..l -> Record \cup {Hole}]
  BY <1>2, <1>4 DEF KnowRecords
<1>6. b[k + 1] = r
  BY <1>1, <1>4 DEF EtchOf
<1>7. \A i \in 1..k : b[i] = a[l - k + i]
  <2>1. \A i \in 1..k : i \in 1..(k + 1)
    OBVIOUS
  <2> QED BY <1>1, <1>4, <2>1
<1>8. b \in [1..(k + 1) -> Record \cup {Hole}]
  <2>1. \A i \in 1..(k + 1) : i = k + 1 \/ i \in 1..k
    OBVIOUS
  <2>2. \A i \in 1..(k + 1) : b[i] \in Record \cup {Hole}
    BY <1>1, <1>5, <1>6, <1>7, <2>1
  <2> QED BY <1>4, <2>2
<1>9. a \in Seq(Record \cup {Hole}) /\ b \in Seq(Record \cup {Hole})
  <2>1. a \in Seq(Record \cup {Hole})
    BY <1>5, SeqDef
  <2>2. b \in Seq(Record \cup {Hole})
    BY <1>8, SeqDef
  <2> QED BY <2>1, <2>2
<1>10. Len(a) = l /\ Len(b) = k + 1
  BY <1>4, <1>9
<1>11. IsEndAnd(b, a, l, k, r)
  BY <1>1, <1>6, <1>7, <1>10 DEF IsEndAnd
<1>12. \A i \in 1..l : a[i] = Hole \/ (happened[i].of.kind = "etch" /\ a[i] = happened[i].of.record)
  BY <1>4
<1>13. AreShown(happened, l)
  BY <1>3, <1>12 DEF AreShown
<1> QED BY <1>3, <1>9, <1>10, <1>11, <1>13

(* A list turned round has the same items.                                 *)
LEMMA Reversed ==
    ASSUME NEW T, NEW s \in Seq(T)
    PROVE  /\ Reverse(s) \in Seq(T)
           /\ \A x : Contains(s, x) <=> Contains(Reverse(s), x)
           /\ \A i \in DOMAIN Reverse(s) : Contains(s, Reverse(s)[i])
<1>1. PICK n \in Nat : n = Len(s) /\ DOMAIN s = 1..n
  BY LenProperties
<1>2. PICK b : b = Reverse(s)
  OBVIOUS
<1>3. b = [i \in 1..n |-> s[n - i + 1]]
  BY <1>1, <1>2 DEF Reverse
<1>4. \A i \in 1..n : n - i + 1 \in 1..n /\ n - (n - i + 1) + 1 = i
  OBVIOUS
<1>5. b \in [1..n -> T]
  <2>1. \A i \in 1..n : s[n - i + 1] \in T
    BY <1>1, <1>4
  <2> QED BY <1>3, <2>1
<1>6. b \in Seq(T) /\ Len(b) = n
  <2>1. b \in Seq(T)
    BY <1>5, SeqDef
  <2> QED BY <1>5, <2>1
<1>7. \A i \in 1..n : b[i] = s[n - i + 1]
  BY <1>3
<1>8. ASSUME NEW x PROVE Contains(s, x) <=> Contains(b, x)
  <2>1. Contains(s, x) => Contains(b, x)
    <3>1. SUFFICES ASSUME NEW i \in 1..n, s[i] = x PROVE \E j \in 1..n : b[j] = x
      BY <1>1, <1>6 DEF Contains
    <3>2. n - i + 1 \in 1..n /\ b[n - i + 1] = s[n - (n - i + 1) + 1]
      BY <1>4, <1>7
    <3> QED BY <1>4, <3>1, <3>2
  <2>2. Contains(b, x) => Contains(s, x)
    <3>1. SUFFICES ASSUME NEW i \in 1..n, b[i] = x PROVE \E j \in 1..n : s[j] = x
      BY <1>1, <1>6 DEF Contains
    <3> QED BY <1>4, <1>7, <3>1
  <2> QED BY <2>1, <2>2
<1>9. \A i \in DOMAIN b : Contains(s, b[i])
  <2>1. \A i \in DOMAIN b : Contains(b, b[i])
    BY <1>6 DEF Contains
  <2> QED BY <1>8, <2>1
<1> QED BY <1>2, <1>6, <1>8, <1>9

LEMMA HoleIsNoRecord == Hole \notin Record
<1>1. \A r \in Record : "of" \in DOMAIN r
  BY DEF Record
<1>2. "of" \notin DOMAIN Hole
  BY DEF Hole
<1> QED BY <1>1, <1>2

(* A ring that takes one more drops its oldest when it is full.            *)
LEMMA InRingTook ==
    ASSUME NEW T, NEW items \in Seq(T), NEW x \in T, Len(items) <= EtchCapacity
    PROVE  /\ InRing(items, x) \in Seq(T)
           /\ \E l \in Nat, k \in Nat :
                 /\ l = Len(items) /\ k = (IF l = EtchCapacity THEN EtchCapacity - 1 ELSE l)
                 /\ k <= l /\ k + 1 <= EtchCapacity
                 /\ IsEndAnd(InRing(items, x), items, l, k, x)
<1>1. PICK c \in Nat \ {0} : c = EtchCapacity
  BY EtchStoreAssumption
<1>2. PICK r : r = InRing(items, x) /\ r = RingTakes(items, c, x)
  BY <1>1 DEF InRing, RingTakes
<1>3. /\ RingTakes(items, c, x) \in Seq(T)
      /\ \E l \in Nat, k \in Nat : /\ l = Len(items) /\ k = (IF l = c THEN c - 1 ELSE l)
                                   /\ IsEndAnd(RingTakes(items, c, x), items, l, k, x)
  BY <1>1, RingTook
<1>4. PICK l \in Nat, k \in Nat : /\ l = Len(items) /\ k = (IF l = c THEN c - 1 ELSE l)
                                  /\ IsEndAnd(r, items, l, k, x)
  BY <1>2, <1>3
<1>5. k <= l /\ k + 1 <= c
  <2>1. l <= c
    BY <1>1, <1>4
  <2> QED BY <1>4, <2>1
<1> QED BY <1>1, <1>2, <1>3, <1>4, <1>5

LEMMA InRingTyped ==
    ASSUME NEW T, NEW items \in Seq(T), NEW x \in T, Len(items) <= EtchCapacity
    PROVE  InRing(items, x) \in Seq(T) /\ Len(InRing(items, x)) <= EtchCapacity
<1>1. PICK r : r = InRing(items, x)
  OBVIOUS
<1>2. r \in Seq(T) /\ \E l \in Nat, k \in Nat : k + 1 <= EtchCapacity /\ IsEndAnd(r, items, l, k, x)
  BY <1>1, InRingTook
<1>3. Len(r) <= EtchCapacity
  BY <1>2 DEF IsEndAnd
<1> QED BY <1>1, <1>2, <1>3

LEMMA HydrateTyped ==
    ASSUME NEW T, NEW lines \in Seq(T)
    PROVE  Hydrate(lines) \in Seq(T) /\ Len(Hydrate(lines)) <= EtchCapacity
<1>1. PICK c \in Nat \ {0} : c = EtchCapacity
  BY EtchStoreAssumption
<1>2. PICK r : r = Hydrate(lines) /\ r = LastItems(lines, c)
  BY <1>1 DEF Hydrate, NewestOf, LastItems
<1>3. /\ LastItems(lines, c) \in Seq(T)
      /\ \E l \in Nat, k \in Nat : /\ l = Len(lines) /\ k = (IF c < l THEN c ELSE l)
                                   /\ IsEnd(LastItems(lines, c), lines, l, k)
  BY LastItemsAre
<1>4. PICK l \in Nat, k \in Nat : k = (IF c < l THEN c ELSE l) /\ IsEnd(r, lines, l, k)
  BY <1>2, <1>3
<1>5. Len(r) = k /\ k <= c
  BY <1>4 DEF IsEnd
<1> QED BY <1>1, <1>2, <1>3, <1>5

(* The lines of the files. *)

Has(lines, r) == \E j \in DOMAIN lines : lines[j].text = r
Whole(lines) == \A i \in DOMAIN lines : lines[i].ended /\ lines[i].text # Scrap

LEMMA ScrapIsNoRecord == Scrap \notin Record
<1>1. \A r \in Record : "of" \in DOMAIN r
  BY DEF Record
<1>2. "of" \notin DOMAIN Scrap
  BY DEF Scrap
<1> QED BY <1>1, <1>2

LEMMA LineIs ==
    ASSUME NEW text \in Record \cup {Scrap}, NEW ended \in BOOLEAN, NEW line,
           line = [text |-> text, ended |-> ended]
    PROVE  line \in Line /\ line.text = text /\ line.ended = ended
BY DEF Line

(* The texts of lines that parse are records.                              *)
LEMMA TextsAreRecords ==
    ASSUME NEW lines \in Seq(Line), Parses(lines)
    PROVE  /\ Texts(lines) \in Seq(Record) /\ Len(Texts(lines)) = Len(lines)
           /\ \A i \in DOMAIN lines : Texts(lines)[i] = lines[i].text
           /\ \A r : Contains(Texts(lines), r) <=> Has(lines, r)
<1>1. PICK n \in Nat : n = Len(lines) /\ DOMAIN lines = 1..n
  BY LenProperties
<1>2. PICK texts : texts = Texts(lines)
  OBVIOUS
<1>3. texts = [i \in 1..n |-> lines[i].text]
  BY <1>1, <1>2 DEF Texts
<1>4. texts \in [1..n -> Record]
  <2>1. \A i \in 1..n : lines[i] \in Line /\ lines[i].text # Scrap
    BY <1>1 DEF Parses
  <2>2. \A i \in 1..n : lines[i].text \in Record
    BY <2>1 DEF Line
  <2> QED BY <1>3, <2>2
<1>5. texts \in Seq(Record) /\ Len(texts) = n
  <2>1. texts \in Seq(Record)
    BY <1>4, SeqDef
  <2> QED BY <1>4, <2>1
<1>6. \A r : Contains(texts, r) <=> Has(lines, r)
  BY <1>1, <1>3, <1>5 DEF Contains, Has
<1> QED BY <1>1, <1>2, <1>3, <1>5, <1>6

(* A line behind an unfinished one is glued to it, and parses no more.     *)
LEMMA AppendedLine ==
    ASSUME NEW lines \in Seq(Line), NEW text \in Record \cup {Scrap}, NEW ended \in BOOLEAN
    PROVE  /\ AppendLine(lines, text, ended) \in Seq(Line)
           /\ \A i \in DOMAIN AppendLine(lines, text, ended) :
                 \/ AppendLine(lines, text, ended)[i].text \in {Scrap, text}
                 \/ Has(lines, AppendLine(lines, text, ended)[i].text)
           /\ Parses(AppendLine(lines, text, ended)) =>
                 /\ text \in Record
                 /\ \A r : Has(lines, r) => Has(AppendLine(lines, text, ended), r)
                 /\ Has(AppendLine(lines, text, ended), text)
                 /\ Parses(lines)
<1>1. PICK n \in Nat : n = Len(lines) /\ DOMAIN lines = 1..n
  BY LenProperties
<1>2. PICK more : more = AppendLine(lines, text, ended)
  OBVIOUS
<1>3. CASE lines # <<>> /\ ~Last(lines).ended
  <2>1. PICK line : line = [text |-> Scrap, ended |-> ended]
    OBVIOUS
  <2>2. line \in Line /\ line.text = Scrap
    BY <2>1, LineIs
  <2>3. PICK front : front = Front(lines)
    OBVIOUS
  <2>4. front \in Seq(Line) /\ n > 0 /\ Len(front) = n - 1 /\ \A i \in 1..(n - 1) : front[i] = lines[i]
    <3>1. n > 0
      BY <1>1, <1>3, EmptySeq
    <3>2. PICK k \in Nat : k = n - 1 /\ front = SubSeq(lines, 1, k)
      BY <1>1, <2>3, <3>1 DEF Front
    <3>3. \A i \in 1..k : lines[i] \in Line
      BY <1>1, <3>2
    <3>4. /\ front \in Seq(Line) /\ Len(front) = (IF 1 <= k THEN k - 1 + 1 ELSE 0)
          /\ \A i \in 1..(k - 1 + 1) : front[i] = lines[1 + i - 1]
      BY <3>2, <3>3, SubSeqProperties
    <3>5. \A i \in 1..k : i \in 1..(k - 1 + 1) /\ 1 + i - 1 = i
      BY <3>2
    <3>6. Len(front) = k
      BY <3>2, <3>4
    <3> QED BY <3>1, <3>2, <3>4, <3>5, <3>6
  <2>5. more = Append(front, line)
    BY <1>2, <1>3, <2>1, <2>3 DEF AppendLine
  <2>6. /\ more \in Seq(Line) /\ Len(more) = n /\ more[n] = line
        /\ \A i \in 1..(n - 1) : more[i] = lines[i]
    <3>1. PICK m \in Nat : m = n - 1 /\ m + 1 = n
      BY <2>4
    <3>2. /\ more \in Seq(Line) /\ Len(more) = m + 1 /\ more[m + 1] = line
          /\ \A i \in 1..m : more[i] = front[i]
      BY <2>2, <2>4, <2>5, <3>1, AppendProperties
    <3> QED BY <2>4, <3>1, <3>2
  <2>7. DOMAIN more = 1..n /\ n \in 1..n
    BY <2>4, <2>6
  <2>8. ~Parses(more)
    BY <2>2, <2>6, <2>7 DEF Parses
  <2>9. ASSUME NEW i \in DOMAIN more PROVE more[i].text \in {Scrap, text} \/ Has(lines, more[i].text)
    <3>1. CASE i = n
      BY <2>2, <2>6, <3>1
    <3>2. CASE i # n
      <4>1. i \in 1..(n - 1) /\ i \in 1..n
        BY <2>7, <3>2
      <4> QED BY <1>1, <2>6, <4>1 DEF Has
    <3> QED BY <3>1, <3>2
  <2> QED BY <1>2, <2>6, <2>8, <2>9
<1>4. CASE ~(lines # <<>> /\ ~Last(lines).ended)
  <2>1. PICK line : line = [text |-> text, ended |-> ended]
    OBVIOUS
  <2>2. line \in Line /\ line.text = text
    BY <2>1, LineIs
  <2>3. more = Append(lines, line)
    BY <1>2, <1>4, <2>1 DEF AppendLine
  <2>4. /\ more \in Seq(Line) /\ Len(more) = n + 1 /\ more[n + 1] = line
        /\ \A i \in 1..n : more[i] = lines[i]
    BY <1>1, <2>2, <2>3, AppendProperties
  <2>5. DOMAIN more = 1..(n + 1) /\ n + 1 \in 1..(n + 1) /\ \A i \in 1..n : i \in 1..(n + 1)
    BY <2>4
  <2>6. ASSUME NEW i \in DOMAIN more PROVE more[i].text \in {Scrap, text} \/ Has(lines, more[i].text)
    <3>1. CASE i = n + 1
      BY <2>2, <2>4, <3>1
    <3>2. CASE i # n + 1
      <4>1. i \in 1..n
        BY <2>5, <3>2
      <4> QED BY <1>1, <2>4, <4>1 DEF Has
    <3> QED BY <3>1, <3>2
  <2>7. /\ \A r : Has(lines, r) => Has(more, r)
        /\ Has(more, text)
    BY <1>1, <2>2, <2>4, <2>5 DEF Has
  <2>8. Parses(more) => text \in Record /\ Parses(lines)
    BY <1>1, <2>2, <2>4, <2>5 DEF Parses
  <2> QED BY <1>2, <2>4, <2>6, <2>7, <2>8
<1> QED BY <1>3, <1>4

(* While every line is whole, the record is put behind them.               *)
LEMMA WholeLinesGrow ==
    ASSUME NEW lines \in Seq(Line), Whole(lines), NEW r \in Record
    PROVE  /\ Parses(lines) /\ Whole(AppendLine(lines, r, TRUE))
           /\ Texts(AppendLine(lines, r, TRUE)) = Append(Texts(lines), r)
<1>1. PICK n \in Nat : n = Len(lines) /\ DOMAIN lines = 1..n
  BY LenProperties
<1>2. PICK line : line = [text |-> r, ended |-> TRUE]
  OBVIOUS
<1>3. line \in Line /\ line.text = r /\ line.ended = TRUE
  BY <1>2, LineIs
<1>4. lines # <<>> => Last(lines).ended
  <2>1. lines # <<>> => n \in 1..n /\ Last(lines) = lines[n]
    BY <1>1, EmptySeq DEF Last
  <2> QED BY <1>1, <2>1 DEF Whole
<1>5. PICK more : more = AppendLine(lines, r, TRUE)
  OBVIOUS
<1>6. more = Append(lines, line)
  BY <1>2, <1>4, <1>5 DEF AppendLine
<1>7. /\ more \in Seq(Line) /\ Len(more) = n + 1 /\ more[n + 1] = line
      /\ \A i \in 1..n : more[i] = lines[i]
  BY <1>1, <1>3, <1>6, AppendProperties
<1>8. DOMAIN more = 1..(n + 1) /\ \A i \in 1..(n + 1) : i \in 1..n \/ i = n + 1
  BY <1>7
<1>9. Parses(lines)
  BY DEF Whole, Parses
<1>10. Whole(more)
  <2>1. \A i \in 1..n : more[i].ended /\ more[i].text # Scrap
    BY <1>1, <1>7 DEF Whole
  <2> QED BY <1>3, <1>7, <1>8, <2>1, ScrapIsNoRecord DEF Whole
<1>11. Texts(more) = Append(Texts(lines), r)
  <2>1. PICK texts : texts = Texts(lines)
    OBVIOUS
  <2>2. texts \in Seq(Record) /\ Len(texts) = n /\ \A i \in 1..n : texts[i] = lines[i].text
    BY <1>1, <1>9, <2>1, TextsAreRecords
  <2>3. Parses(more)
    BY <1>10 DEF Whole, Parses
  <2>4. PICK later : later = Texts(more)
    OBVIOUS
  <2>5. /\ later \in Seq(Record) /\ Len(later) = n + 1
        /\ \A i \in 1..(n + 1) : later[i] = more[i].text
    BY <1>7, <1>8, <2>3, <2>4, TextsAreRecords
  <2>6. PICK grown : grown = Append(texts, r)
    OBVIOUS
  <2>7. /\ grown \in Seq(Record) /\ Len(grown) = n + 1 /\ grown[n + 1] = r
        /\ \A i \in 1..n : grown[i] = texts[i]
    BY <2>2, <2>6, AppendProperties
  <2>8. \A i \in 1..(n + 1) : later[i] = grown[i]
    <3>1. ASSUME NEW i \in 1..n PROVE later[i] = grown[i]
      <4>1. i \in 1..(n + 1)
        OBVIOUS
      <4> QED BY <1>7, <2>2, <2>5, <2>7, <4>1
    <3>2. later[n + 1] = grown[n + 1]
      <4>1. n + 1 \in 1..(n + 1)
        OBVIOUS
      <4> QED BY <1>3, <1>7, <2>5, <2>7, <4>1
    <3> QED BY <1>8, <3>1, <3>2
  <2>9. later = grown
    BY <2>5, <2>7, <2>8, SeqEqual
  <2> QED BY <2>1, <2>4, <2>6, <2>9
<1> QED BY <1>5, <1>9, <1>10, <1>11

(* What an append that throws leaves adds nothing but its record.          *)
LEMMA FailedAppendLeaves ==
    ASSUME NEW lines \in Seq(Line), NEW r \in Record, NEW more \in FailedAppend(lines, r)
    PROVE  /\ more \in Seq(Line)
           /\ \A i \in DOMAIN more : \/ more[i].text \in {Scrap, r}
                                     \/ Has(lines, more[i].text)
           /\ Parses(more) => Parses(lines) /\ \A x : Has(lines, x) => Has(more, x)
<1>1. CASE more = lines
  BY <1>1 DEF Has
<1>2. CASE more = AppendLine(lines, Scrap, FALSE)
  BY <1>2, AppendedLine
<1>3. CASE more = AppendLine(lines, r, FALSE)
  BY <1>3, AppendedLine
<1> QED BY <1>1, <1>2, <1>3 DEF FailedAppend

(* The lines of records written to an empty file.                          *)
LEMMA WrittenLines ==
    ASSUME NEW records \in Seq(Record)
    PROVE  /\ Written(records) \in Seq(Line)
           /\ \A r : Has(Written(records), r) <=> Contains(records, r)
<1>1. PICK n \in Nat : n = Len(records) /\ DOMAIN records = 1..n
  BY LenProperties
<1>2. PICK lines : lines = Written(records)
  OBVIOUS
<1>3. lines = [i \in 1..n |-> [text |-> records[i], ended |-> TRUE]]
  BY <1>1, <1>2 DEF Written
<1>4. \A i \in 1..n : lines[i] \in Line /\ lines[i].text = records[i]
  <2>1. ASSUME NEW i \in 1..n PROVE lines[i] \in Line /\ lines[i].text = records[i]
    <3>1. records[i] \in Record \cup {Scrap}
      BY <1>1
    <3> QED BY <1>3, <3>1, LineIs
  <2> QED BY <2>1
<1>5. lines \in Seq(Line)
  <2>1. lines \in [1..n -> Line]
    BY <1>3, <1>4
  <2> QED BY <2>1, SeqDef
<1>6. \A r : Has(lines, r) <=> Contains(records, r)
  BY <1>1, <1>3, <1>4 DEF Has, Contains
<1> QED BY <1>2, <1>5, <1>6

(* However far the writing came.                                           *)
LEMMA StoppedLines ==
    ASSUME NEW records \in Seq(Record), NEW lines \in Stopped(records)
    PROVE  /\ lines \in Seq(Line)
           /\ \A i \in DOMAIN lines : lines[i].text # Scrap => Contains(records, lines[i].text)
<1>1. PICK n \in Nat : n = Len(records) /\ DOMAIN records = 1..n
  BY LenProperties
<1>2. PICK k \in 0..(n - 1) : lines \in FailedAppend(Written(SubSeq(records, 1, k)), records[k + 1])
  BY <1>1 DEF Stopped
<1>3. PICK part : part = SubSeq(records, 1, k)
  OBVIOUS
<1>4. part \in Seq(Record) /\ \A r : Contains(part, r) => Contains(records, r)
  <2>1. k \in Nat /\ k <= n
    BY <1>1, <1>2
  <2>2. \A i \in 1..k : records[i] \in Record
    BY <1>1, <2>1
  <2>3. /\ part \in Seq(Record) /\ Len(part) = (IF 1 <= k THEN k - 1 + 1 ELSE 0)
        /\ \A i \in 1..(k - 1 + 1) : part[i] = records[1 + i - 1]
    BY <1>3, <2>1, <2>2, SubSeqProperties
  <2>4. Len(part) = k
    BY <2>1, <2>3
  <2>5. \A i \in 1..k : part[i] = records[i] /\ i \in 1..n
    <3>1. \A i \in 1..k : i \in 1..(k - 1 + 1) /\ 1 + i - 1 = i /\ i \in 1..n
      BY <2>1
    <3> QED BY <2>3, <3>1
  <2> QED BY <1>1, <2>3, <2>4, <2>5 DEF Contains
<1>5. PICK r \in Record : r = records[k + 1] /\ Contains(records, r)
  <2>1. k + 1 \in 1..n
    BY <1>1, <1>2
  <2>2. records[k + 1] \in Record /\ Contains(records, records[k + 1])
    BY <1>1, <2>1 DEF Contains
  <2> QED BY <2>2
<1>6. PICK before : before = Written(part)
  OBVIOUS
<1>7. before \in Seq(Line) /\ \A x : Has(before, x) => Contains(records, x)
  BY <1>4, <1>6, WrittenLines
<1>8. lines \in FailedAppend(before, r)
  BY <1>2, <1>3, <1>5, <1>6
<1>9. /\ lines \in Seq(Line)
      /\ \A i \in DOMAIN lines : lines[i].text \in {Scrap, r} \/ Has(before, lines[i].text)
  BY <1>7, <1>8, FailedAppendLeaves
<1> QED BY <1>5, <1>7, <1>9

(* The file of etches and that of the audit are what they say, and number  *)
(* their records, as long as nothing failed.                               *)
Ascending(records) == \A i, j \in DOMAIN records : i < j => records[i].at < records[j].at
SoundRings ==
    sound => /\ auditFile = etchFile /\ Whole(etchFile)
             /\ \A i \in DOMAIN Texts(etchFile) :
                    Texts(etchFile)[i].committed /\ Texts(etchFile)[i].at <= applied
             /\ Ascending(Texts(etchFile))
             /\ \A i \in DOMAIN audit : audit[i].at <= applied

(* A snapshot's audit lines have their etches.                             *)
ShotsWithin ==
    ~cut => \A shot \in shots : \A i \in DOMAIN shot.audit : Contains(shot.etches, shot.audit[i])

(* The growth ledger knows commits of the past.                            *)
EtchesInGrowth ==
    \A i \in DOMAIN growth :
        growth[i].of.kind = "etch" =>
            growth[i].of.record \in Record /\ growth[i].of.record.at <= applied

EtchIInv ==
    /\ EtchStoreTypeOK /\ \E S : growth \in Seq(S)
    /\ SoundRings /\ RingsFollowTheFile
    /\ AuditFileWithinEtchFile /\ ShotsWithin
    /\ EtchesInGrowth /\ GrowthFollowsCommits

(* Rings, files and snapshots hold records whatever happens.               *)
LEMMA EtchTypeStep ==
    ASSUME EtchStoreTypeOK, NEW S, growth \in Seq(S), [EtchStoreNext]_etchStoreVars
    PROVE  EtchStoreTypeOK' /\ \E R : growth' \in Seq(R)
<1>1. /\ etches \in Seq(Record) /\ audit \in Seq(Record)
      /\ Len(etches) <= EtchCapacity /\ Len(audit) <= EtchCapacity
      /\ Len(growth) <= EtchCapacity
      /\ etchFile \in Seq(Line) /\ auditFile \in Seq(Line)
      /\ sentOn \in Seq(Contents) /\ since \in Seq(Record)
      /\ applied \in 0..MaxApplied /\ upsets \in 0..MaxUpsets /\ sound \in BOOLEAN /\ cut \in BOOLEAN
      /\ shots \subseteq [etches : Seq(Record), audit : Seq(Record)]
  BY DEF EtchStoreTypeOK
<1>c. MaxApplied \in Nat /\ MaxUpsets \in Nat /\ EtchCapacity \in Nat \ {0}
  BY EtchStoreAssumption
<1>u. (Upset => upsets' \in 0..MaxUpsets) /\ (UNCHANGED upsets => upsets' \in 0..MaxUpsets)
  BY <1>1, <1>c DEF Upset
<1>g. ASSUME NEW y, growth' = InRing(growth, y)
      PROVE  Len(growth') <= EtchCapacity /\ \E R : growth' \in Seq(R)
  <2>1. PICK R : R = S \cup {y}
    OBVIOUS
  <2>2. growth \in Seq(R) /\ y \in R
    <3>1. S \subseteq R
      BY <2>1
    <3> QED BY <2>1, <3>1, SeqMonotonic
  <2>3. InRing(growth, y) \in Seq(R) /\ Len(InRing(growth, y)) <= EtchCapacity
    BY <1>1, <2>2, InRingTyped
  <2> QED BY <1>g, <2>3
<1>a. ASSUME applied < MaxApplied, applied' = applied + 1, NEW c \in Contents, NEW b \in BOOLEAN
      PROVE  applied' \in 0..MaxApplied /\ [of |-> c, at |-> applied + 1, committed |-> b] \in Record
  BY <1>1, <1>c, <1>a DEF Record
<1>2. ASSUME NEW c \in Contents, RejectEtch(c) PROVE EtchStoreTypeOK' /\ \E R : growth' \in Seq(R)
  <2>1. PICK r \in Record : r = [of |-> c, at |-> applied + 1, committed |-> FALSE]
    BY <1>2, <1>a DEF RejectEtch
  <2>2. audit' = InRing(audit, r) /\ applied' \in 0..MaxApplied
    BY <1>2, <1>a, <2>1 DEF RejectEtch
  <2>3. audit' \in Seq(Record) /\ Len(audit') <= EtchCapacity
    BY <1>1, <2>2, InRingTyped
  <2>4. UNCHANGED <<etches, growth, etchFile, auditFile, sentOn, upsets, shots, sound, cut, since>>
    BY <1>2 DEF RejectEtch
  <2> QED BY <1>1, <2>2, <2>3, <2>4 DEF EtchStoreTypeOK
<1>3. ASSUME NEW c \in Contents, Commit(c) PROVE EtchStoreTypeOK' /\ \E R : growth' \in Seq(R)
  <2>1. PICK r \in Record : r = [of |-> c, at |-> applied + 1, committed |-> TRUE]
    BY <1>3, <1>a DEF Commit
  <2>2. /\ etches' = InRing(etches, r) /\ audit' = InRing(audit, r) /\ Persist(r)
        /\ growth' = InRing(growth, GrowthEvent([kind |-> "etch", record |-> r]))
        /\ since' = Append(since, r) /\ sentOn' = Append(sentOn, c) /\ UNCHANGED <<shots, cut>>
    BY <1>3, <2>1 DEF Commit
  <2>3. applied' \in 0..MaxApplied
    BY <1>3, <1>a DEF Commit
  <2>4. etches' \in Seq(Record) /\ Len(etches') <= EtchCapacity
    BY <1>1, <2>2, InRingTyped
  <2>5. audit' \in Seq(Record) /\ Len(audit') <= EtchCapacity
    BY <1>1, <2>2, InRingTyped
  <2>6. Len(growth') <= EtchCapacity /\ \E R : growth' \in Seq(R)
    BY <1>g, <2>2
  <2>7. etchFile' \in Seq(Line) /\ auditFile' \in Seq(Line) /\ upsets' \in 0..MaxUpsets
        /\ sound' \in BOOLEAN
    <3>1. AppendLine(etchFile, r, TRUE) \in Seq(Line) /\ AppendLine(auditFile, r, TRUE) \in Seq(Line)
      BY <1>1, AppendedLine
    <3>2. FailedAppend(etchFile, r) \subseteq Seq(Line) /\ FailedAppend(auditFile, r) \subseteq Seq(Line)
      BY <1>1, FailedAppendLeaves
    <3> QED BY <1>1, <1>u, <2>2, <3>1, <3>2 DEF Persist
  <2>8. since' \in Seq(Record) /\ sentOn' \in Seq(Contents)
    BY <1>1, <2>2, AppendProperties
  <2> QED BY <1>1, <2>2, <2>3, <2>4, <2>5, <2>6, <2>7, <2>8 DEF EtchStoreTypeOK
<1>4. CASE Celebrate
  <2>1. /\ growth' = InRing(growth, GrowthEvent([kind |-> "celebration"])) /\ Upset
        /\ UNCHANGED <<etches, audit, etchFile, auditFile, sentOn, applied, shots, sound, cut, since>>
    BY <1>4 DEF Celebrate
  <2>2. Len(growth') <= EtchCapacity /\ \E R : growth' \in Seq(R)
    BY <1>g, <2>1
  <2> QED BY <1>1, <1>u, <2>1, <2>2 DEF EtchStoreTypeOK
<1>5. CASE Reopen
  <2>1. /\ etches' = Hydrate(Texts(etchFile)) /\ audit' = Hydrate(Texts(auditFile)) /\ growth' = <<>>
        /\ since' = <<>> /\ Upset /\ Parses(etchFile) /\ Parses(auditFile)
        /\ UNCHANGED <<etchFile, auditFile, sentOn, applied, shots, sound, cut>>
    BY <1>5 DEF Reopen
  <2>t. Texts(etchFile) \in Seq(Record) /\ Texts(auditFile) \in Seq(Record)
    BY <1>1, <2>1, TextsAreRecords
  <2>2. etches' \in Seq(Record) /\ Len(etches') <= EtchCapacity
    BY <2>1, <2>t, HydrateTyped
  <2>3. audit' \in Seq(Record) /\ Len(audit') <= EtchCapacity
    BY <2>1, <2>t, HydrateTyped
  <2>4. Len(growth') <= EtchCapacity /\ growth' \in Seq(S) /\ since' \in Seq(Record)
    BY <1>c, <2>1
  <2> QED BY <1>1, <1>u, <2>1, <2>2, <2>3, <2>4 DEF EtchStoreTypeOK
<1>6. CASE Snapshot
  <2>1. /\ shots' = shots \cup {[etches |-> Reverse(Texts(etchFile)),
                                  audit |-> Reverse(Texts(auditFile))]}
        /\ Upset /\ Parses(etchFile) /\ Parses(auditFile)
        /\ UNCHANGED <<etches, audit, growth, etchFile, auditFile, sentOn, applied, sound, cut, since>>
    BY <1>6 DEF Snapshot
  <2>2. PICK a, b : a = Reverse(Texts(etchFile)) /\ b = Reverse(Texts(auditFile))
    OBVIOUS
  <2>t. Texts(etchFile) \in Seq(Record) /\ Texts(auditFile) \in Seq(Record)
    BY <1>1, <2>1, TextsAreRecords
  <2>3. a \in Seq(Record) /\ b \in Seq(Record)
    BY <2>2, <2>t, Reversed
  <2>4. shots' \subseteq [etches : Seq(Record), audit : Seq(Record)]
    BY <1>1, <2>1, <2>2, <2>3
  <2> QED BY <1>1, <1>u, <2>1, <2>4 DEF EtchStoreTypeOK
<1>7. ASSUME NEW shot \in shots, RestoreEtches(shot)
      PROVE  EtchStoreTypeOK' /\ \E R : growth' \in Seq(R)
  <2>1. PICK a \in Seq(Record), b \in Seq(Record) : a = shot.etches /\ b = shot.audit
    BY <1>1
  <2>2. sound' = FALSE /\ UNCHANGED <<etches, audit, growth, sentOn, applied, shots, since>>
    BY <1>7 DEF RestoreEtches
  <2>3. /\ Written(a) \in Seq(Line) /\ Written(b) \in Seq(Line)
        /\ Stopped(a) \subseteq Seq(Line) /\ Stopped(b) \subseteq Seq(Line)
    BY <2>1, WrittenLines, StoppedLines
  <2>4. /\ etchFile' \in Seq(Line) /\ auditFile' \in Seq(Line)
        /\ upsets' \in 0..MaxUpsets /\ cut' \in BOOLEAN
    <3>1. \/ /\ etchFile' = Written(a) /\ auditFile' = Written(b)
             /\ UNCHANGED <<upsets, cut>>
          \/ etchFile' \in Stopped(a) /\ auditFile' = <<>> /\ Upset /\ UNCHANGED cut
          \/ /\ etchFile' = Written(a) /\ auditFile' \in Stopped(b)
             /\ Upset /\ UNCHANGED cut
          \/ etchFile' = <<>> /\ Upset /\ cut' = TRUE /\ UNCHANGED auditFile
      BY <1>7, <2>1 DEF RestoreEtches
    <3>2. <<>> \in Seq(Line)
      OBVIOUS
    <3>3. etchFile' \in Seq(Line) /\ auditFile' \in Seq(Line)
      BY <1>1, <2>3, <3>1, <3>2
    <3>4. cut' \in BOOLEAN /\ upsets' \in 0..MaxUpsets
      BY <1>1, <1>u, <3>1
    <3> QED BY <3>3, <3>4
  <2> QED BY <1>1, <2>2, <2>4 DEF EtchStoreTypeOK
<1>8. CASE UNCHANGED etchStoreVars
  BY <1>1, <1>8 DEF EtchStoreTypeOK, etchStoreVars
<1> QED BY <1>2, <1>3, <1>4, <1>5, <1>6, <1>7, <1>8 DEF EtchStoreNext

(* Nothing makes a store sound again.                                      *)
LEMMA EtchWasSound ==
    ASSUME [EtchStoreNext]_etchStoreVars, sound'
    PROVE  sound
<1>1. ASSUME NEW c \in Contents, RejectEtch(c) PROVE sound
  BY <1>1 DEF RejectEtch
<1>2. ASSUME NEW c \in Contents, Commit(c) PROVE sound
  BY <1>2 DEF Commit, Persist
<1>3. ASSUME NEW shot \in shots, RestoreEtches(shot) PROVE sound
  BY <1>3 DEF RestoreEtches
<1>4. CASE Celebrate \/ Reopen \/ Snapshot \/ UNCHANGED etchStoreVars
  BY <1>4 DEF Celebrate, Reopen, Snapshot, etchStoreVars
<1> QED BY <1>1, <1>2, <1>3, <1>4 DEF EtchStoreNext

(* The new record is numbered last.                                        *)
LEMMA NumbersLater ==
    ASSUME NEW records \in Seq(Record), NEW n \in Nat,
           \A i \in DOMAIN records : records[i].committed /\ records[i].at <= n
    PROVE  \A i \in DOMAIN records : records[i].committed /\ records[i].at <= n + 1
<1>1. \A i \in DOMAIN records : records[i] \in Record
  OBVIOUS
<1>2. \A i \in DOMAIN records : records[i].at \in Nat
  BY <1>1 DEF Record
<1> QED BY <1>2

LEMMA NumbersTook ==
    ASSUME NEW items \in Seq(Record), NEW next \in Seq(Record), NEW r, NEW l \in Nat, NEW k \in Nat,
           l = Len(items), IsEndAnd(next, items, l, k, r), NEW n \in Nat, r.at = n + 1,
           \A i \in DOMAIN items : items[i].at <= n
    PROVE  \A i \in DOMAIN next : next[i].at <= n + 1
<1>1. /\ Len(next) = k + 1 /\ next[k + 1] = r
      /\ \A i \in 1..k : l - k + i \in 1..l /\ next[i] = items[l - k + i]
  BY DEF IsEndAnd
<1>2. DOMAIN next = 1..(k + 1) /\ DOMAIN items = 1..l
  BY <1>1
<1>3. SUFFICES ASSUME NEW i \in 1..(k + 1) PROVE next[i].at <= n + 1
  BY <1>2
<1>4. CASE i = k + 1
  BY <1>1, <1>4
<1>5. CASE i # k + 1
  <2>1. i \in 1..k
    BY <1>5
  <2>2. PICK j \in 1..l : next[i] = items[j]
    BY <1>1, <2>1
  <2>3. items[j] \in Record /\ items[j].at <= n
    BY <1>2
  <2>4. items[j].at \in Nat
    BY <2>3 DEF Record
  <2> QED BY <2>2, <2>3, <2>4
<1> QED BY <1>4, <1>5

LEMMA LinesAscend ==
    ASSUME NEW records \in Seq(Record), NEW r \in Record, NEW n \in Nat, r.at = n + 1,
           r.committed = TRUE,
           \A i \in DOMAIN records : records[i].committed /\ records[i].at <= n,
           Ascending(records)
    PROVE  /\ \A i \in DOMAIN Append(records, r) :
                 Append(records, r)[i].committed /\ Append(records, r)[i].at <= n + 1
           /\ Ascending(Append(records, r))
<1>1. PICK l \in Nat : l = Len(records) /\ DOMAIN records = 1..l
  BY LenProperties
<1>2. PICK more : more = Append(records, r)
  OBVIOUS
<1>3. /\ more \in Seq(Record) /\ Len(more) = l + 1 /\ more[l + 1] = r
      /\ \A i \in 1..l : more[i] = records[i]
  BY <1>1, <1>2, AppendProperties
<1>4. DOMAIN more = 1..(l + 1)
  BY <1>3
<1>5. \A i \in 1..l : records[i] \in Record /\ records[i].at \in Nat
  <2>1. \A i \in 1..l : records[i] \in Record
    BY <1>1
  <2> QED BY <2>1 DEF Record
<1>6. ASSUME NEW i \in 1..(l + 1)
      PROVE  more[i].committed /\ more[i].at <= n + 1 /\ (i # l + 1 => more[i].at <= n)
  <2>1. CASE i = l + 1
    BY <1>3, <2>1
  <2>2. CASE i # l + 1
    <3>1. i \in 1..l
      BY <2>2
    <3>2. more[i] = records[i] /\ records[i].committed /\ records[i].at <= n
      BY <1>1, <1>3, <3>1
    <3>3. records[i].at \in Nat
      BY <1>5, <3>1
    <3> QED BY <2>2, <3>2, <3>3
  <2> QED BY <2>1, <2>2
<1>7. ASSUME NEW i \in 1..(l + 1), NEW j \in 1..(l + 1), i < j
      PROVE  more[i].at < more[j].at
  <2>1. i \in 1..l
    BY <1>7
  <2>2. more[i] = records[i] /\ records[i].at \in Nat /\ records[i].at <= n
    BY <1>1, <1>3, <1>5, <2>1
  <2>3. CASE j = l + 1
    BY <1>3, <2>2, <2>3
  <2>4. CASE j # l + 1
    <3>1. j \in 1..l
      BY <2>4
    <3> QED BY SMTT(30), <1>1, <1>3, <1>7, <2>2, <3>1 DEF Ascending
  <2> QED BY <2>3, <2>4
<1> QED BY <1>2, <1>4, <1>6, <1>7 DEF Ascending

(* What is read back of a file that ascends.                               *)
LEMMA HydratedLines ==
    ASSUME NEW lines \in Seq(Record), NEW n \in Nat,
           \A i \in DOMAIN lines : lines[i].committed /\ lines[i].at <= n, Ascending(lines)
    PROVE  /\ Hydrate(lines) \in Seq(Record)
           /\ \A i \in DOMAIN Hydrate(lines) :
                 Hydrate(lines)[i].committed /\ Hydrate(lines)[i].at <= n
           /\ \A i, j \in DOMAIN Hydrate(lines) : Hydrate(lines)[i] = Hydrate(lines)[j] => i = j
<1>1. PICK c \in Nat \ {0} : c = EtchCapacity
  BY EtchStoreAssumption
<1>2. PICK r : r = Hydrate(lines) /\ r = LastItems(lines, c)
  BY <1>1 DEF Hydrate, NewestOf, LastItems
<1>3. /\ LastItems(lines, c) \in Seq(Record)
      /\ \E l \in Nat, k \in Nat : /\ l = Len(lines) /\ k = (IF c < l THEN c ELSE l)
                                   /\ IsEnd(LastItems(lines, c), lines, l, k)
  BY LastItemsAre
<1>4. PICK l \in Nat, k \in Nat : l = Len(lines) /\ IsEnd(r, lines, l, k)
  BY <1>2, <1>3
<1>5. Len(r) = k /\ \A i \in 1..k : l - k + i \in 1..l /\ r[i] = lines[l - k + i]
  BY <1>4 DEF IsEnd
<1>6. r \in Seq(Record) /\ DOMAIN r = 1..k /\ DOMAIN lines = 1..l
  BY <1>2, <1>3, <1>4, <1>5
<1>7. \A i \in DOMAIN r : r[i].committed /\ r[i].at <= n
  BY <1>5, <1>6
<1>8. ASSUME NEW i \in 1..k, NEW j \in 1..k, i < j PROVE r[i] # r[j]
  <2>1. PICK g \in 1..l : g = l - k + i /\ r[i] = lines[g]
    BY <1>5
  <2>2. PICK h \in 1..l : h = l - k + j /\ r[j] = lines[h]
    BY <1>5
  <2>3. lines[g].at < lines[h].at
    BY <1>6, <1>8, <2>1, <2>2 DEF Ascending
  <2>4. lines[g] \in Record
    BY <1>6
  <2>5. lines[g].at \in Nat
    BY <2>4 DEF Record
  <2> QED BY <2>1, <2>2, <2>3, <2>5
<1>9. \A i, j \in 1..k : r[i] = r[j] => i = j
  <2>1. ASSUME NEW i \in 1..k, NEW j \in 1..k, r[i] = r[j] PROVE i = j
    <3>1. i < j \/ j < i \/ i = j
      OBVIOUS
    <3> QED BY <1>8, <2>1, <3>1
  <2> QED BY <2>1
<1> QED BY <1>2, <1>6, <1>7, <1>9

(* Restarts and writes that hold: the rings follow the file.               *)
LEMMA RingsStep ==
    ASSUME EtchStoreTypeOK, SoundRings, RingsFollowTheFile, [EtchStoreNext]_etchStoreVars,
           EtchStoreTypeOK'
    PROVE  SoundRings' /\ RingsFollowTheFile'
<1>1. /\ etches \in Seq(Record) /\ audit \in Seq(Record)
      /\ Len(etches) <= EtchCapacity /\ Len(audit) <= EtchCapacity
      /\ etchFile \in Seq(Line) /\ applied \in Nat
  <2>1. applied \in 0..MaxApplied /\ MaxApplied \in Nat
    BY EtchStoreAssumption DEF EtchStoreTypeOK
  <2> QED BY <2>1 DEF EtchStoreTypeOK
<1>c. PICK c \in Nat \ {0} : c = EtchCapacity
  BY EtchStoreAssumption
<1>l. PICK later, kept : later = Texts(etchFile') /\ kept = Texts(etchFile)
  OBVIOUS
<1>s. SUFFICES ASSUME sound'
               PROVE  /\ auditFile' = etchFile' /\ Whole(etchFile')
                      /\ \A i \in DOMAIN later : later[i].committed /\ later[i].at <= applied'
                      /\ Ascending(later)
                      /\ \A i \in DOMAIN audit' : audit'[i].at <= applied'
                      /\ etches' = NewestOf(later, EtchCapacity)
                      /\ ShowsNewest(CommittedOf(audit'), etches')
  BY <1>l DEF SoundRings, RingsFollowTheFile, CommitsOfAudit, CommittedOf, Ascending, NewestOf,
              ShowsNewest, Texts, Whole
<1>2. sound
  BY <1>s, EtchWasSound
<1>3. /\ auditFile = etchFile /\ Whole(etchFile)
      /\ \A i \in DOMAIN kept : kept[i].committed /\ kept[i].at <= applied
      /\ Ascending(kept)
      /\ \A i \in DOMAIN audit : audit[i].at <= applied
      /\ etches = NewestOf(kept, EtchCapacity)
      /\ ShowsNewest(CommittedOf(audit), etches)
  BY <1>l, <1>2 DEF SoundRings, RingsFollowTheFile, CommitsOfAudit, CommittedOf
<1>k. kept \in Seq(Record) /\ (etchFile' = etchFile => later = kept)
  <2>1. Parses(etchFile)
    BY <1>3 DEF Whole, Parses
  <2> QED BY <1>1, <1>l, <2>1, TextsAreRecords
<1>4. ASSUME NEW d \in Contents, RejectEtch(d)
      PROVE  /\ auditFile' = etchFile' /\ Whole(etchFile')
             /\ \A i \in DOMAIN later : later[i].committed /\ later[i].at <= applied'
             /\ Ascending(later)
             /\ \A i \in DOMAIN audit' : audit'[i].at <= applied'
             /\ etches' = NewestOf(later, EtchCapacity)
             /\ ShowsNewest(CommittedOf(audit'), etches')
  <2>1. PICK r : r = [of |-> d, at |-> applied + 1, committed |-> FALSE]
    OBVIOUS
  <2>2. r \in Record /\ r.at = applied + 1 /\ r.committed = FALSE
    BY <1>1, <2>1 DEF Record
  <2>3. PICK next : next = InRing(audit, r)
    OBVIOUS
  <2>4. /\ audit' = next /\ applied' = applied + 1
        /\ UNCHANGED <<etches, etchFile, auditFile>>
    BY <1>4, <2>1, <2>3 DEF RejectEtch
  <2>5. next \in Seq(Record)
        /\ \E l \in Nat, k \in Nat : /\ l = Len(audit) /\ k <= l
                                     /\ IsEndAnd(next, audit, l, k, r)
    BY <1>1, <2>2, <2>3, InRingTook
  <2>6. PICK l \in Nat, k \in Nat : l = Len(audit) /\ k <= l /\ IsEndAnd(next, audit, l, k, r)
    BY <2>5
  <2>7. PICK a, b : a = CommittedOf(audit) /\ b = CommittedOf(next)
    OBVIOUS
  <2>8. /\ a \in Seq(Record \cup {Hole}) /\ b \in Seq(Record \cup {Hole}) /\ Len(a) = l
        /\ IsEndAnd(b, a, l, k, Hole)
    BY <1>1, <2>2, <2>5, <2>6, <2>7, CommittedTook
  <2>9. ShowsNewest(b, etches)
    BY <1>3, <2>6, <2>7, <2>8, ShowsAfterHole
  <2>10. \A i \in DOMAIN next : next[i].at <= applied + 1
    BY <1>1, <1>3, <2>2, <2>5, <2>6, NumbersTook
  <2>11. \A i \in DOMAIN kept : kept[i].committed /\ kept[i].at <= applied + 1
    BY <1>1, <1>3, <1>k, NumbersLater
  <2> QED BY <1>3, <1>k, <2>4, <2>7, <2>9, <2>10, <2>11
<1>5. ASSUME NEW d \in Contents, Commit(d)
      PROVE  /\ auditFile' = etchFile' /\ Whole(etchFile')
             /\ \A i \in DOMAIN later : later[i].committed /\ later[i].at <= applied'
             /\ Ascending(later)
             /\ \A i \in DOMAIN audit' : audit'[i].at <= applied'
             /\ etches' = NewestOf(later, EtchCapacity)
             /\ ShowsNewest(CommittedOf(audit'), etches')
  <2>1. PICK r : r = [of |-> d, at |-> applied + 1, committed |-> TRUE]
    OBVIOUS
  <2>2. r \in Record /\ r.at = applied + 1 /\ r.committed = TRUE
    BY <1>1, <2>1 DEF Record
  <2>3. PICK next, more, lines : /\ next = InRing(audit, r) /\ more = InRing(etches, r)
                                 /\ lines = Append(kept, r)
    OBVIOUS
  <2>4. /\ audit' = next /\ etches' = more /\ applied' = applied + 1
        /\ auditFile' = etchFile' /\ Whole(etchFile') /\ later = lines
    <3>1. Persist(r)
      BY <1>5, <2>1 DEF Commit
    <3>2. etchFile' = AppendLine(etchFile, r, TRUE) /\ auditFile' = etchFile'
      BY <1>s, <1>3, <3>1 DEF Persist
    <3>3. Whole(etchFile') /\ later = lines
      BY <1>1, <1>3, <1>l, <2>2, <2>3, <3>2, WholeLinesGrow
    <3> QED BY <1>5, <2>1, <2>3, <3>2, <3>3 DEF Commit
  <2>5. next \in Seq(Record)
        /\ \E l \in Nat, k \in Nat : /\ l = Len(audit) /\ k <= l /\ k + 1 <= EtchCapacity
                                     /\ IsEndAnd(next, audit, l, k, r)
    BY <1>1, <2>2, <2>3, InRingTook
  <2>6. PICK l \in Nat, k \in Nat : /\ l = Len(audit) /\ k <= l /\ k + 1 <= EtchCapacity
                                    /\ IsEndAnd(next, audit, l, k, r)
    BY <2>5
  <2>7. \E m \in Nat, p \in Nat :
           /\ m = Len(etches) /\ p = (IF m = EtchCapacity THEN EtchCapacity - 1 ELSE m) /\ p <= m
           /\ IsEndAnd(more, etches, m, p, r)
    BY <1>1, <2>2, <2>3, InRingTook
  <2>8. PICK m \in Nat, p \in Nat :
           /\ m = Len(etches) /\ p = (IF m = EtchCapacity THEN EtchCapacity - 1 ELSE m) /\ p <= m
           /\ IsEndAnd(more, etches, m, p, r)
    BY <2>7
  <2>9. p = m \/ k <= p
    BY <1>c, <2>6, <2>8
  <2>10. PICK a, b : a = CommittedOf(audit) /\ b = CommittedOf(next)
    OBVIOUS
  <2>11. /\ a \in Seq(Record \cup {Hole}) /\ b \in Seq(Record \cup {Hole}) /\ Len(a) = l
         /\ \A i \in 1..l : a[i] \in {audit[i], Hole}
         /\ IsEndAnd(b, a, l, k, r)
    BY <1>1, <2>2, <2>5, <2>6, <2>10, CommittedTook
  <2>12. r # Hole /\ \A i \in 1..l : a[i] # r
    <3>1. r # Hole
      BY <2>2, HoleIsNoRecord
    <3>2. ASSUME NEW i \in 1..l PROVE audit[i] # r
      <4>1. i \in DOMAIN audit /\ audit[i] \in Record
        BY <1>1, <2>6
      <4>2. audit[i].at <= applied /\ audit[i].at \in Nat
        BY <1>3, <4>1 DEF Record
      <4>3. ~(applied + 1 <= applied)
        BY <1>1
      <4> QED BY <2>2, <4>2, <4>3
    <3> QED BY <2>11, <3>1, <3>2
  <2>13. ShowsNewest(b, more)
    BY <1>3, <2>6, <2>8, <2>9, <2>10, <2>11, <2>12, ShowsAfterBothTook
  <2>14. \A i \in DOMAIN next : next[i].at <= applied + 1
    BY <1>1, <1>3, <2>2, <2>5, <2>6, NumbersTook
  <2>15. /\ \A i \in DOMAIN lines : lines[i].committed /\ lines[i].at <= applied + 1
         /\ Ascending(lines)
    BY <1>1, <1>3, <1>k, <2>2, <2>3, LinesAscend
  <2>16. more = NewestOf(lines, EtchCapacity)
    <3>1. RingTakes(LastItems(kept, c), c, r) = LastItems(Append(kept, r), c)
      BY <1>k, <2>2, RingStaysNewest
    <3>2. etches = LastItems(kept, c) /\ NewestOf(lines, EtchCapacity) = LastItems(lines, c)
      BY <1>c, <1>3 DEF NewestOf, LastItems
    <3>3. more = RingTakes(etches, c, r)
      BY <1>c, <2>3 DEF InRing, RingTakes
    <3> QED BY <2>3, <3>1, <3>2, <3>3
  <2> QED BY <2>4, <2>10, <2>13, <2>14, <2>15, <2>16
<1>6. CASE Reopen
  <2>1. PICK next : next = Hydrate(kept)
    OBVIOUS
  <2>2. /\ etches' = next /\ audit' = next /\ applied' = applied
        /\ etchFile' = etchFile /\ auditFile' = auditFile
    BY <1>3, <1>6, <1>l, <2>1 DEF Reopen
  <2>3. next = NewestOf(kept, EtchCapacity)
    BY <2>1 DEF Hydrate
  <2>4. /\ next \in Seq(Record)
        /\ \A i \in DOMAIN next : next[i].committed /\ next[i].at <= applied
        /\ \A i, j \in DOMAIN next : next[i] = next[j] => i = j
    BY <1>1, <1>3, <1>k, <2>1, HydratedLines
  <2>5. CommittedOf(next) = next
    <3>1. CommittedOf(next) = [i \in DOMAIN next |-> next[i]]
      BY <2>4 DEF CommittedOf
    <3>2. next = [i \in DOMAIN next |-> next[i]]
      BY <2>4
    <3> QED BY <3>1, <3>2
  <2>6. ShowsNewest(next, next)
    BY <2>4, HoleIsNoRecord, ListShowsItself
  <2> QED BY <1>3, <1>k, <2>2, <2>3, <2>4, <2>5, <2>6
<1>7. CASE \/ Celebrate \/ Snapshot \/ UNCHANGED etchStoreVars
  <2>1. UNCHANGED <<etches, audit, etchFile, auditFile, applied>>
    BY <1>7 DEF Celebrate, Snapshot, etchStoreVars
  <2> QED BY <1>3, <1>k, <2>1
<1>8. ASSUME NEW shot \in shots, RestoreEtches(shot) PROVE FALSE
  BY <1>s, <1>8 DEF RestoreEtches
<1> QED BY <1>4, <1>5, <1>6, <1>7, <1>8 DEF EtchStoreNext

(* Whatever fails, an audit line on disk has its etch in a file that parses. *)
LEMMA FilesStep ==
    ASSUME EtchStoreTypeOK, AuditFileWithinEtchFile, ShotsWithin, [EtchStoreNext]_etchStoreVars
    PROVE  AuditFileWithinEtchFile' /\ ShotsWithin'
<1>1. /\ etchFile \in Seq(Line) /\ auditFile \in Seq(Line) /\ applied \in Nat
      /\ shots \subseteq [etches : Seq(Record), audit : Seq(Record)]
  <2>1. applied \in 0..MaxApplied /\ MaxApplied \in Nat
    BY EtchStoreAssumption DEF EtchStoreTypeOK
  <2> QED BY <2>1 DEF EtchStoreTypeOK
<1>a. ASSUME ~cut, Parses(etchFile)
      PROVE  \A i \in DOMAIN auditFile : auditFile[i].text # Scrap => Has(etchFile, auditFile[i].text)
  BY <1>a DEF AuditFileWithinEtchFile, Has
<1>b. ASSUME ~cut
      PROVE  \A shot \in shots : \A i \in DOMAIN shot.audit : Contains(shot.etches, shot.audit[i])
  BY <1>b DEF ShotsWithin
<1>s. ASSUME ~cut' =>
               /\ Parses(etchFile') =>
                    \A i \in DOMAIN auditFile' :
                        auditFile'[i].text # Scrap => Has(etchFile', auditFile'[i].text)
               /\ \A shot \in shots' : \A i \in DOMAIN shot.audit : Contains(shot.etches, shot.audit[i])
      PROVE  AuditFileWithinEtchFile' /\ ShotsWithin'
  BY <1>s DEF AuditFileWithinEtchFile, ShotsWithin, Contains, Has, Parses
<1>2. ASSUME NEW c \in Contents, Commit(c) PROVE AuditFileWithinEtchFile' /\ ShotsWithin'
  <2>1. PICK r : r = [of |-> c, at |-> applied + 1, committed |-> TRUE]
    OBVIOUS
  <2>2. r \in Record
    BY <1>1, <2>1 DEF Record
  <2>3. Persist(r) /\ cut' = cut /\ shots' = shots
    BY <1>2, <2>1 DEF Commit
  <2>4. PICK lines, more : /\ lines = AppendLine(etchFile, r, TRUE)
                           /\ more = AppendLine(auditFile, r, TRUE)
    OBVIOUS
  <2>5. \/ etchFile' = lines /\ auditFile' = more
        \/ etchFile' \in FailedAppend(etchFile, r) /\ auditFile' = auditFile
        \/ etchFile' = lines /\ auditFile' \in FailedAppend(auditFile, r)
    BY <2>3, <2>4 DEF Persist
  <2>6. SUFFICES ASSUME ~cut, Parses(etchFile')
                 PROVE  \A i \in DOMAIN auditFile' :
                            auditFile'[i].text # Scrap => Has(etchFile', auditFile'[i].text)
    BY <1>b, <1>s, <2>3
  <2>7. Parses(lines) => /\ \A y : Has(etchFile, y) => Has(lines, y)
                         /\ Has(lines, r) /\ Parses(etchFile)
    BY <1>1, <2>2, <2>4, AppendedLine
  <2>8. \A i \in DOMAIN more : more[i].text \in {Scrap, r} \/ Has(auditFile, more[i].text)
    BY <1>1, <2>2, <2>4, AppendedLine
  <2>9. /\ Parses(etchFile)
        /\ \A y : Has(etchFile, y) => Has(etchFile', y)
        /\ auditFile' # auditFile => Has(etchFile', r)
    <3>1. CASE etchFile' = lines
      BY <2>6, <2>7, <3>1
    <3>2. CASE etchFile' \in FailedAppend(etchFile, r) /\ auditFile' = auditFile
      BY <1>1, <2>2, <2>6, <3>2, FailedAppendLeaves
    <3> QED BY <2>5, <3>1, <3>2
  <2>10. \A y : y # Scrap /\ Has(auditFile, y) => Has(etchFile', y)
    <3>1. \A i \in DOMAIN auditFile : auditFile[i].text # Scrap => Has(etchFile, auditFile[i].text)
      BY <1>a, <2>6, <2>9
    <3> QED BY <2>9, <3>1 DEF Has
  <2>11. ASSUME NEW i \in DOMAIN auditFile', auditFile'[i].text # Scrap
         PROVE  Has(etchFile', auditFile'[i].text)
    <3>1. CASE auditFile' = auditFile
      BY <2>10, <2>11, <3>1 DEF Has
    <3>2. CASE auditFile' # auditFile
      <4>1. auditFile'[i].text \in {Scrap, r} \/ Has(auditFile, auditFile'[i].text)
        <5>1. CASE auditFile' = more
          BY <2>8, <2>11, <5>1
        <5>2. CASE auditFile' \in FailedAppend(auditFile, r)
          BY <1>1, <2>2, <2>11, <5>2, FailedAppendLeaves
        <5> QED BY <2>5, <3>2, <5>1, <5>2
      <4> QED BY <2>9, <2>10, <2>11, <3>2, <4>1
    <3> QED BY <3>1, <3>2
  <2> QED BY <2>11
<1>3. CASE Snapshot
  <2>1. PICK a, b : a = Texts(etchFile) /\ b = Texts(auditFile)
    OBVIOUS
  <2>2. PICK shot : shot = [etches |-> Reverse(a), audit |-> Reverse(b)]
    OBVIOUS
  <2>3. /\ shots' = shots \cup {shot} /\ cut' = cut /\ etchFile' = etchFile /\ auditFile' = auditFile
        /\ Parses(etchFile) /\ Parses(auditFile)
    BY <1>3, <2>1, <2>2 DEF Snapshot
  <2>4. SUFFICES ASSUME ~cut
                 PROVE  \A i \in DOMAIN shot.audit : Contains(shot.etches, shot.audit[i])
    BY <1>a, <1>b, <1>s, <2>3
  <2>5. /\ a \in Seq(Record) /\ \A r : Contains(a, r) <=> Has(etchFile, r)
        /\ b \in Seq(Record) /\ \A r : Contains(b, r) <=> Has(auditFile, r)
    BY <1>1, <2>1, <2>3, TextsAreRecords
  <2>6. \A r : Contains(b, r) => Contains(a, r)
    <3>1. \A i \in DOMAIN auditFile : auditFile[i].text # Scrap => Has(etchFile, auditFile[i].text)
      BY <1>a, <2>3, <2>4
    <3>2. \A i \in DOMAIN auditFile : auditFile[i].text # Scrap
      BY <2>3 DEF Parses
    <3>3. \A r : Has(auditFile, r) => Has(etchFile, r)
      BY <3>1, <3>2 DEF Has
    <3> QED BY <2>5, <3>3
  <2>7. \A x : Contains(a, x) => Contains(Reverse(a), x)
    BY <2>5, Reversed
  <2>8. \A i \in DOMAIN Reverse(b) : Contains(b, Reverse(b)[i])
    BY <2>5, Reversed
  <2> QED BY <2>2, <2>6, <2>7, <2>8
<1>4. ASSUME NEW shot \in shots, RestoreEtches(shot) PROVE AuditFileWithinEtchFile' /\ ShotsWithin'
  <2>1. shots' = shots
    BY <1>4 DEF RestoreEtches
  <2>2. PICK a \in Seq(Record), b \in Seq(Record) : a = shot.etches /\ b = shot.audit
    BY <1>1
  <2>3. CASE cut' = TRUE
    BY <1>s, <2>3
  <2>4. CASE cut' = cut
    <3>1. SUFFICES ASSUME ~cut
                   PROVE  \A i \in DOMAIN auditFile' :
                              auditFile'[i].text # Scrap => Has(etchFile', auditFile'[i].text)
      BY <1>b, <1>s, <2>1, <2>4
    <3>2. \A i \in DOMAIN b : Contains(a, b[i])
      BY <1>b, <2>2, <3>1
    <3>3. \A x : Contains(b, x) => Has(Written(a), x)
      <4>1. \A x : Contains(a, x) => Has(Written(a), x)
        BY <2>2, WrittenLines
      <4>2. \A x : Contains(b, x) => Contains(a, x)
        <5>1. DOMAIN b = 1..Len(b)
          BY <2>2
        <5> QED BY <3>2, <5>1 DEF Contains
      <4> QED BY <4>1, <4>2
    <3>4. CASE auditFile' = <<>>
      BY <3>4
    <3>5. CASE etchFile' = Written(a) /\ auditFile' = Written(b)
      <4>1. \A x : Has(Written(b), x) => Contains(b, x)
        BY <2>2, WrittenLines
      <4>2. \A i \in DOMAIN auditFile' : Has(auditFile', auditFile'[i].text)
        BY DEF Has
      <4> QED BY <3>3, <3>5, <4>1, <4>2
    <3>6. CASE etchFile' = Written(a) /\ auditFile' \in Stopped(b)
      <4>1. \A i \in DOMAIN auditFile' : auditFile'[i].text # Scrap => Contains(b, auditFile'[i].text)
        BY <2>2, <3>6, StoppedLines
      <4> QED BY <3>3, <3>6, <4>1
    <3>7. ~(cut' = TRUE)
      BY <2>4, <3>1
    <3> QED BY <1>4, <2>2, <3>4, <3>5, <3>6, <3>7 DEF RestoreEtches
  <2> QED BY <1>4, <2>3, <2>4 DEF RestoreEtches
<1>5. CASE \/ Celebrate \/ Reopen \/ UNCHANGED etchStoreVars \/ \E c \in Contents : RejectEtch(c)
  <2>1. UNCHANGED <<etchFile, auditFile, shots, cut>>
    BY <1>5 DEF Celebrate, Reopen, etchStoreVars, RejectEtch
  <2> QED BY <1>a, <1>b, <1>s, <2>1
<1> QED BY <1>2, <1>3, <1>4, <1>5 DEF EtchStoreNext

(* The next event of the ring names the last one as its parent.            *)
LEMMA EventsChain ==
    ASSUME NEW S, NEW happened \in Seq(S), NEW next \in Seq(S), NEW l \in Nat, NEW k \in Nat,
           l = Len(happened), k <= l, (l # 0 => k # 0 \/ l = 1), NEW y, IsEndAnd(next, happened, l, k, y),
           l # 0 => y.parent = happened[l].hash,
           \A i \in 2..l : happened[i].parent = happened[i - 1].hash
    PROVE  \A i \in 2..Len(next) : next[i].parent = next[i - 1].hash
<1>1. /\ Len(next) = k + 1 /\ next[k + 1] = y
      /\ \A i \in 1..k : l - k + i \in 1..l /\ next[i] = happened[l - k + i]
  BY DEF IsEndAnd
<1>2. SUFFICES ASSUME NEW i \in 2..(k + 1) PROVE next[i].parent = next[i - 1].hash
  BY <1>1
<1>3. i - 1 \in 1..k
  OBVIOUS
<1>4. CASE i = k + 1
  <2>1. l - k + (i - 1) = l /\ l # 0
    BY <1>3, <1>4
  <2>2. next[i - 1] = happened[l]
    BY <1>1, <1>3, <2>1
  <2> QED BY <1>1, <1>4, <2>1, <2>2
<1>5. CASE i # k + 1
  <2>1. i \in 1..k
    BY <1>5
  <2>2. PICK j \in 1..l : j = l - k + i /\ next[i] = happened[j]
    BY <1>1, <2>1
  <2>3. l - k + (i - 1) = j - 1 /\ j \in 2..l
    BY <1>3, <2>2
  <2>4. next[i - 1] = happened[j - 1]
    BY <1>1, <1>3, <2>3
  <2> QED BY <2>2, <2>3, <2>4
<1> QED BY <1>4, <1>5

(* The growth ledger takes an event: it stays a chain, and what it shows   *)
(* of the commits gets one more item or one more hole.                     *)
LEMMA GrowthTook ==
    ASSUME EtchStoreTypeOK, NEW S, growth \in Seq(S), EtchesInGrowth, GrowthFollowsCommits,
           NEW of, growth' = InRing(growth, GrowthEvent(of)),
           NEW r \in Record \cup {Hole}, r = IF of.kind = "etch" THEN of.record ELSE Hole
    PROVE  /\ \A i \in 2..Len(growth') : growth'[i].parent = growth'[i - 1].hash
           /\ \E l \in Nat, k \in Nat :
                 /\ k <= l /\ l = Len(EtchesOf(growth))
                 /\ IsEndAnd(EtchesOf(growth'), EtchesOf(growth), l, k, r)
           /\ EtchesOf(growth) \in Seq(Record \cup {Hole})
           /\ EtchesOf(growth') \in Seq(Record \cup {Hole})
           /\ \A i \in DOMAIN EtchesOf(growth) :
                 \/ EtchesOf(growth)[i] = Hole
                 \/ EtchesOf(growth)[i] \in Record /\ EtchesOf(growth)[i].at <= applied
           /\ \A i \in DOMAIN growth' : \/ growth'[i].of = of
                                        \/ \E j \in DOMAIN growth : growth'[i] = growth[j]
<1>1. PICK y : y = GrowthEvent(of)
  OBVIOUS
<1>2. /\ y.of = of
      /\ y.parent = (IF growth = <<>> THEN NoGrowth ELSE Last(growth).hash)
  BY <1>1 DEF GrowthEvent
<1>3. PICK R : R = S \cup {y}
  OBVIOUS
<1>4. PICK happened : happened = growth
  OBVIOUS
<1>5. happened \in Seq(R) /\ y \in R
  <2>1. S \subseteq R
    BY <1>3
  <2> QED BY <1>3, <1>4, <2>1, SeqMonotonic
<1>6. PICK next : next = InRing(happened, y)
  OBVIOUS
<1>7. /\ next \in Seq(R)
      /\ \E l \in Nat, k \in Nat :
            /\ l = Len(happened) /\ k = (IF l = EtchCapacity THEN EtchCapacity - 1 ELSE l)
            /\ k <= l /\ k + 1 <= EtchCapacity
            /\ IsEndAnd(next, happened, l, k, y)
  <2>1. Len(happened) <= EtchCapacity
    BY <1>4 DEF EtchStoreTypeOK
  <2> QED BY <1>5, <1>6, <2>1, InRingTook
<1>8. PICK l \in Nat, k \in Nat :
         /\ l = Len(happened) /\ k = (IF l = EtchCapacity THEN EtchCapacity - 1 ELSE l)
         /\ k <= l /\ k + 1 <= EtchCapacity
         /\ IsEndAnd(next, happened, l, k, y)
  BY <1>7
<1>9. growth' = next
  BY <1>1, <1>4, <1>6
<1>10. \A i \in 2..Len(next) : next[i].parent = next[i - 1].hash
  <2>1. l # 0 => k # 0 \/ l = 1
    <3>1. PICK c \in Nat \ {0} : c = EtchCapacity
      BY EtchStoreAssumption
    <3> QED BY <1>8, <3>1
  <2>2. l # 0 => y.parent = happened[l].hash
    <3>1. l # 0 => happened # <<>>
      BY <1>5, <1>8
    <3> QED BY <1>2, <1>4, <1>8, <3>1 DEF Last
  <2>3. \A i \in 2..l : happened[i].parent = happened[i - 1].hash
    BY <1>4, <1>8 DEF GrowthFollowsCommits
  <2>4. l = Len(happened) /\ k <= l /\ IsEndAnd(next, happened, l, k, y)
    BY <1>8
  <2>5. happened \in Seq(R) /\ next \in Seq(R)
    BY <1>5, <1>7
  <2> QED BY ZenonT(60), <2>1, <2>2, <2>3, <2>4, <2>5, EventsChain
<1>11. \A i \in DOMAIN happened : /\ happened[i].of.kind = "etch" => happened[i].of.record \in Record
                                  /\ happened[i].of.kind = "etch" => happened[i].of.record.at <= applied
  BY <1>4 DEF EtchesInGrowth
<1>12. PICK a, b : a = EtchesOf(happened) /\ b = EtchesOf(next)
  OBVIOUS
<1>13. r = EtchOf(y)
  BY <1>2 DEF EtchOf
<1>14. /\ a \in Seq(Record \cup {Hole}) /\ b \in Seq(Record \cup {Hole}) /\ Len(a) = l
       /\ \A i \in 1..l : a[i] = Hole \/ (happened[i].of.kind = "etch" /\ a[i] = happened[i].of.record)
       /\ IsEndAnd(b, a, l, k, r)
  <2>1. l = Len(happened) /\ k <= l /\ IsEndAnd(next, happened, l, k, y)
    BY <1>8
  <2>2. happened \in Seq(R) /\ next \in Seq(R)
    BY <1>5, <1>7
  <2>3. KnowRecords(happened)
    BY <1>11 DEF KnowRecords
  <2>4. /\ EtchesOf(happened) \in Seq(Record \cup {Hole})
        /\ EtchesOf(next) \in Seq(Record \cup {Hole})
        /\ Len(EtchesOf(happened)) = l
        /\ AreShown(happened, l)
        /\ IsEndAnd(EtchesOf(next), EtchesOf(happened), l, k, r)
    BY <1>13, <2>1, <2>2, <2>3, EtchesTook
  <2> QED BY <1>12, <2>4 DEF AreShown
<1>15. \A i \in DOMAIN a : a[i] = Hole \/ (a[i] \in Record /\ a[i].at <= applied)
  <2>1. DOMAIN a = 1..l /\ DOMAIN happened = 1..l
    BY <1>5, <1>8, <1>14
  <2> QED BY <1>11, <1>14, <2>1
<1>16. \A i \in DOMAIN next : next[i].of = of \/ \E j \in DOMAIN happened : next[i] = happened[j]
  <2>1. /\ Len(next) = k + 1 /\ next[k + 1] = y
        /\ \A i \in 1..k : l - k + i \in 1..l /\ next[i] = happened[l - k + i]
    BY <1>8 DEF IsEndAnd
  <2>2. SUFFICES ASSUME NEW i \in 1..(k + 1)
                 PROVE  next[i].of = of \/ \E j \in 1..l : next[i] = happened[j]
    <3>1. next \in Seq(R) /\ Len(next) = k + 1
      BY <1>7, <2>1
    <3>2. DOMAIN next = 1..(k + 1)
      BY <3>1
    <3>3. DOMAIN happened = 1..l
      BY <1>5, <1>8
    <3> QED BY <3>2, <3>3
  <2>3. i = k + 1 \/ i \in 1..k
    OBVIOUS
  <2> QED BY <1>2, <2>1, <2>3
<1>17. \E g \in Nat, h \in Nat : h <= g /\ g = Len(a) /\ IsEndAnd(b, a, g, h, r)
  BY <1>8, <1>14
<1> QED BY <1>4, <1>9, <1>10, <1>12, <1>14, <1>15, <1>16, <1>17

LEMMA GrowthStep ==
    ASSUME EtchStoreTypeOK, NEW S, growth \in Seq(S), EtchesInGrowth, GrowthFollowsCommits,
           [EtchStoreNext]_etchStoreVars
    PROVE  EtchesInGrowth' /\ GrowthFollowsCommits'
<1>1. since \in Seq(Record) /\ applied \in Nat
  <2>1. applied \in 0..MaxApplied /\ MaxApplied \in Nat
    BY EtchStoreAssumption DEF EtchStoreTypeOK
  <2> QED BY <2>1 DEF EtchStoreTypeOK
<1>2. ASSUME /\ \A i \in DOMAIN growth' : growth'[i].of.kind = "etch" =>
                   growth'[i].of.record \in Record /\ growth'[i].of.record.at <= applied'
             /\ \A i \in 2..Len(growth') : growth'[i].parent = growth'[i - 1].hash
             /\ ShowsNewest(EtchesOf(growth'), since')
      PROVE  EtchesInGrowth' /\ GrowthFollowsCommits'
  BY <1>2 DEF EtchesInGrowth, GrowthFollowsCommits, CommitsOfGrowth, EtchesOf, ShowsNewest
<1>3. /\ \A i \in DOMAIN growth : growth[i].of.kind = "etch" =>
            growth[i].of.record \in Record /\ growth[i].of.record.at <= applied
      /\ \A i \in 2..Len(growth) : growth[i].parent = growth[i - 1].hash
      /\ ShowsNewest(EtchesOf(growth), since)
  BY DEF EtchesInGrowth, GrowthFollowsCommits, CommitsOfGrowth, EtchesOf
<1>4. PICK old, kept : old = EtchesOf(growth) /\ kept = since
  OBVIOUS
<1>5. ASSUME NEW of, growth' = InRing(growth, GrowthEvent(of)),
             NEW r \in Record \cup {Hole}, r = IF of.kind = "etch" THEN of.record ELSE Hole
      PROVE  /\ \A i \in 2..Len(growth') : growth'[i].parent = growth'[i - 1].hash
             /\ old \in Seq(Record \cup {Hole}) /\ EtchesOf(growth') \in Seq(Record \cup {Hole})
             /\ \E l \in Nat, k \in Nat : /\ k <= l /\ l = Len(old)
                                          /\ IsEndAnd(EtchesOf(growth'), old, l, k, r)
             /\ \A i \in DOMAIN old : old[i] = Hole \/ (old[i] \in Record /\ old[i].at <= applied)
             /\ \A i \in DOMAIN growth' : \/ growth'[i].of = of
                                          \/ \E j \in DOMAIN growth : growth'[i] = growth[j]
  BY <1>4, <1>5, GrowthTook
<1>6. ASSUME NEW c \in Contents, Commit(c) PROVE EtchesInGrowth' /\ GrowthFollowsCommits'
  <2>1. PICK r : r = [of |-> c, at |-> applied + 1, committed |-> TRUE]
    OBVIOUS
  <2>2. r \in Record /\ r.at = applied + 1
    BY <1>1, <2>1 DEF Record
  <2>3. PICK of : of = [kind |-> "etch", record |-> r]
    OBVIOUS
  <2>4. of.kind = "etch" /\ of.record = r
    BY <2>3
  <2>5. /\ growth' = InRing(growth, GrowthEvent(of)) /\ since' = Append(since, r)
        /\ applied' = applied + 1
    BY <1>6, <2>1, <2>3 DEF Commit
  <2>6. PICK next : next = EtchesOf(growth')
    OBVIOUS
  <2>7. /\ \A i \in 2..Len(growth') : growth'[i].parent = growth'[i - 1].hash
        /\ old \in Seq(Record \cup {Hole}) /\ next \in Seq(Record \cup {Hole})
        /\ \E l \in Nat, k \in Nat : k <= l /\ l = Len(old) /\ IsEndAnd(next, old, l, k, r)
        /\ \A i \in DOMAIN old : old[i] = Hole \/ (old[i] \in Record /\ old[i].at <= applied)
        /\ \A i \in DOMAIN growth' : \/ growth'[i].of = of
                                     \/ \E j \in DOMAIN growth : growth'[i] = growth[j]
    BY <1>5, <2>2, <2>4, <2>5, <2>6
  <2>8. PICK l \in Nat, k \in Nat : k <= l /\ l = Len(old) /\ IsEndAnd(next, old, l, k, r)
    BY <2>7
  <2>m. PICK m \in Nat : m = Len(kept)
    BY <1>1, <1>4
  <2>9. PICK more : more = Append(kept, r)
    OBVIOUS
  <2>10. IsEndAnd(more, kept, m, m, r)
    <3>1. /\ Len(more) = m + 1 /\ more[m + 1] = r /\ \A i \in 1..m : more[i] = kept[i]
      BY <1>1, <1>4, <2>2, <2>9, AppendProperties, <2>m
    <3>2. \A i \in 1..m : m - m + i = i
      OBVIOUS
    <3> QED BY <3>1, <3>2 DEF IsEndAnd
  <2>11. r # Hole /\ \A i \in 1..l : old[i] # r
    <3>1. r # Hole
      BY <2>2, HoleIsNoRecord
    <3>2. ASSUME NEW i \in 1..l, old[i] = r PROVE FALSE
      <4>1. i \in DOMAIN old
        BY <2>7, <2>8
      <4>2. r.at <= applied
        BY <2>7, <3>1, <3>2, <4>1
      <4> QED BY <1>1, <2>2, <4>2
    <3> QED BY <3>1, <3>2
  <2>12. ShowsNewest(next, more)
    <3>1. ShowsNewest(old, kept) /\ m <= m
      BY <1>3, <1>4
    <3> QED BY <2>7, <2>8, <2>m, <2>10, <2>11, <3>1, ShowsAfterBothTook
  <2>13. \A i \in DOMAIN growth' : growth'[i].of.kind = "etch" =>
            growth'[i].of.record \in Record /\ growth'[i].of.record.at <= applied + 1
    <3>1. ASSUME NEW i \in DOMAIN growth', growth'[i].of.kind = "etch"
          PROVE  growth'[i].of.record \in Record /\ growth'[i].of.record.at <= applied + 1
      <4>1. CASE growth'[i].of = of
        <5>1. r.at <= applied + 1
          BY <1>1, <2>2
        <5> QED BY <2>2, <2>4, <4>1, <5>1
      <4>2. CASE \E j \in DOMAIN growth : growth'[i] = growth[j]
        <5>1. PICK j \in DOMAIN growth : growth'[i] = growth[j]
          BY <4>2
        <5>2. PICK q : q = growth[j].of.record
          OBVIOUS
        <5>3. q \in Record /\ q.at <= applied
          BY <1>3, <3>1, <5>1, <5>2
        <5>4. q.at \in Nat
          BY <5>3 DEF Record
        <5>5. q.at <= applied + 1
          BY <1>1, <5>3, <5>4
        <5> QED BY <5>1, <5>2, <5>3, <5>5
      <4> QED BY <2>7, <3>1, <4>1, <4>2
    <3> QED BY <3>1
  <2> QED BY <1>2, <1>4, <2>5, <2>6, <2>7, <2>9, <2>12, <2>13
<1>7. CASE Celebrate
  <2>1. PICK of : of = [kind |-> "celebration"]
    OBVIOUS
  <2>2. of.kind # "etch"
    BY <2>1
  <2>3. growth' = InRing(growth, GrowthEvent(of)) /\ since' = since /\ applied' = applied
    BY <1>7, <2>1 DEF Celebrate
  <2>4. PICK next : next = EtchesOf(growth')
    OBVIOUS
  <2>5. /\ \A i \in 2..Len(growth') : growth'[i].parent = growth'[i - 1].hash
        /\ old \in Seq(Record \cup {Hole}) /\ next \in Seq(Record \cup {Hole})
        /\ \E l \in Nat, k \in Nat : k <= l /\ l = Len(old) /\ IsEndAnd(next, old, l, k, Hole)
        /\ \A i \in DOMAIN growth' : \/ growth'[i].of = of
                                     \/ \E j \in DOMAIN growth : growth'[i] = growth[j]
    <3>1. Hole \in Record \cup {Hole} /\ Hole = IF of.kind = "etch" THEN of.record ELSE Hole
      BY <2>2
    <3> QED BY <1>5, <2>3, <2>4, <3>1
  <2>6. ShowsNewest(next, kept)
    <3>1. PICK l \in Nat, k \in Nat : k <= l /\ l = Len(old) /\ IsEndAnd(next, old, l, k, Hole)
      BY <2>5
    <3>2. ShowsNewest(old, kept)
      BY <1>3, <1>4
    <3> QED BY <2>5, <3>1, <3>2, ShowsAfterHole
  <2>7. \A i \in DOMAIN growth' : growth'[i].of.kind = "etch" =>
           growth'[i].of.record \in Record /\ growth'[i].of.record.at <= applied
    BY <1>3, <2>2, <2>5
  <2> QED BY <1>2, <1>4, <2>3, <2>4, <2>5, <2>6, <2>7
<1>8. CASE Reopen
  <2>1. growth' = <<>> /\ since' = <<>>
    BY <1>8 DEF Reopen
  <2>2. DOMAIN growth' = {} /\ Len(growth') = 0
    BY <2>1
  <2>3. \A i \in 2..Len(growth') : FALSE
    BY <2>2
  <2>4. ShowsNewest(EtchesOf(growth'), since')
    <3>1. PICK none : none = EtchesOf(growth')
      OBVIOUS
    <3>2. DOMAIN none = {}
      BY <2>2, <3>1 DEF EtchesOf
    <3> QED BY <3>1, <3>2 DEF ShowsNewest
  <2> QED BY <1>2, <2>2, <2>3, <2>4
<1>9. ASSUME NEW c \in Contents, RejectEtch(c) PROVE EtchesInGrowth' /\ GrowthFollowsCommits'
  <2>1. growth' = growth /\ since' = since /\ applied' = applied + 1
    BY <1>9 DEF RejectEtch
  <2>2. \A i \in DOMAIN growth : growth[i].of.kind = "etch" =>
           growth[i].of.record \in Record /\ growth[i].of.record.at <= applied + 1
    <3>1. ASSUME NEW i \in DOMAIN growth, growth[i].of.kind = "etch"
          PROVE  growth[i].of.record.at <= applied + 1
      <4>1. PICK q : q = growth[i].of.record
        OBVIOUS
      <4>2. q \in Record /\ q.at <= applied
        BY <1>3, <3>1, <4>1
      <4>3. q.at \in Nat
        BY <4>2 DEF Record
      <4> QED BY <1>1, <4>1, <4>2, <4>3
    <3> QED BY <1>3, <3>1
  <2> QED BY <1>2, <1>3, <2>1, <2>2
<1>10. CASE Snapshot \/ UNCHANGED etchStoreVars \/ \E shot \in shots : RestoreEtches(shot)
  <2>1. growth' = growth /\ since' = since /\ applied' = applied
    BY <1>10 DEF Snapshot, etchStoreVars, RestoreEtches
  <2> QED BY <1>2, <1>3, <2>1
<1> QED BY <1>6, <1>7, <1>8, <1>9, <1>10 DEF EtchStoreNext

(* The rings follow the file of etches over any number of restarts while   *)
(* the disk holds, an audit line on disk has its etch as long as the file  *)
(* of etches parses, and the growth ledger is one chain that shows the     *)
(* newest commits, for every capacity and whatever append fails, before or *)
(* after a part was written, and whatever is reopened, snapped or restored.*)
THEOREM EtchesAreKept == EtchStoreSpec => []EtchStoreInv
<1>1. EtchStoreInit => EtchIInv
  <2>1. SUFFICES ASSUME EtchStoreInit PROVE EtchIInv
    OBVIOUS
  <2>2. /\ etches = <<>> /\ audit = <<>> /\ growth = <<>>
        /\ etchFile = <<>> /\ auditFile = <<>> /\ sentOn = <<>>
        /\ applied = 0 /\ upsets = 0 /\ shots = {}
        /\ sound = TRUE /\ cut = FALSE /\ since = <<>>
    BY <2>1 DEF EtchStoreInit
  <2>3. EtchStoreTypeOK /\ growth \in Seq({})
    <3>1. Len(<<>>) <= EtchCapacity /\ 0 \in 0..MaxApplied /\ 0 \in 0..MaxUpsets
      BY EtchStoreAssumption
    <3>2. /\ <<>> \in Seq(Record) /\ <<>> \in Seq(Contents) /\ <<>> \in Seq({})
      OBVIOUS
    <3>3. growth \in Seq({}) /\ Len(growth) <= EtchCapacity
      BY <2>2, <3>1, <3>2
    <3>4. /\ etches \in Seq(Record) /\ audit \in Seq(Record)
          /\ Len(etches) <= EtchCapacity /\ Len(audit) <= EtchCapacity
      BY <2>2, <3>1, <3>2
    <3>5. /\ etchFile \in Seq(Line) /\ auditFile \in Seq(Line)
          /\ sentOn \in Seq(Contents) /\ since \in Seq(Record)
      BY <2>2, <3>2
    <3>6. /\ applied \in 0..MaxApplied /\ upsets \in 0..MaxUpsets /\ sound \in BOOLEAN
          /\ cut \in BOOLEAN /\ shots \subseteq [etches : Seq(Record), audit : Seq(Record)]
      BY <2>2, <3>1
    <3> QED BY <3>3, <3>4, <3>5, <3>6 DEF EtchStoreTypeOK
  <2>4. SoundRings /\ AuditFileWithinEtchFile /\ ShotsWithin /\ EtchesInGrowth
    BY <2>2 DEF SoundRings, AuditFileWithinEtchFile, ShotsWithin, EtchesInGrowth, Ascending, Whole,
                Texts
  <2>5. RingsFollowTheFile
    <3>1. etches = NewestOf(Texts(etchFile), EtchCapacity)
      <4>1. NewestOf(Texts(etchFile), EtchCapacity) \in Seq(Record)
            /\ Len(NewestOf(Texts(etchFile), EtchCapacity)) = 0
        <5>1. PICK c \in Nat \ {0} : c = EtchCapacity
          BY EtchStoreAssumption
        <5>2. PICK f : f = Texts(etchFile)
          OBVIOUS
        <5>e. f \in Seq(Record) /\ Len(f) = 0
          <6>1. etchFile \in Seq(Line) /\ Len(etchFile) = 0 /\ Parses(etchFile)
            BY <2>2 DEF Parses
          <6> QED BY <5>2, <6>1, TextsAreRecords
        <5>3. /\ LastItems(f, c) \in Seq(Record)
              /\ \E l \in Nat, k \in Nat : /\ l = Len(f) /\ k = (IF c < l THEN c ELSE l)
                                           /\ IsEnd(LastItems(f, c), f, l, k)
          <6>1. f \in Seq(Record)
            BY <5>e
          <6> QED BY <6>1, LastItemsAre
        <5>4. Len(f) = 0
          BY <5>e
        <5>5. Len(LastItems(f, c)) = 0
          BY <5>3, <5>4 DEF IsEnd
        <5>6. NewestOf(Texts(etchFile), EtchCapacity) = LastItems(f, c)
          BY <5>1, <5>2 DEF NewestOf, LastItems
        <5> QED BY <5>3, <5>5, <5>6
      <4> QED BY <2>2, <4>1
    <3>2. DOMAIN CommitsOfAudit = {}
      BY <2>2 DEF CommitsOfAudit
    <3> QED BY <3>1, <3>2 DEF RingsFollowTheFile, ShowsNewest
  <2>6. GrowthFollowsCommits
    <3>1. DOMAIN CommitsOfGrowth = {}
      BY <2>2 DEF CommitsOfGrowth
    <3>2. Len(growth) = 0
      BY <2>2
    <3> QED BY <3>1, <3>2 DEF GrowthFollowsCommits, ShowsNewest
  <2> QED BY <2>3, <2>4, <2>5, <2>6 DEF EtchIInv
<1>2. EtchIInv /\ [EtchStoreNext]_etchStoreVars => EtchIInv'
  <2>1. SUFFICES ASSUME EtchIInv, [EtchStoreNext]_etchStoreVars PROVE EtchIInv'
    OBVIOUS
  <2>2. /\ EtchStoreTypeOK /\ SoundRings /\ RingsFollowTheFile /\ AuditFileWithinEtchFile
        /\ ShotsWithin /\ EtchesInGrowth /\ GrowthFollowsCommits
    BY <2>1 DEF EtchIInv
  <2>3. PICK S : growth \in Seq(S)
    BY <2>1 DEF EtchIInv
  <2>4. EtchStoreTypeOK' /\ \E R : growth' \in Seq(R)
    BY <2>1, <2>2, <2>3, EtchTypeStep
  <2>5. SoundRings' /\ RingsFollowTheFile'
    BY <2>1, <2>2, <2>4, RingsStep
  <2>6. AuditFileWithinEtchFile' /\ ShotsWithin'
    BY <2>1, <2>2, FilesStep
  <2>7. EtchesInGrowth' /\ GrowthFollowsCommits'
    BY <2>1, <2>2, <2>3, GrowthStep
  <2> QED BY <2>4, <2>5, <2>6, <2>7 DEF EtchIInv
<1>3. EtchIInv => EtchStoreInv
  BY DEF EtchIInv, EtchStoreInv
<1> QED BY <1>1, <1>2, <1>3, PTL DEF EtchStoreSpec
=============================================================================
