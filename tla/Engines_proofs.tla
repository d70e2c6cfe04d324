----------------------------- MODULE Engines_proofs -----------------------------
(***************************************************************************)
(* Proofs about components that act, for every value of their constants:   *)
(* the CUDA layer loads every kernel and keeps the latest provenance; the  *)
(* hot path chains and marks every answer; providers fail over in a stable *)
(* order; a flawed efficacy run decides nothing; alerts are dispatched in  *)
(* full, each to its own issue, the novel ones not to Slack; a leg loop    *)
(* reports what was done in its own run; and answers of organelles are     *)
(* merged in full.  After the loops, the same within one system, where     *)
(* they share a memory.  What computes step by step goes before the merges.*)
(***************************************************************************)
EXTENDS MCEngines, SequenceTheorems, FiniteSetTheorems, WellFoundedInduction,
        NaturalsInduction, TLAPS

-----------------------------------------------------------------------------
(* The CUDA layer. *)

RunRecord == [at : {"running", "sealing"}, session : 1..MaxSessions, on : SUBSET Provider,
              clean : BOOLEAN]

HardwareTyped ==
    /\ session \in [Kernels -> 0..MaxSessions] /\ created \in 0..MaxSessions
    /\ loaded \in BOOLEAN /\ load \in [Loads -> {Unset} \cup LoadIndex]
    /\ profile \in [1..MaxSessions -> SUBSET Provider]
    /\ run \in [Runs -> {Idle} \cup RunRecord]
    /\ started \in 0..MaxRuns /\ logged \in Nat
    /\ sink \in Seq(Nat) /\ returned \subseteq 1..logged

(* A call that loads kernels has given each kernel before its place a      *)
(* session.                                                                *)
LoadedSoFar ==
    \A l \in Loads : load[l] # Unset =>
        \A i \in 1..(load[l] - 1) : session[KernelOps[i]] # Unset

RunsOn(r, s) == run[r].at = "running" /\ run[r].session = s

(* A clean run has its session to itself, and the profile of the session   *)
(* names only providers it ran on.                                         *)
CleanRunsAreAlone ==
    \A r \in Runs : run[r].at = "running" /\ run[r].clean =>
        /\ profile[run[r].session] \subseteq run[r].on
        /\ \A q \in Runs \ {r} : ~RunsOn(q, run[r].session)

(* The sink is the tail of the log of provenance.                          *)
SinkIsTail ==
    /\ Len(sink) = IF logged <= SinkCapacity THEN logged ELSE SinkCapacity
    /\ \A i \in 1..Len(sink) : sink[i] = logged - Len(sink) + i

(* Every entry was logged by a run that has ended.                         *)
Busy == {r \in Runs : run[r] # Idle}
EntriesAreOfRuns == IsFiniteSet(Busy) /\ logged + Cardinality(Busy) <= started

HardwareIInv ==
    /\ HardwareTyped
    /\ LoadedSoFar /\ LoadedMeansEveryKernel
    /\ CleanRunsAreAlone /\ LoneRunsAreVerified
    /\ SinkIsTail /\ EntriesAreOfRuns

(* Every kernel has a place in the order, and every place a kernel.        *)
LEMMA KernelPlaces ==
    /\ Len(KernelOps) \in Nat
    /\ \A i \in 1..Len(KernelOps) : KernelOps[i] \in Kernels
    /\ \A op \in Kernels : \E i \in 1..Len(KernelOps) : op = KernelOps[i]
<1>1. KernelOps \in Seq(STRING)
  BY HardwareAssumption
<1>2. DOMAIN KernelOps = 1..Len(KernelOps) /\ Len(KernelOps) \in Nat
  BY <1>1
<1> QED BY <1>2 DEF Kernels, Range

(* Loading takes a place in the order only after its kernel has a session, *)
(* and never takes a session away.                                         *)
LEMMA LoadsKeep ==
    ASSUME HardwareTyped, LoadedSoFar, LoadedMeansEveryKernel, [HardwareNext]_hardwareVars
    PROVE  /\ session' \in [Kernels -> 0..MaxSessions] /\ created' \in 0..MaxSessions
           /\ loaded' \in BOOLEAN /\ load' \in [Loads -> {Unset} \cup LoadIndex]
           /\ LoadedSoFar' /\ LoadedMeansEveryKernel'
<1> USE HardwareAssumption DEF Unset
<1>1. PICK n \in Nat : n = Len(KernelOps)
  BY KernelPlaces
<1>2. LoadIndex = 1..(n + 1) /\ DOMAIN KernelOps = 1..n
  BY <1>1 DEF LoadIndex
<1>3. \A l \in Loads : load[l] = 0 \/ load[l] \in 1..(n + 1)
  BY <1>2 DEF HardwareTyped
<1>4. ASSUME NEW l \in Loads, BeginLoad(l)
      PROVE  /\ session' \in [Kernels -> 0..MaxSessions] /\ created' \in 0..MaxSessions
             /\ loaded' \in BOOLEAN /\ load' \in [Loads -> {Unset} \cup LoadIndex]
             /\ LoadedSoFar' /\ LoadedMeansEveryKernel'
  <2>1. load' = [load EXCEPT ![l] = 1] /\ 1 \in LoadIndex
    BY <1>2, <1>4 DEF BeginLoad
  <2>2. UNCHANGED <<session, created, loaded>>
    BY <1>4 DEF BeginLoad
  <2>3. load' \in [Loads -> {Unset} \cup LoadIndex]
    BY <2>1 DEF HardwareTyped
  <2>4. LoadedSoFar'
    <3>1. SUFFICES ASSUME NEW m \in Loads, load'[m] # 0, NEW i \in 1..(load'[m] - 1)
                   PROVE  session[KernelOps[i]] # 0
      BY <2>2 DEF LoadedSoFar
    <3>2. m # l
      BY <2>1, <3>1 DEF HardwareTyped
    <3> QED BY <2>1, <3>1, <3>2 DEF LoadedSoFar, HardwareTyped
  <2> QED BY <2>2, <2>3, <2>4 DEF HardwareTyped, LoadedMeansEveryKernel
<1>5. ASSUME NEW l \in Loads, CreateSession(l)
      PROVE  /\ session' \in [Kernels -> 0..MaxSessions] /\ created' \in 0..MaxSessions
             /\ loaded' \in BOOLEAN /\ load' \in [Loads -> {Unset} \cup LoadIndex]
             /\ LoadedSoFar' /\ LoadedMeansEveryKernel'
  <2>1. /\ load[l] \in 1..n /\ created' = created + 1 /\ created < MaxSessions
        /\ session' = [session EXCEPT ![KernelOps[load[l]]] = created + 1]
        /\ load' = [load EXCEPT ![l] = load[l] + 1]
        /\ UNCHANGED loaded
    BY <1>2, <1>5 DEF CreateSession
  <2>2. KernelOps[load[l]] \in Kernels
    BY <1>1, <2>1, KernelPlaces
  <2>3. created' \in 0..MaxSessions /\ created + 1 \in 0..MaxSessions /\ created + 1 # 0
    BY <2>1 DEF HardwareTyped
  <2>4. session' \in [Kernels -> 0..MaxSessions]
    BY <2>1, <2>2, <2>3 DEF HardwareTyped
  <2>5. load[l] + 1 \in LoadIndex
    BY <1>2, <2>1
  <2>6. load' \in [Loads -> {Unset} \cup LoadIndex]
    BY <2>1, <2>5 DEF HardwareTyped
  <2>7. \A op \in Kernels : session[op] # 0 => session'[op] # 0
    BY <2>1, <2>2, <2>3 DEF HardwareTyped
  <2>8. session'[KernelOps[load[l]]] # 0
    BY <2>1, <2>2, <2>3 DEF HardwareTyped
  <2>9. LoadedSoFar'
    <3>1. SUFFICES ASSUME NEW m \in Loads, load'[m] # 0, NEW i \in 1..(load'[m] - 1)
                   PROVE  session'[KernelOps[i]] # 0
      BY DEF LoadedSoFar
    <3>2. m = l => load'[m] = load[l] + 1
      BY <2>1 DEF HardwareTyped
    <3>3. m # l => load'[m] = load[m]
      BY <2>1 DEF HardwareTyped
    <3>4. load'[m] \in 1..(n + 1)
      BY <1>2, <2>6, <3>1
    <3>5. i \in 1..n /\ KernelOps[i] \in Kernels
      BY <1>1, <3>4, KernelPlaces
    <3>6. CASE m = l
      <4>1. i = load[l] \/ i \in 1..(load[l] - 1)
        BY <2>1, <3>2, <3>6
      <4>2. load[l] # 0
        BY <2>1
      <4> QED BY <2>7, <2>8, <3>5, <4>1, <4>2 DEF LoadedSoFar
    <3>7. CASE m # l
      <4>1. session[KernelOps[i]] # 0
        BY <3>1, <3>3, <3>7 DEF LoadedSoFar
      <4> QED BY <2>7, <3>5, <4>1
    <3> QED BY <3>6, <3>7
  <2>10. LoadedMeansEveryKernel'
    BY <2>1, <2>7 DEF LoadedMeansEveryKernel
  <2> QED BY <2>1, <2>3, <2>4, <2>6, <2>9, <2>10 DEF HardwareTyped
<1>6. ASSUME NEW l \in Loads, load' = [load EXCEPT ![l] = 0], UNCHANGED <<session, created>>,
             loaded' = loaded \/ (loaded' = TRUE /\ AllCreated(l))
      PROVE  /\ session' \in [Kernels -> 0..MaxSessions] /\ created' \in 0..MaxSessions
             /\ loaded' \in BOOLEAN /\ load' \in [Loads -> {Unset} \cup LoadIndex]
             /\ LoadedSoFar' /\ LoadedMeansEveryKernel'
  <2>1. load' \in [Loads -> {Unset} \cup LoadIndex]
    BY <1>6 DEF HardwareTyped
  <2>2. LoadedSoFar'
    <3>1. SUFFICES ASSUME NEW m \in Loads, load'[m] # 0, NEW i \in 1..(load'[m] - 1)
                   PROVE  session[KernelOps[i]] # 0
      BY <1>6 DEF LoadedSoFar
    <3>2. m # l
      BY <1>6, <3>1 DEF HardwareTyped
    <3> QED BY <1>6, <3>1, <3>2 DEF LoadedSoFar, HardwareTyped
  <2>3. CASE AllCreated(l)
    <3>1. load[l] = n + 1
      BY <1>1, <1>3, <2>3 DEF AllCreated
    <3>2. \A i \in 1..n : session[KernelOps[i]] # 0
      BY <3>1 DEF LoadedSoFar
    <3>3. \A op \in Kernels : session[op] # 0
      BY <1>1, <3>2, KernelPlaces
    <3> QED BY <1>6, <2>1, <2>2, <3>3 DEF LoadedMeansEveryKernel, HardwareTyped
  <2>4. CASE loaded' = loaded
    BY <1>6, <2>1, <2>2, <2>4 DEF LoadedMeansEveryKernel, HardwareTyped
  <2> QED BY <1>6, <2>3, <2>4
<1>7. ASSUME NEW l \in Loads, LoadFails(l) \/ EndLoad(l)
      PROVE  /\ session' \in [Kernels -> 0..MaxSessions] /\ created' \in 0..MaxSessions
             /\ loaded' \in BOOLEAN /\ load' \in [Loads -> {Unset} \cup LoadIndex]
             /\ LoadedSoFar' /\ LoadedMeansEveryKernel'
  <2>1. /\ load' = [load EXCEPT ![l] = 0] /\ UNCHANGED <<session, created>>
        /\ loaded' = loaded \/ (loaded' = TRUE /\ AllCreated(l))
    BY <1>7 DEF LoadFails, EndLoad
  <2> QED BY <1>6, <2>1
<1>8. CASE UNCHANGED <<session, created, loaded, load>>
  BY <1>8 DEF HardwareTyped, LoadedSoFar, LoadedMeansEveryKernel
<1>9. \/ \E l \in Loads : BeginLoad(l) \/ CreateSession(l) \/ LoadFails(l) \/ EndLoad(l)
      \/ UNCHANGED <<session, created, loaded, load>>
  BY DEF HardwareNext, hardwareVars, BeginRun, ExecuteNode, EndRun, RunFails, SealRun, SinkFails
<1> QED BY <1>4, <1>5, <1>7, <1>8, <1>9

(* What a run is tells where it is.                                        *)
LEMMA RunsAre ==
    ASSUME HardwareTyped, NEW r \in Runs
    PROVE  /\ run[r] = Idle \/ run[r] \in RunRecord
           /\ run[r] = Idle <=> run[r].at = "idle"
           /\ run[r].at # "idle" =>
                 /\ run[r] \in RunRecord /\ run[r].session \in 1..MaxSessions
                 /\ run[r].on \subseteq Provider /\ run[r].clean \in BOOLEAN
           /\ run[r].at \in {"idle", "running", "sealing"}
<1>1. run[r] \in {Idle} \cup RunRecord
  BY DEF HardwareTyped
<1>2. Idle.at = "idle"
  BY DEF Idle
<1>3. \A x \in RunRecord : /\ x.at \in {"running", "sealing"} /\ x.session \in 1..MaxSessions
                           /\ x.on \subseteq Provider /\ x.clean \in BOOLEAN
  BY DEF RunRecord
<1> QED BY <1>1, <1>2, <1>3

(* The runs that are busy after one of them changed.                       *)
LEMMA BusyAfter ==
    ASSUME HardwareTyped, EntriesAreOfRuns, NEW r \in Runs, run' \in [Runs -> {Idle} \cup RunRecord],
           \A q \in Runs \ {r} : run'[q] = Idle <=> run[q] = Idle
    PROVE  /\ IsFiniteSet(Busy') /\ Cardinality(Busy') \in Nat /\ Cardinality(Busy) \in Nat
           /\ run[r] = Idle /\ run'[r] # Idle => Cardinality(Busy') = Cardinality(Busy) + 1
           /\ run[r] # Idle /\ run'[r] = Idle => Cardinality(Busy') = Cardinality(Busy) - 1
           /\ (run[r] = Idle <=> run'[r] = Idle) => Cardinality(Busy') = Cardinality(Busy)
<1>1. PICK b : b = Busy
  OBVIOUS
<1>2. PICK c : c = Busy'
  OBVIOUS
<1>3. IsFiniteSet(b)
  BY <1>1 DEF EntriesAreOfRuns
<1>4. /\ IsFiniteSet(b \cup {r}) /\ IsFiniteSet(b \ {r})
      /\ Cardinality(b \cup {r}) = IF r \in b THEN Cardinality(b) ELSE Cardinality(b) + 1
      /\ Cardinality(b \ {r}) = IF r \in b THEN Cardinality(b) - 1 ELSE Cardinality(b)
  BY <1>3, FS_AddElement, FS_RemoveElement
<1>5. run[r] = Idle /\ run'[r] # Idle => c = b \cup {r} /\ r \notin b
  BY <1>1, <1>2 DEF Busy
<1>6. run[r] # Idle /\ run'[r] = Idle => c = b \ {r} /\ r \in b
  BY <1>1, <1>2 DEF Busy
<1>7. (run[r] = Idle <=> run'[r] = Idle) => c = b
  BY <1>1, <1>2 DEF Busy
<1>8. IsFiniteSet(c)
  BY <1>3, <1>4, <1>5, <1>6, <1>7
<1>9. Cardinality(b) \in Nat /\ Cardinality(c) \in Nat
  BY <1>3, <1>8, FS_CardinalityType
<1>10. CASE run[r] = Idle /\ run'[r] # Idle
  BY <1>1, <1>2, <1>4, <1>5, <1>8, <1>9, <1>10
<1>11. CASE run[r] # Idle /\ run'[r] = Idle
  BY <1>1, <1>2, <1>4, <1>6, <1>8, <1>9, <1>11
<1>12. CASE run[r] = Idle <=> run'[r] = Idle
  BY <1>1, <1>2, <1>7, <1>8, <1>9, <1>12
<1> QED BY <1>10, <1>11, <1>12

(* What a run needs of the state before to keep it.                        *)
RunInv ==
    /\ profile \in [1..MaxSessions -> SUBSET Provider]
    /\ run \in [Runs -> {Idle} \cup RunRecord]
    /\ started \in 0..MaxRuns /\ logged \in Nat
    /\ sink \in Seq(Nat) /\ returned \subseteq 1..logged
    /\ CleanRunsAreAlone /\ LoneRunsAreVerified /\ SinkIsTail /\ EntriesAreOfRuns

LEMMA BeginRunKeeps ==
    ASSUME HardwareIInv, NEW r \in Runs, NEW op \in Kernels, BeginRun(r, op)
    PROVE  RunInv'
<1>1. HardwareTyped /\ EntriesAreOfRuns /\ CleanRunsAreAlone /\ LoneRunsAreVerified /\ SinkIsTail
  BY DEF HardwareIInv
<1>2. PICK s : s = session[op]
  OBVIOUS
<1>3. s \in 1..MaxSessions /\ run[r] = Idle /\ started < MaxRuns /\ started' = started + 1
  <2>1. session[op] \in 0..MaxSessions /\ session[op] # 0
    BY <1>1 DEF BeginRun, HardwareTyped, Unset
  <2>2. MaxSessions \in Nat
    BY HardwareAssumption
  <2> QED BY <1>2, <2>1, <2>2 DEF BeginRun
<1>4. UNCHANGED <<profile, logged, sink, returned>>
  BY DEF BeginRun
<1>5. PICK clean \in BOOLEAN : clean <=> Using(s) = {} /\ profile[s] = {}
  OBVIOUS
<1>6. PICK new : new = [at |-> "running", session |-> s, on |-> {}, clean |-> clean]
  OBVIOUS
<1>7. run' = [q \in Runs |-> CASE q = r -> new
                               [] q \in Using(s) -> [run[q] EXCEPT !.clean = FALSE]
                               [] OTHER -> run[q]]
  <2>1. clean = (Using(s) = {} /\ profile[s] = {})
    BY <1>5
  <2> QED BY <1>2, <1>6, <2>1 DEF BeginRun
<1>8. new \in RunRecord /\ new.at = "running" /\ new.session = s /\ new.clean = clean /\ new.on = {}
  BY <1>3, <1>5, <1>6 DEF RunRecord, Provider
<1>10. r \notin Using(s)
  <2>1. run[r].at = "idle"
    BY <1>1, <1>3, RunsAre
  <2> QED BY <2>1 DEF Using
<1>9. run'[r] = new
  BY <1>7, <1>10
<1>11. ASSUME NEW q \in Runs \ {r}
       PROVE  \/ /\ q \in Using(s) /\ run'[q] \in RunRecord /\ run[q] \in RunRecord
                 /\ run'[q].at = "running" /\ run'[q].session = s /\ ~run'[q].clean
              \/ q \notin Using(s) /\ run'[q] = run[q]
  <2>1. CASE q \in Using(s)
    <3>1. run'[q] = [run[q] EXCEPT !.clean = FALSE]
      BY <1>7, <2>1
    <3>2. run[q].at = "running" /\ run[q].session = s
      BY <2>1 DEF Using
    <3>3. run[q] \in RunRecord
      BY <1>1, <3>2, RunsAre
    <3> QED BY <2>1, <3>1, <3>2, <3>3 DEF RunRecord
  <2>2. CASE q \notin Using(s)
    BY <1>7, <2>2
  <2> QED BY <2>1, <2>2
<1>12. run' \in [Runs -> {Idle} \cup RunRecord]
  <2>1. run' = [q \in Runs |-> run'[q]]
    BY <1>7
  <2>2. \A q \in Runs : run'[q] \in {Idle} \cup RunRecord
    BY <1>1, <1>8, <1>9, <1>11 DEF HardwareTyped
  <2> QED BY <2>1, <2>2
<1>13. \A x \in RunRecord : x # Idle
  BY DEF RunRecord, Idle
<1>14. IsFiniteSet(Busy') /\ logged + Cardinality(Busy') <= started'
  <2>1. \A q \in Runs \ {r} : run'[q] = Idle <=> run[q] = Idle
    BY <1>11, <1>13
  <2>2. run'[r] # Idle
    BY <1>8, <1>9, <1>13
  <2>3. /\ IsFiniteSet(Busy') /\ Cardinality(Busy) \in Nat
        /\ Cardinality(Busy') = Cardinality(Busy) + 1
    BY <1>1, <1>3, <1>12, <2>1, <2>2, BusyAfter
  <2>4. logged + Cardinality(Busy) <= started /\ logged \in Nat /\ started \in Nat
    BY <1>1 DEF EntriesAreOfRuns, HardwareTyped
  <2> QED BY <1>3, <2>3, <2>4
<1>15. CleanRunsAreAlone'
  <2>1. SUFFICES ASSUME NEW q \in Runs, run'[q].at = "running", run'[q].clean
                 PROVE  /\ profile[run'[q].session] \subseteq run'[q].on
                        /\ \A p \in Runs \ {q} :
                              ~(run'[p].at = "running" /\ run'[p].session = run'[q].session)
    BY <1>4 DEF CleanRunsAreAlone, RunsOn
  <2>2. CASE q = r
    <3>1. clean
      BY <1>8, <1>9, <2>1, <2>2
    <3>2. Using(s) = {} /\ profile[s] = {}
      BY <1>5, <3>1
    <3>3. ASSUME NEW p \in Runs \ {r} PROVE ~(run'[p].at = "running" /\ run'[p].session = s)
      <4>1. run'[p] = run[p]
        BY <1>11, <3>2
      <4> QED BY <3>2, <4>1 DEF Using
    <3> QED BY <1>8, <1>9, <2>2, <3>2, <3>3
  <2>3. CASE q # r
    <3>1. q \notin Using(s) /\ run'[q] = run[q]
      BY <1>11, <2>1, <2>3
    <3>2. run[q].session # s
      BY <2>1, <3>1 DEF Using
    <3>3. /\ profile[run[q].session] \subseteq run[q].on
          /\ \A p \in Runs \ {q} : ~(run[p].at = "running" /\ run[p].session = run[q].session)
      BY <1>1, <2>1, <3>1 DEF CleanRunsAreAlone, RunsOn
    <3>4. ASSUME NEW p \in Runs \ {q}
          PROVE  ~(run'[p].at = "running" /\ run'[p].session = run[q].session)
      BY <1>8, <1>9, <1>11, <3>2, <3>3
    <3> QED BY <3>1, <3>3, <3>4
  <2> QED BY <2>2, <2>3
<1>16. LoneRunsAreVerified'
  <2>1. SUFFICES ASSUME NEW q \in Runs, run'[q].at = "sealing", run'[q].clean
                 PROVE  "cuda" \in run'[q].on
    BY DEF LoneRunsAreVerified
  <2>2. q # r
    BY <1>8, <1>9, <2>1
  <2>3. run'[q] = run[q]
    BY <1>11, <2>1, <2>2
  <2> QED BY <1>1, <2>1, <2>3 DEF LoneRunsAreVerified
<1>17. started' \in 0..MaxRuns
  BY <1>1, <1>3, HardwareAssumption DEF HardwareTyped
<1>18. SinkIsTail'
  BY <1>1, <1>4 DEF SinkIsTail
<1>19. EntriesAreOfRuns'
  BY <1>4, <1>14 DEF EntriesAreOfRuns
<1> QED BY <1>1, <1>4, <1>12, <1>15, <1>16, <1>17, <1>18, <1>19 DEF RunInv, HardwareTyped

(* A busy run goes on or ends; no profile grows but that of its session.   *)
LEMMA OneRunChanges ==
    ASSUME HardwareTyped, EntriesAreOfRuns, CleanRunsAreAlone, LoneRunsAreVerified,
           NEW r \in Runs, run[r].at # "idle",
           NEW x \in {Idle} \cup RunRecord, run' = [run EXCEPT ![r] = x],
           x.at = "running" =>
              /\ run[r].at = "running" /\ x.session = run[r].session
              /\ x.clean => run[r].clean /\ profile'[x.session] \subseteq x.on,
           x.at = "sealing" /\ x.clean => "cuda" \in x.on,
           \A s \in 1..MaxSessions : profile'[s] \subseteq profile[s] \/ RunsOn(r, s)
    PROVE  /\ run' \in [Runs -> {Idle} \cup RunRecord]
           /\ CleanRunsAreAlone' /\ LoneRunsAreVerified'
           /\ IsFiniteSet(Busy') /\ Cardinality(Busy') \in Nat /\ Cardinality(Busy) \in Nat
           /\ x = Idle => Cardinality(Busy') = Cardinality(Busy) - 1
           /\ x # Idle => Cardinality(Busy') = Cardinality(Busy)
<1>1. run \in [Runs -> {Idle} \cup RunRecord]
  BY DEF HardwareTyped
<1>2. run'[r] = x /\ \A q \in Runs \ {r} : run'[q] = run[q]
  BY <1>1
<1>3. run' \in [Runs -> {Idle} \cup RunRecord]
  BY <1>1
<1>4. run[r] # Idle
  BY RunsAre
<1>5. CleanRunsAreAlone'
  <2>1. SUFFICES ASSUME NEW q \in Runs, run'[q].at = "running", run'[q].clean
                 PROVE  /\ profile'[run'[q].session] \subseteq run'[q].on
                        /\ \A p \in Runs \ {q} :
                              ~(run'[p].at = "running" /\ run'[p].session = run'[q].session)
    BY DEF CleanRunsAreAlone, RunsOn
  <2>2. /\ run[q].at = "running" /\ run[q].clean /\ run'[q].session = run[q].session
        /\ q # r => run'[q] = run[q]
    BY <1>2, <2>1
  <2>3. /\ profile[run[q].session] \subseteq run[q].on
        /\ \A p \in Runs \ {q} : ~RunsOn(p, run[q].session)
    BY <2>2 DEF CleanRunsAreAlone
  <2>4. run[q].session \in 1..MaxSessions
    BY <2>2, RunsAre
  <2>5. profile'[run'[q].session] \subseteq run'[q].on
    <3>1. CASE q = r
      BY <1>2, <2>1, <3>1
    <3>2. CASE q # r
      <4>1. ~RunsOn(r, run[q].session)
        BY <2>3, <3>2
      <4>2. profile'[run[q].session] \subseteq profile[run[q].session]
        BY <2>4, <4>1
      <4> QED BY <2>2, <2>3, <3>2, <4>2
    <3> QED BY <3>1, <3>2
  <2>6. ASSUME NEW p \in Runs \ {q}, run'[p].at = "running", run'[p].session = run'[q].session
        PROVE  FALSE
    <3>1. run[p].at = "running" /\ run[p].session = run[q].session
      BY <1>2, <2>2, <2>6
    <3> QED BY <2>3, <3>1 DEF RunsOn
  <2> QED BY <2>5, <2>6
<1>6. LoneRunsAreVerified'
  <2>1. SUFFICES ASSUME NEW q \in Runs, run'[q].at = "sealing", run'[q].clean
                 PROVE  "cuda" \in run'[q].on
    BY DEF LoneRunsAreVerified
  <2>2. CASE q = r
    BY <1>2, <2>1, <2>2
  <2>3. CASE q # r
    BY <1>2, <2>1, <2>3 DEF LoneRunsAreVerified
  <2> QED BY <2>2, <2>3
<1>7. \A q \in Runs \ {r} : run'[q] = Idle <=> run[q] = Idle
  BY <1>2
<1>8. /\ IsFiniteSet(Busy') /\ Cardinality(Busy') \in Nat /\ Cardinality(Busy) \in Nat
      /\ run[r] # Idle /\ run'[r] = Idle => Cardinality(Busy') = Cardinality(Busy) - 1
      /\ (run[r] = Idle <=> run'[r] = Idle) => Cardinality(Busy') = Cardinality(Busy)
  BY <1>3, <1>7, BusyAfter
<1> QED BY <1>2, <1>3, <1>4, <1>5, <1>6, <1>8

(* The sink stays the tail of the log when an entry is appended.           *)
LEMMA SinkKeepsTail ==
    ASSUME sink \in Seq(Nat), logged \in Nat, SinkIsTail, logged' = logged + 1,
           sink' = Kept(Append(sink, logged + 1))
    PROVE  sink' \in Seq(Nat) /\ SinkIsTail'
<1> USE HardwareAssumption
<1>1. PICK n \in Nat : n = Len(sink)
  OBVIOUS
<1>2. PICK c \in Nat \ {0} : c = SinkCapacity
  OBVIOUS
<1>3. PICK all : all = Append(sink, logged + 1)
  OBVIOUS
<1>10. logged + 1 \in Nat
  OBVIOUS
<1>11. /\ all \in Seq(Nat) /\ Len(all) = n + 1 /\ all[n + 1] = logged + 1
       /\ \A i \in 1..n : all[i] = sink[i]
  BY <1>1, <1>3, <1>10, AppendProperties
<1>4. /\ Len(all) = n + 1 /\ all[n + 1] = logged + 1
      /\ \A i \in 1..n : all[i] = logged - n + i
  BY <1>1, <1>11 DEF SinkIsTail
<1>5. n = IF logged <= c THEN logged ELSE c
  BY <1>1, <1>2 DEF SinkIsTail
<1>6. ASSUME NEW i \in 1..(n + 1) PROVE all[i] = logged - n + i
  <2>1. CASE i = n + 1
    <3>1. logged - n + (n + 1) = logged + 1
      OBVIOUS
    <3> QED BY <1>4, <2>1, <3>1
  <2>2. CASE i \in 1..n
    BY <1>4, <2>2
  <2> QED BY <2>1, <2>2
<1>7. sink' = IF n + 1 > c THEN Tail(all) ELSE all
  BY <1>2, <1>3, <1>4 DEF Kept
<1>8. CASE n + 1 > c
  <2>1. n = c
    BY <1>5, <1>8
  <2>2. sink' = Tail(all)
    BY <1>7, <1>8
  <2>6. all # <<>>
    BY <1>11
  <2>9. /\ Tail(all) \in Seq(Nat) /\ Len(Tail(all)) = Len(all) - 1
        /\ \A i \in 1..Len(Tail(all)) : Tail(all)[i] = all[i + 1]
    BY <1>11, <2>6, HeadTailProperties
  <2>10. Len(all) - 1 = n
    BY <1>11
  <2>3. sink' \in Seq(Nat) /\ Len(sink') = n /\ \A i \in 1..n : sink'[i] = all[i + 1]
    BY <2>2, <2>9, <2>10
  <2>4. \A i \in 1..n : sink'[i] = logged + 1 - n + i
    BY SMTT(30), <1>6, <2>3
  <2>5. n = IF logged + 1 <= c THEN logged + 1 ELSE c
    BY <1>5, <2>1
  <2>7. Len(sink') = IF logged' <= SinkCapacity THEN logged' ELSE SinkCapacity
    BY <1>2, <2>3, <2>5
  <2>8. \A i \in 1..Len(sink') : sink'[i] = logged' - Len(sink') + i
    <3>1. logged' = logged + 1 /\ Len(sink') = n /\ 1..Len(sink') = 1..n
      BY <2>3
    <3> QED BY SMTT(30), <2>4, <3>1
  <2> QED BY <2>3, <2>7, <2>8 DEF SinkIsTail
<1>9. CASE ~(n + 1 > c)
  <2>1. sink' = all /\ n = logged
    BY <1>5, <1>7, <1>9
  <2>2. sink' \in Seq(Nat) /\ Len(sink') = n + 1
    BY <1>11, <2>1
  <2>3. Len(sink') = IF logged' <= SinkCapacity THEN logged' ELSE SinkCapacity
    BY <1>2, <1>9, <2>1, <2>2
  <2>4. \A i \in 1..(n + 1) : sink'[i] = logged - n + i
    BY <1>6, <2>1
  <2>5. \A i \in 1..Len(sink') : sink'[i] = logged' - Len(sink') + i
    <3>1. Len(sink') = n + 1 /\ logged' = logged + 1
      BY <2>2
    <3>2. (logged + 1) - (n + 1) = logged - n
      OBVIOUS
    <3> QED BY <2>4, <3>1, <3>2
  <2> QED BY <2>2, <2>3, <2>5 DEF SinkIsTail
<1> QED BY <1>8, <1>9

LEMMA RunsKeep ==
    ASSUME HardwareIInv, NEW r \in Runs, run[r].at # "idle",
           \/ \E p \in Provider : ExecuteNode(r, p)
           \/ EndRun(r) \/ RunFails(r) \/ SealRun(r) \/ SinkFails(r)
    PROVE  RunInv'
<1>1. HardwareTyped /\ EntriesAreOfRuns /\ CleanRunsAreAlone /\ LoneRunsAreVerified /\ SinkIsTail
  BY DEF HardwareIInv
<1>2. /\ run[r] \in RunRecord /\ run[r].session \in 1..MaxSessions /\ run[r].on \subseteq Provider
      /\ run[r].clean \in BOOLEAN /\ run[r].at \in {"running", "sealing"}
  BY <1>1, RunsAre
<1>3. /\ profile \in [1..MaxSessions -> SUBSET Provider] /\ run \in [Runs -> {Idle} \cup RunRecord]
      /\ started \in 0..MaxRuns /\ logged \in Nat /\ sink \in Seq(Nat) /\ returned \subseteq 1..logged
  BY <1>1 DEF HardwareTyped
<1>4. PICK s \in 1..MaxSessions : s = run[r].session
  BY <1>2
<1>5. logged + Cardinality(Busy) <= started /\ started \in Nat
  BY <1>1, <1>3 DEF EntriesAreOfRuns
<1>6. Idle.at = "idle"
  BY DEF Idle
<1>7. \A x \in RunRecord : x # Idle
  BY DEF RunRecord, Idle
<1>8. ASSUME NEW p \in Provider, ExecuteNode(r, p) PROVE RunInv'
  <2>1. PICK x : x = [run[r] EXCEPT !.on = run[r].on \cup {p}]
    OBVIOUS
  <2>2. run' = [run EXCEPT ![r] = x]
    BY <1>8, <2>1 DEF ExecuteNode
  <2>3. /\ x \in RunRecord /\ x.at = run[r].at /\ x.session = s /\ x.clean = run[r].clean
        /\ x.on = run[r].on \cup {p}
    BY <1>2, <1>4, <2>1 DEF RunRecord
  <2>4. run[r].at = "running" /\ profile' = [profile EXCEPT ![s] = profile[s] \cup {p}]
    BY <1>4, <1>8 DEF ExecuteNode
  <2>5. profile' \in [1..MaxSessions -> SUBSET Provider]
    BY <1>3, <2>4
  <2>6. profile'[s] = profile[s] \cup {p} /\ \A t \in 1..MaxSessions \ {s} : profile'[t] = profile[t]
    BY <1>3, <2>4
  <2>7. RunsOn(r, s)
    BY <1>4, <2>4 DEF RunsOn
  <2>8. x.clean => profile'[x.session] \subseteq x.on
    BY <1>1, <1>4, <2>3, <2>4, <2>6 DEF CleanRunsAreAlone
  <2>9. \A t \in 1..MaxSessions : profile'[t] \subseteq profile[t] \/ RunsOn(r, t)
    BY <2>6, <2>7
  <2>10. /\ run' \in [Runs -> {Idle} \cup RunRecord] /\ CleanRunsAreAlone' /\ LoneRunsAreVerified'
         /\ IsFiniteSet(Busy') /\ Cardinality(Busy') = Cardinality(Busy)
    BY <1>1, <1>4, <1>7, <2>2, <2>3, <2>4, <2>8, <2>9, OneRunChanges
  <2>11. UNCHANGED <<started, logged, sink, returned>>
    BY <1>8 DEF ExecuteNode
  <2>12. EntriesAreOfRuns' /\ SinkIsTail'
    BY <1>1, <1>5, <2>10, <2>11 DEF EntriesAreOfRuns, SinkIsTail
  <2> QED BY <1>3, <2>5, <2>10, <2>11, <2>12 DEF RunInv
<1>9. ASSUME EndRun(r), OnCUDA(profile[run[r].session]) PROVE RunInv'
  <2>1. PICK x : x = [run[r] EXCEPT !.at = "sealing"]
    OBVIOUS
  <2>2. run' = [run EXCEPT ![r] = x]
    BY <1>9, <2>1 DEF EndRun
  <2>3. x \in RunRecord /\ x.at = "sealing" /\ x.clean = run[r].clean /\ x.on = run[r].on
    BY <1>2, <2>1 DEF RunRecord
  <2>4. run[r].at = "running" /\ profile' = [profile EXCEPT ![s] = {}] /\ "cuda" \in profile[s]
    BY <1>4, <1>9 DEF EndRun, OnCUDA
  <2>5. profile' \in [1..MaxSessions -> SUBSET Provider]
    BY <1>3, <2>4
  <2>6. \A t \in 1..MaxSessions : profile'[t] \subseteq profile[t] \/ RunsOn(r, t)
    BY <1>3, <2>4
  <2>7. x.clean => "cuda" \in x.on
    BY <1>1, <1>4, <2>3, <2>4 DEF CleanRunsAreAlone
  <2>8. /\ run' \in [Runs -> {Idle} \cup RunRecord] /\ CleanRunsAreAlone' /\ LoneRunsAreVerified'
        /\ IsFiniteSet(Busy') /\ Cardinality(Busy') = Cardinality(Busy)
    BY <1>1, <1>7, <2>2, <2>3, <2>6, <2>7, OneRunChanges
  <2>9. UNCHANGED <<started, logged, sink, returned>>
    BY <1>9 DEF EndRun
  <2>10. EntriesAreOfRuns' /\ SinkIsTail'
    BY <1>1, <1>5, <2>8, <2>9 DEF EntriesAreOfRuns, SinkIsTail
  <2> QED BY <1>3, <2>5, <2>8, <2>9, <2>10 DEF RunInv
<1>10. ASSUME run' = [run EXCEPT ![r] = Idle], profile' \in [1..MaxSessions -> SUBSET Provider],
              \A t \in 1..MaxSessions : profile'[t] \subseteq profile[t] \/ RunsOn(r, t)
       PROVE  /\ run' \in [Runs -> {Idle} \cup RunRecord] /\ CleanRunsAreAlone' /\ LoneRunsAreVerified'
              /\ IsFiniteSet(Busy') /\ Cardinality(Busy') = Cardinality(Busy) - 1
              /\ Cardinality(Busy') \in Nat /\ Cardinality(Busy) \in Nat
  BY <1>1, <1>6, <1>10, OneRunChanges
<1>11. ASSUME run' = [run EXCEPT ![r] = Idle], profile' \in [1..MaxSessions -> SUBSET Provider],
              \A t \in 1..MaxSessions : profile'[t] \subseteq profile[t] \/ RunsOn(r, t),
              UNCHANGED <<started, logged, sink, returned>>
       PROVE  RunInv'
  <2>1. /\ run' \in [Runs -> {Idle} \cup RunRecord] /\ CleanRunsAreAlone' /\ LoneRunsAreVerified'
        /\ IsFiniteSet(Busy') /\ Cardinality(Busy') = Cardinality(Busy) - 1
        /\ Cardinality(Busy') \in Nat /\ Cardinality(Busy) \in Nat
    BY <1>10, <1>11
  <2>2. EntriesAreOfRuns' /\ SinkIsTail'
    BY SMTT(30), <1>1, <1>3, <1>5, <1>11, <2>1 DEF EntriesAreOfRuns, SinkIsTail
  <2> QED BY <1>3, <1>11, <2>1, <2>2 DEF RunInv
<1>12. ASSUME EndRun(r), ~OnCUDA(profile[run[r].session]) PROVE RunInv'
  <2>1. /\ run[r].at = "running" /\ profile' = [profile EXCEPT ![s] = {}]
        /\ run' = [run EXCEPT ![r] = Idle] /\ UNCHANGED <<started, logged, sink, returned>>
    BY <1>4, <1>12 DEF EndRun
  <2>2. profile' \in [1..MaxSessions -> SUBSET Provider]
    BY <1>3, <2>1
  <2>3. \A t \in 1..MaxSessions : profile'[t] \subseteq profile[t] \/ RunsOn(r, t)
    BY <1>3, <2>1
  <2> QED BY <1>11, <2>1, <2>2, <2>3
<1>13. ASSUME RunFails(r) \/ SinkFails(r) PROVE RunInv'
  <2>1. /\ UNCHANGED profile
        /\ run' = [run EXCEPT ![r] = Idle] /\ UNCHANGED <<started, logged, sink, returned>>
    BY <1>13 DEF RunFails, SinkFails
  <2> QED BY <1>3, <1>11, <2>1
<1>14. ASSUME SealRun(r) PROVE RunInv'
  <2>1. UNCHANGED <<profile, started>> /\ run' = [run EXCEPT ![r] = Idle]
    BY <1>14 DEF SealRun
  <2>2. /\ run' \in [Runs -> {Idle} \cup RunRecord] /\ CleanRunsAreAlone' /\ LoneRunsAreVerified'
        /\ IsFiniteSet(Busy') /\ Cardinality(Busy') = Cardinality(Busy) - 1
        /\ Cardinality(Busy') \in Nat /\ Cardinality(Busy) \in Nat
    BY <1>3, <1>10, <2>1
  <2>3. logged' = logged + 1 /\ sink' = Kept(Append(sink, logged + 1))
    BY <1>14 DEF SealRun
  <2>4. returned' \subseteq 1..logged' /\ logged' \in Nat
    <3>1. returned' = returned \cup {logged + 1}
      BY <1>14 DEF SealRun
    <3>2. 1..logged \subseteq 1..(logged + 1) /\ logged + 1 \in 1..(logged + 1)
      BY <1>3
    <3> QED BY <1>3, <2>3, <3>1, <3>2
  <2>5. sink' \in Seq(Nat) /\ SinkIsTail'
    BY <1>1, <1>3, <2>3, SinkKeepsTail
  <2>6. EntriesAreOfRuns'
    BY <1>3, <1>5, <2>1, <2>2, <2>3 DEF EntriesAreOfRuns
  <2> QED BY <1>3, <2>1, <2>2, <2>4, <2>5, <2>6 DEF RunInv
<1> QED BY <1>8, <1>9, <1>12, <1>13, <1>14

LEMMA HardwareStepKeeps == HardwareIInv /\ [HardwareNext]_hardwareVars => HardwareIInv'
<1> SUFFICES ASSUME HardwareIInv, [HardwareNext]_hardwareVars PROVE HardwareIInv'
  OBVIOUS
<1>1. /\ session' \in [Kernels -> 0..MaxSessions] /\ created' \in 0..MaxSessions
      /\ loaded' \in BOOLEAN /\ load' \in [Loads -> {Unset} \cup LoadIndex]
      /\ LoadedSoFar' /\ LoadedMeansEveryKernel'
  BY LoadsKeep DEF HardwareIInv
<1>2. RunInv
  BY DEF HardwareIInv, HardwareTyped, RunInv
<1>3. ASSUME UNCHANGED <<profile, run, started, logged, sink, returned>> PROVE RunInv'
  BY <1>2, <1>3 DEF RunInv, CleanRunsAreAlone, LoneRunsAreVerified, SinkIsTail, EntriesAreOfRuns, Busy,
                    RunsOn
<1>4. ASSUME NEW r \in Runs,
             \/ \E p \in Provider : ExecuteNode(r, p)
             \/ EndRun(r) \/ RunFails(r) \/ SealRun(r) \/ SinkFails(r)
      PROVE  RunInv'
  <2>1. run[r].at # "idle"
    BY <1>4 DEF ExecuteNode, EndRun, RunFails, SealRun, SinkFails
  <2> QED BY <1>4, <2>1, RunsKeep
<1>5. ASSUME NEW r \in Runs, NEW op \in Kernels, BeginRun(r, op) PROVE RunInv'
  BY <1>5, BeginRunKeeps
<1>6. RunInv'
  <2>1. \/ \E r \in Runs : \/ \E op \in Kernels : BeginRun(r, op)
                           \/ \E p \in Provider : ExecuteNode(r, p)
                           \/ EndRun(r) \/ RunFails(r) \/ SealRun(r) \/ SinkFails(r)
        \/ UNCHANGED <<profile, run, started, logged, sink, returned>>
    <3>1. ASSUME NEW l \in Loads, BeginLoad(l) \/ CreateSession(l) \/ LoadFails(l) \/ EndLoad(l)
          PROVE  UNCHANGED <<profile, run, started, logged, sink, returned>>
      BY <3>1 DEF BeginLoad, CreateSession, LoadFails, EndLoad
    <3>2. CASE HardwareNext
      BY <3>1, <3>2 DEF HardwareNext
    <3>3. CASE UNCHANGED hardwareVars
      BY <3>3 DEF hardwareVars
    <3> QED BY <3>2, <3>3
  <2> QED BY <1>3, <1>4, <1>5, <2>1
<1> QED BY <1>1, <1>6 DEF HardwareIInv, HardwareTyped, RunInv

LEMMA HardwareStarts == HardwareInit => HardwareIInv
<1> SUFFICES ASSUME HardwareInit PROVE HardwareIInv
  OBVIOUS
<1> USE HardwareAssumption DEF HardwareInit
<1>1. HardwareTyped
  <2>1. session \in [Kernels -> 0..MaxSessions]
    BY DEF Unset
  <2>2. load \in [Loads -> {Unset} \cup LoadIndex]
    OBVIOUS
  <2>3. profile \in [1..MaxSessions -> SUBSET Provider]
    OBVIOUS
  <2>4. run \in [Runs -> {Idle} \cup RunRecord]
    OBVIOUS
  <2>5. started \in 0..MaxRuns /\ created \in 0..MaxSessions
    OBVIOUS
  <2>7. sink \in Seq(Nat)
    BY EmptySeq
  <2>6. loaded \in BOOLEAN /\ logged \in Nat /\ returned \subseteq 1..logged
    OBVIOUS
  <2> QED BY <2>1, <2>2, <2>3, <2>4, <2>5, <2>6, <2>7 DEF HardwareTyped
<1>2. \A r \in Runs : run[r] = Idle /\ run[r].at = "idle"
  BY DEF Idle
<1>3. CleanRunsAreAlone /\ LoneRunsAreVerified
  BY <1>2 DEF CleanRunsAreAlone, LoneRunsAreVerified
<1>4. LoadedSoFar /\ LoadedMeansEveryKernel
  BY DEF LoadedSoFar, LoadedMeansEveryKernel
<1>5. SinkIsTail
  BY DEF SinkIsTail
<1>6. EntriesAreOfRuns
  <2>1. Busy = {}
    BY <1>2 DEF Busy
  <2>2. IsFiniteSet(Busy) /\ Cardinality(Busy) = 0
    BY <2>1, FS_EmptySet
  <2> QED BY <2>2 DEF EntriesAreOfRuns
<1> QED BY <1>1, <1>3, <1>4, <1>5, <1>6 DEF HardwareIInv

(* A sequence is one over any set its items are in.                        *)
LEMMA SeqOfItems ==
    ASSUME NEW S, NEW T, NEW s \in Seq(S), \A i \in 1..Len(s) : s[i] \in T
    PROVE  s \in Seq(T)
<1>1. PICK n \in Nat : n = Len(s)
  OBVIOUS
<1>2. s \in [1..n -> S]
  BY <1>1
<1>3. s \in [1..n -> T]
  BY <1>1, <1>2
<1> QED BY <1>3, SeqDef

LEMMA HardwareIInvImplies == HardwareIInv => HardwareInv
<1> SUFFICES ASSUME HardwareIInv PROVE HardwareInv
  OBVIOUS
<1>1. HardwareTyped /\ SinkIsTail /\ EntriesAreOfRuns
  BY DEF HardwareIInv
<1>2. logged \in Nat /\ started \in 0..MaxRuns /\ sink \in Seq(Nat) /\ returned \subseteq 1..logged
  BY <1>1 DEF HardwareTyped
<1>3. Cardinality(Busy) \in Nat
  BY <1>1, FS_CardinalityType DEF EntriesAreOfRuns
<1>4. logged \in 0..MaxRuns /\ MaxRuns \in Nat /\ logged <= MaxRuns
  BY <1>1, <1>2, <1>3, HardwareAssumption DEF EntriesAreOfRuns
<1>5. PICK n \in Nat : n = Len(sink)
  BY <1>2
<1>6. PICK c \in Nat \ {0} : c = SinkCapacity
  BY HardwareAssumption
<1>7. n = (IF logged <= c THEN logged ELSE c) /\ \A i \in 1..n : sink[i] = logged - n + i
  BY <1>1, <1>5, <1>6 DEF SinkIsTail
<1>13. n <= logged /\ (logged <= c => n = logged) /\ (~(logged <= c) => n = c)
  BY <1>2, <1>7
<1>14. \A i \in 1..n : sink[i] = logged - n + i
  BY <1>7
<1>8. sink \in Seq(1..MaxRuns)
  <2>1. \A i \in 1..n : logged - n + i \in 1..MaxRuns
    BY <1>2, <1>4, <1>13
  <2>2. \A i \in 1..n : sink[i] \in 1..MaxRuns
    BY <1>14, <2>1
  <2> QED BY <1>2, <1>5, <2>2, SeqOfItems
<1>9. SinkHoldsLatest
  <2>1. SUFFICES ASSUME NEW k \in returned, k > logged - c PROVE k \in Range(sink)
    BY <1>6 DEF SinkHoldsLatest
  <2>2. k \in 1..logged
    BY <1>2
  <2>3. PICK i \in 1..n : i = k - logged + n
    BY <1>2, <1>7, <2>1, <2>2
  <2>5. sink[i] = logged - n + i
    BY <1>14
  <2>4. sink[i] = k
    BY <1>2, <2>2, <2>3, <2>5
  <2> QED BY <1>2, <1>5, <2>4 DEF Range
<1>10. returned \subseteq 1..MaxRuns
  BY <1>2, <1>4
<1>11. \A r \in Runs : run[r].at \in {"idle", "running", "sealing"}
  BY <1>1, RunsAre
<1>12. HardwareTypeOK
  BY <1>1, <1>2, <1>4, <1>8, <1>10, <1>11 DEF HardwareTypeOK, HardwareTyped
<1> QED BY <1>9, <1>12 DEF HardwareInv, HardwareIInv

(* However loads and runs overlap and fail, a layer that counts as loaded  *)
(* has a session for every kernel, a run that has its session to itself    *)
(* and is sealed as CUDA had a node on CUDA, and the audit tail holds the  *)
(* latest results (CUDAHardwareLayer, provenanceSink).                             *)
THEOREM LayersAreLoadedInFull == HardwareSpec => []HardwareInv
<1>1. HardwareInit => HardwareIInv
  BY HardwareStarts
<1>2. HardwareIInv /\ [HardwareNext]_hardwareVars => HardwareIInv'
  BY HardwareStepKeeps
<1>3. HardwareIInv => HardwareInv
  BY HardwareIInvImplies
<1> QED BY <1>1, <1>2, <1>3, PTL DEF HardwareSpec

-----------------------------------------------------------------------------
(* The hot path. *)

Entry == [answer : Answer, hash : Seq(Answer)]
AskingCall == [at : {"asking"}, of : 1..MaxCalls, head : Seq(Answer)]
AnsweredCall == [at : {"answered"}, of : 1..MaxCalls, head : Seq(Answer), answer : Answer]

HotPathTyped ==
    /\ hardwareConfig \in Config
    /\ call \in [Calls -> {NotCalled} \cup AskingCall \cup AnsweredCall]
    /\ gpuWork \subseteq 1..MaxCalls
    /\ entries \in Seq(Entry) /\ chainHead \in Seq(Answer)
    /\ fallbacks \in Nat /\ calls \in 0..MaxCalls /\ answers \subseteq Answer

(* An answer is to a call that was made, is marked unless the service      *)
(* computed it, and on CUDA is marked only when nothing computed it.       *)
Sound(a) ==
    /\ a.of <= calls
    /\ ~a.fallback => a.on = "gpu" /\ a.of \in gpuWork
    /\ Mode(hardwareConfig) = "cuda" => (a.on = "echo" <=> a.fallback)

AnswersAreSound ==
    /\ \A c \in Calls : call[c].at = "answered" =>
            call[c].answer.of = call[c].of /\ Sound(call[c].answer)
    /\ \A a \in answers : Sound(a)

(* No two calls that wait, and no call that waits and an answer logged,    *)
(* are the same call.                                                      *)
CallsDiffer ==
    \A c \in Calls : call[c] # NotCalled =>
        /\ call[c].of <= calls
        /\ \A d \in Calls \ {c} : call[d] # NotCalled => call[d].of # call[c].of
        /\ \A a \in answers : a.of # call[c].of

Chained ==
    /\ \A i \in 1..Len(entries) :
        /\ entries[i].hash = [j \in 1..i |-> entries[j].answer]
        /\ entries[i].answer \in answers
        /\ \A j \in 1..(i - 1) : entries[j].answer.of # entries[i].answer.of
    /\ chainHead = [j \in 1..Len(entries) |-> entries[j].answer]

Echoes == {a \in answers : a.on = "echo"}
Waiting == {c \in Calls : call[c] # NotCalled}
FallbacksAreCounted ==
    /\ IsFiniteSet(Echoes) /\ (Mode(hardwareConfig) = "cuda" => fallbacks = Cardinality(Echoes))
    /\ IsFiniteSet(Waiting) /\ fallbacks + Cardinality(Waiting) <= calls

HotPathIInv ==
    HotPathTyped /\ AnswersAreSound /\ CallsDiffer /\ Chained /\ FallbacksAreCounted

(* What a call is tells where it is.                                       *)
LEMMA CallsAre ==
    ASSUME HotPathTyped, NEW c \in Calls
    PROVE  /\ call[c] = NotCalled \/ call[c] \in AskingCall \/ call[c] \in AnsweredCall
           /\ call[c] = NotCalled <=> call[c].at = "idle"
           /\ call[c].at = "asking" => call[c] \in AskingCall
           /\ call[c].at = "answered" => call[c] \in AnsweredCall
           /\ call[c] # NotCalled => call[c].of \in 1..MaxCalls /\ call[c].head \in Seq(Answer)
           /\ call[c].at \in {"idle", "asking", "answered"}
<1>1. call[c] \in {NotCalled} \cup AskingCall \cup AnsweredCall
  BY DEF HotPathTyped
<1>2. NotCalled.at = "idle"
  BY DEF NotCalled
<1>3. \A x \in AskingCall : x.at = "asking" /\ x.of \in 1..MaxCalls /\ x.head \in Seq(Answer)
  BY DEF AskingCall
<1>4. \A x \in AnsweredCall : x.at = "answered" /\ x.of \in 1..MaxCalls /\ x.head \in Seq(Answer)
  BY DEF AnsweredCall
<1> QED BY <1>1, <1>2, <1>3, <1>4

(* Logging an answer to a call not logged before, chained to the head.     *)
LEMMA LogKeeps ==
    ASSUME HotPathTyped, Chained, FallbacksAreCounted, UNCHANGED hardwareConfig,
           NEW a \in Answer, Mode(hardwareConfig) = "cuda" => (a.on = "echo" <=> a.fallback),
           \A b \in answers : b.of # a.of, Log(chainHead, a)
    PROVE  /\ entries' \in Seq(Entry) /\ chainHead' \in Seq(Answer) /\ Chained'
           /\ answers' = answers \cup {a} /\ answers' \subseteq Answer
           /\ IsFiniteSet(Echoes') /\ fallbacks' \in Nat
           /\ fallbacks' = fallbacks \/ fallbacks' = fallbacks + 1
           /\ Mode(hardwareConfig) = "cuda" => fallbacks' = Cardinality(Echoes')
           /\ Mode(hardwareConfig) = "cpu" => fallbacks' = fallbacks
<1>1. /\ entries \in Seq(Entry) /\ chainHead \in Seq(Answer) /\ fallbacks \in Nat
      /\ answers \subseteq Answer
  BY DEF HotPathTyped
<1>2. PICK n \in Nat : n = Len(entries)
  BY <1>1
<1>3. PICK hash : hash = Append(chainHead, a)
  OBVIOUS
<1>4. PICK e : e = [answer |-> a, hash |-> hash]
  OBVIOUS
<1>5. /\ chainHead' = hash /\ entries' = Append(entries, e) /\ answers' = answers \cup {a}
      /\ fallbacks' = fallbacks + (IF a.fallback /\ Mode(hardwareConfig) = "cuda" THEN 1 ELSE 0)
  BY <1>3, <1>4 DEF Log
<1>6. chainHead = [j \in 1..n |-> entries[j].answer]
  BY <1>2 DEF Chained
<1>7. Len(chainHead) = n
  BY <1>1, <1>2, <1>6
<1>8. /\ hash \in Seq(Answer) /\ Len(hash) = n + 1 /\ hash[n + 1] = a
      /\ \A j \in 1..n : hash[j] = chainHead[j]
  BY <1>1, <1>3, <1>7, AppendProperties
<1>9. e \in Entry /\ e.answer = a /\ e.hash = hash
  BY <1>4, <1>8 DEF Entry
<1>10. /\ entries' \in Seq(Entry) /\ Len(entries') = n + 1 /\ entries'[n + 1] = e
       /\ \A j \in 1..n : entries'[j] = entries[j]
  BY <1>1, <1>2, <1>5, <1>9, AppendProperties
<1>11. hash = [j \in 1..(n + 1) |-> entries'[j].answer]
  <2>1. \A j \in 1..n : hash[j] = entries'[j].answer
    BY <1>6, <1>8, <1>10
  <2>2. hash[n + 1] = entries'[n + 1].answer
    BY <1>8, <1>9, <1>10
  <2>3. \A j \in 1..(n + 1) : hash[j] = entries'[j].answer
    <3>1. \A j \in 1..(n + 1) : j = n + 1 \/ j \in 1..n
      OBVIOUS
    <3> QED BY <2>1, <2>2, <3>1
  <2>4. hash = [j \in 1..(n + 1) |-> hash[j]]
    BY <1>8
  <2> QED BY <2>3, <2>4
<1>12. Chained'
  <2>1. ASSUME NEW i \in 1..(n + 1)
        PROVE  /\ entries'[i].hash = [j \in 1..i |-> entries'[j].answer]
               /\ entries'[i].answer \in answers'
               /\ \A j \in 1..(i - 1) : entries'[j].answer.of # entries'[i].answer.of
    <3>1. CASE i = n + 1
      <4>1. \A j \in 1..n : entries'[j].answer \in answers
        BY <1>2, <1>10 DEF Chained
      <4>2. \A j \in 1..n : entries'[j].answer.of # a.of
        BY <4>1
      <4>3. i - 1 = n
        BY <3>1
      <4> QED BY SMTT(30), <1>5, <1>9, <1>10, <1>11, <3>1, <4>2, <4>3
    <3>2. CASE i \in 1..n
      <4>1. entries'[i] = entries[i] /\ \A j \in 1..i : entries'[j] = entries[j]
        BY <1>10, <3>2
      <4>2. /\ entries[i].hash = [j \in 1..i |-> entries[j].answer]
            /\ entries[i].answer \in answers
            /\ \A j \in 1..(i - 1) : entries[j].answer.of # entries[i].answer.of
        BY <1>2, <3>2 DEF Chained
      <4>3. [j \in 1..i |-> entries[j].answer] = [j \in 1..i |-> entries'[j].answer]
        BY <4>1
      <4>4. \A j \in 1..(i - 1) : j \in 1..i
        OBVIOUS
      <4> QED BY <1>5, <4>1, <4>2, <4>3, <4>4
    <3> QED BY <3>1, <3>2
  <2> QED BY <1>5, <1>10, <1>11, <2>1 DEF Chained
<1>13. PICK old : old = Echoes
  OBVIOUS
<1>14. PICK new : new = Echoes'
  OBVIOUS
<1>15. a \notin answers /\ a \notin old
  BY <1>13 DEF Echoes
<1>16. new = IF a.on = "echo" THEN old \cup {a} ELSE old
  BY <1>5, <1>13, <1>14 DEF Echoes
<1>17. /\ IsFiniteSet(old) /\ IsFiniteSet(old \cup {a}) /\ Cardinality(old) \in Nat
       /\ Cardinality(old \cup {a}) = Cardinality(old) + 1
  BY <1>13, <1>15, FS_AddElement, FS_CardinalityType DEF FallbacksAreCounted
<1>18. IsFiniteSet(new) /\ Cardinality(new) = Cardinality(old) + (IF a.on = "echo" THEN 1 ELSE 0)
  <2>1. CASE a.on = "echo"
    BY <1>16, <1>17, <2>1
  <2>2. CASE a.on # "echo"
    BY <1>16, <1>17, <2>2
  <2> QED BY <2>1, <2>2
<1>19. a.fallback \in BOOLEAN
  BY DEF Answer
<1>20. fallbacks' \in Nat /\ (fallbacks' = fallbacks \/ fallbacks' = fallbacks + 1)
  <2>1. CASE a.fallback /\ Mode(hardwareConfig) = "cuda"
    BY <1>1, <1>5, <2>1
  <2>2. CASE ~(a.fallback /\ Mode(hardwareConfig) = "cuda")
    BY <1>1, <1>5, <2>2
  <2> QED BY <2>1, <2>2
<1>21. Mode(hardwareConfig) = "cpu" => fallbacks' = fallbacks
  BY <1>1, <1>5
<1>22. ASSUME Mode(hardwareConfig) = "cuda" PROVE fallbacks' = Cardinality(new)
  <2>1. fallbacks = Cardinality(old)
    BY <1>13, <1>22 DEF FallbacksAreCounted
  <2>2. CASE a.fallback
    <3>1. a.on = "echo"
      BY <1>22, <2>2
    <3>2. fallbacks' = fallbacks + 1
      BY <1>5, <1>22, <2>2
    <3> QED BY <1>18, <2>1, <3>1, <3>2
  <2>3. CASE ~a.fallback
    <3>1. a.on # "echo"
      BY <1>22, <2>3
    <3>2. fallbacks' = fallbacks
      BY <1>1, <1>5, <2>3
    <3> QED BY <1>17, <1>18, <2>1, <3>1, <3>2
  <2> QED BY <2>2, <2>3
<1>23. answers' \subseteq Answer
  BY <1>1, <1>5
<1>24. chainHead' \in Seq(Answer)
  BY <1>5, <1>8
<1> QED BY <1>5, <1>10, <1>12, <1>14, <1>18, <1>20, <1>21, <1>22, <1>23, <1>24

(* An answer stays sound while calls are made and work is done.            *)
LEMMA SoundStays ==
    ASSUME HotPathTyped, UNCHANGED hardwareConfig, calls' \in Nat, calls <= calls',
           gpuWork \subseteq gpuWork', NEW a \in Answer, Sound(a)
    PROVE  Sound(a)'
<1>1. a.of \in Nat /\ calls \in Nat
  BY HotPathAssumption DEF Answer, HotPathTyped
<1>2. Mode(hardwareConfig') = Mode(hardwareConfig)
  OBVIOUS
<1>3. a.of <= calls'
  BY <1>1 DEF Sound
<1> QED BY <1>2, <1>3 DEF Sound

LEMMA DispatchCPUKeeps ==
    ASSUME HotPathIInv, DispatchCPU PROVE HotPathIInv'
<1>1. HotPathTyped /\ AnswersAreSound /\ CallsDiffer /\ Chained /\ FallbacksAreCounted
  BY DEF HotPathIInv
<1>2. calls \in Nat /\ calls < MaxCalls /\ calls' = calls + 1 /\ MaxCalls \in Nat
  BY <1>1, HotPathAssumption DEF DispatchCPU, HotPathTyped
<1>3. UNCHANGED <<hardwareConfig, call, gpuWork>> /\ Mode(hardwareConfig) = "cpu"
  BY DEF DispatchCPU
<1>4. PICK a : a = [of |-> calls + 1, on |-> "cpu", fallback |-> TRUE]
  OBVIOUS
<1>5. a \in Answer /\ a.of = calls + 1 /\ a.fallback
  BY <1>2, <1>4 DEF Answer
<1>6. Log(chainHead, a)
  BY <1>4 DEF DispatchCPU
<1>7. answers \subseteq Answer /\ \A b \in Answer : b.of \in Nat
  BY <1>1 DEF HotPathTyped, Answer
<1>8. \A b \in answers : b.of # a.of
  BY <1>1, <1>2, <1>5, <1>7 DEF AnswersAreSound, Sound
<1>9. /\ entries' \in Seq(Entry) /\ chainHead' \in Seq(Answer) /\ Chained'
      /\ answers' = answers \cup {a} /\ answers' \subseteq Answer
      /\ IsFiniteSet(Echoes') /\ fallbacks' \in Nat /\ fallbacks' = fallbacks
  BY <1>1, <1>3, <1>5, <1>6, <1>8, LogKeeps
<1>10. calls' \in 0..MaxCalls
  BY <1>2
<1>11. HotPathTyped'
  BY <1>1, <1>3, <1>9, <1>10 DEF HotPathTyped
<1>12. \A b \in Answer : Sound(b) => Sound(b)'
  BY <1>1, <1>2, <1>3, SoundStays
<1>13. Sound(a)'
  BY <1>2, <1>3, <1>5 DEF Sound
<1>14. \A c \in Calls : call[c].at = "answered" => call[c].answer \in Answer
  BY <1>1, CallsAre DEF AnsweredCall
<1>15. AnswersAreSound'
  BY <1>1, <1>3, <1>7, <1>9, <1>12, <1>13, <1>14 DEF AnswersAreSound
<1>16. ASSUME NEW c \in Calls, call[c] # NotCalled
       PROVE  call[c].of \in Nat /\ call[c].of <= calls
  BY <1>1, <1>16, CallsAre DEF CallsDiffer
<1>17. CallsDiffer'
  <2>1. SUFFICES ASSUME NEW c \in Calls, call[c] # NotCalled
                 PROVE  /\ call[c].of <= calls + 1
                        /\ \A d \in Calls \ {c} : call[d] # NotCalled => call[d].of # call[c].of
                        /\ \A b \in answers' : b.of # call[c].of
    BY <1>2, <1>3 DEF CallsDiffer
  <2>2. call[c].of <= calls + 1 /\ call[c].of # calls + 1
    BY <1>2, <1>16, <2>1
  <2> QED BY <1>1, <1>5, <1>9, <2>1, <2>2 DEF CallsDiffer
<1>18. Waiting' = Waiting
  BY <1>3 DEF Waiting
<1>19. fallbacks + Cardinality(Waiting) <= calls /\ IsFiniteSet(Waiting)
  BY <1>1 DEF FallbacksAreCounted
<1>20. Cardinality(Waiting) \in Nat /\ fallbacks \in Nat
  BY <1>1, <1>19, FS_CardinalityType DEF HotPathTyped
<1>21. Mode(hardwareConfig') # "cuda"
  BY <1>3
<1>22. fallbacks' + Cardinality(Waiting') <= calls'
  BY <1>2, <1>9, <1>18, <1>19, <1>20
<1>23. FallbacksAreCounted'
  BY <1>9, <1>18, <1>19, <1>21, <1>22 DEF FallbacksAreCounted
<1> QED BY <1>9, <1>11, <1>15, <1>17, <1>23 DEF HotPathIInv

(* A call is given another record.                                         *)
LEMMA WaitingAfter ==
    ASSUME NEW c \in Calls, IsFiniteSet(Waiting), \A d \in Calls \ {c} : call'[d] = call[d]
    PROVE  /\ IsFiniteSet(Waiting') /\ Cardinality(Waiting) \in Nat /\ Cardinality(Waiting') \in Nat
           /\ call[c] = NotCalled /\ call'[c] # NotCalled =>
                 Cardinality(Waiting') = Cardinality(Waiting) + 1
           /\ call[c] # NotCalled /\ call'[c] = NotCalled =>
                 Cardinality(Waiting') = Cardinality(Waiting) - 1
           /\ (call[c] = NotCalled <=> call'[c] = NotCalled) =>
                 Cardinality(Waiting') = Cardinality(Waiting)
<1>1. PICK old : old = Waiting
  OBVIOUS
<1>2. PICK new : new = Waiting'
  OBVIOUS
<1>3. /\ IsFiniteSet(old) /\ IsFiniteSet(old \cup {c}) /\ IsFiniteSet(old \ {c})
      /\ Cardinality(old \cup {c}) = IF c \in old THEN Cardinality(old) ELSE Cardinality(old) + 1
      /\ Cardinality(old \ {c}) = IF c \in old THEN Cardinality(old) - 1 ELSE Cardinality(old)
  BY <1>1, FS_AddElement, FS_RemoveElement
<1>4. call[c] = NotCalled /\ call'[c] # NotCalled => new = old \cup {c} /\ c \notin old
  BY <1>1, <1>2 DEF Waiting
<1>5. call[c] # NotCalled /\ call'[c] = NotCalled => new = old \ {c} /\ c \in old
  BY <1>1, <1>2 DEF Waiting
<1>6. (call[c] = NotCalled <=> call'[c] = NotCalled) => new = old
  BY <1>1, <1>2 DEF Waiting
<1>7. IsFiniteSet(new)
  BY <1>3, <1>4, <1>5, <1>6
<1>8. Cardinality(old) \in Nat /\ Cardinality(new) \in Nat
  BY <1>3, <1>7, FS_CardinalityType
<1>9. CASE call[c] = NotCalled /\ call'[c] # NotCalled
  BY <1>1, <1>2, <1>3, <1>4, <1>7, <1>8, <1>9
<1>10. CASE call[c] # NotCalled /\ call'[c] = NotCalled
  BY <1>1, <1>2, <1>3, <1>5, <1>7, <1>8, <1>10
<1>11. CASE call[c] = NotCalled <=> call'[c] = NotCalled
  BY <1>1, <1>2, <1>6, <1>7, <1>8, <1>11
<1> QED BY <1>9, <1>10, <1>11

LEMMA DispatchCUDAKeeps ==
    ASSUME HotPathIInv, NEW c \in Calls, DispatchCUDA(c) PROVE HotPathIInv'
<1>1. HotPathTyped /\ AnswersAreSound /\ CallsDiffer /\ Chained /\ FallbacksAreCounted
  BY DEF HotPathIInv
<1>2. calls \in Nat /\ calls < MaxCalls /\ calls' = calls + 1 /\ MaxCalls \in Nat
  BY <1>1, HotPathAssumption DEF DispatchCUDA, HotPathTyped
<1>3. UNCHANGED <<hardwareConfig, gpuWork, entries, chainHead, fallbacks, answers>>
  BY DEF DispatchCUDA
<1>4. PICK x : x = [at |-> "asking", of |-> calls + 1, head |-> chainHead]
  OBVIOUS
<1>5. call' = [call EXCEPT ![c] = x] /\ call[c] = NotCalled
  BY <1>4 DEF DispatchCUDA
<1>6. chainHead \in Seq(Answer) /\ answers \subseteq Answer /\ fallbacks \in Nat
  BY <1>1 DEF HotPathTyped
<1>7. x \in AskingCall /\ x.at = "asking" /\ x.of = calls + 1
  BY <1>2, <1>4, <1>6 DEF AskingCall
<1>8. x # NotCalled
  BY <1>7 DEF NotCalled
<1>9. call \in [Calls -> {NotCalled} \cup AskingCall \cup AnsweredCall]
  BY <1>1 DEF HotPathTyped
<1>10. call'[c] = x /\ \A d \in Calls \ {c} : call'[d] = call[d]
  BY <1>5, <1>9
<1>11. call' \in [Calls -> {NotCalled} \cup AskingCall \cup AnsweredCall]
  BY <1>5, <1>7, <1>9
<1>12. calls' \in 0..MaxCalls
  BY <1>2
<1>13. HotPathTyped'
  BY <1>1, <1>3, <1>11, <1>12 DEF HotPathTyped
<1>14. \A b \in Answer : Sound(b) => Sound(b)'
  BY <1>1, <1>2, <1>3, SoundStays
<1>15. \A d \in Calls : call[d].at = "answered" => call[d].answer \in Answer
  BY <1>1, CallsAre DEF AnsweredCall
<1>16. AnswersAreSound'
  <2>1. ASSUME NEW d \in Calls, call'[d].at = "answered"
        PROVE  \E b \in Answer : b = call'[d].answer /\ b.of = call'[d].of /\ Sound(b)'
    <3>1. d # c /\ call'[d] = call[d]
      BY <1>7, <1>10, <2>1
    <3>2. call[d].answer.of = call[d].of /\ Sound(call[d].answer) /\ call[d].answer \in Answer
      BY <1>1, <1>15, <2>1, <3>1 DEF AnswersAreSound
    <3>3. PICK b \in Answer : b = call[d].answer
      BY <3>2
    <3>4. Sound(b)'
      BY <1>14, <3>2, <3>3
    <3> QED BY <3>1, <3>2, <3>3, <3>4
  <2>2. \A b \in answers : Sound(b)'
    BY <1>1, <1>6, <1>14 DEF AnswersAreSound
  <2>3. \A b \in answers' : Sound(b)'
    BY <1>3, <2>2
  <2> QED BY <2>1, <2>3 DEF AnswersAreSound, Sound
<1>17. ASSUME NEW d \in Calls, call[d] # NotCalled
       PROVE  call[d].of \in Nat /\ call[d].of <= calls
  BY <1>1, <1>17, CallsAre DEF CallsDiffer
<1>18. \A b \in answers : b.of \in Nat /\ b.of <= calls
  BY <1>1, <1>6 DEF AnswersAreSound, Sound, Answer
<1>19. CallsDiffer'
  <2>1. SUFFICES ASSUME NEW q \in Calls, call'[q] # NotCalled
                 PROVE  /\ call'[q].of <= calls + 1
                        /\ \A d \in Calls \ {q} : call'[d] # NotCalled => call'[d].of # call'[q].of
                        /\ \A b \in answers : b.of # call'[q].of
    BY <1>2, <1>3 DEF CallsDiffer
  <2>2. CASE q = c
    <3>1. call'[q].of = calls + 1
      BY <1>7, <1>10, <2>2
    <3>2. \A d \in Calls \ {q} : call'[d] # NotCalled => call'[d].of # calls + 1
      BY <1>2, <1>10, <1>17, <2>2
    <3>3. \A b \in answers : b.of # calls + 1
      BY <1>2, <1>18
    <3> QED BY <1>2, <3>1, <3>2, <3>3
  <2>3. CASE q # c
    <3>1. call'[q] = call[q] /\ call[q].of \in Nat /\ call[q].of <= calls
      BY <1>10, <1>17, <2>1, <2>3
    <3>2. ASSUME NEW d \in Calls \ {q}, call'[d] # NotCalled PROVE call'[d].of # call[q].of
      <4>1. CASE d = c
        BY <1>2, <1>7, <1>10, <3>1, <4>1
      <4>2. CASE d # c
        BY <1>1, <1>10, <2>1, <3>1, <3>2, <4>2 DEF CallsDiffer
      <4> QED BY <4>1, <4>2
    <3>3. \A b \in answers : b.of # call[q].of
      BY <1>1, <2>1, <3>1 DEF CallsDiffer
    <3> QED BY <1>2, <3>1, <3>2, <3>3
  <2> QED BY <2>2, <2>3
<1>20. Chained'
  BY <1>1, <1>3 DEF Chained
<1>21. /\ IsFiniteSet(Waiting') /\ Cardinality(Waiting) \in Nat
       /\ Cardinality(Waiting') = Cardinality(Waiting) + 1
  BY <1>1, <1>5, <1>8, <1>10, WaitingAfter DEF FallbacksAreCounted
<1>22. fallbacks + Cardinality(Waiting) <= calls
  BY <1>1 DEF FallbacksAreCounted
<1>23. fallbacks' + Cardinality(Waiting') <= calls'
  BY <1>2, <1>3, <1>6, <1>21, <1>22
<1>24. Echoes' = Echoes
  BY <1>3 DEF Echoes
<1>25. FallbacksAreCounted'
  BY <1>1, <1>3, <1>21, <1>23, <1>24 DEF FallbacksAreCounted
<1> QED BY <1>13, <1>16, <1>19, <1>20, <1>25 DEF HotPathIInv

LEMMA ComputeKeeps ==
    ASSUME HotPathIInv, NEW c \in Calls, Compute(c) PROVE HotPathIInv'
<1>1. HotPathTyped /\ AnswersAreSound /\ CallsDiffer /\ Chained /\ FallbacksAreCounted
  BY DEF HotPathIInv
<1>2. UNCHANGED <<hardwareConfig, call, entries, chainHead, fallbacks, calls, answers>>
  BY DEF Compute
<1>3. gpuWork' = gpuWork \cup {call[c].of} /\ call[c].of \in 1..MaxCalls
  BY <1>1, CallsAre DEF Compute, AskingCall
<1>4. HotPathTyped'
  BY <1>1, <1>2, <1>3 DEF HotPathTyped
<1>5. calls \in Nat /\ answers \subseteq Answer
  BY <1>1, HotPathAssumption DEF HotPathTyped
<1>6. \A b \in Answer : Sound(b) => Sound(b)'
  BY <1>1, <1>2, <1>3, <1>5, SoundStays
<1>7. \A d \in Calls : call[d].at = "answered" => call[d].answer \in Answer
  BY <1>1, CallsAre DEF AnsweredCall
<1>8. AnswersAreSound'
  BY <1>1, <1>2, <1>5, <1>6, <1>7 DEF AnswersAreSound
<1>9. CallsDiffer' /\ Chained' /\ FallbacksAreCounted'
  BY <1>1, <1>2 DEF CallsDiffer, Chained, FallbacksAreCounted, Echoes, Waiting
<1> QED BY <1>4, <1>8, <1>9 DEF HotPathIInv

LEMMA AnsweredKeeps ==
    ASSUME HotPathIInv, NEW c \in Calls, call[c].at = "asking", NEW a \in Answer,
           a.of = call[c].of, Sound(a), Answered(c, a)
    PROVE  HotPathIInv'
<1>1. HotPathTyped /\ AnswersAreSound /\ CallsDiffer /\ Chained /\ FallbacksAreCounted
  BY DEF HotPathIInv
<1>2. UNCHANGED <<hardwareConfig, gpuWork, entries, chainHead, fallbacks, calls, answers>>
  BY DEF Answered
<1>3. PICK x : x = [at |-> "answered", of |-> a.of, head |-> call[c].head, answer |-> a]
  OBVIOUS
<1>4. call' = [call EXCEPT ![c] = x]
  BY <1>3 DEF Answered
<1>5. call[c] # NotCalled /\ call[c].of \in 1..MaxCalls /\ call[c].head \in Seq(Answer)
  BY <1>1, CallsAre
<1>6. x \in AnsweredCall /\ x.of = call[c].of /\ x.answer = a
  BY <1>3, <1>5 DEF AnsweredCall
<1>7. x # NotCalled
  BY <1>3 DEF NotCalled
<1>8. call \in [Calls -> {NotCalled} \cup AskingCall \cup AnsweredCall]
  BY <1>1 DEF HotPathTyped
<1>9. call'[c] = x /\ \A d \in Calls \ {c} : call'[d] = call[d]
  BY <1>4, <1>8
<1>10. call' \in [Calls -> {NotCalled} \cup AskingCall \cup AnsweredCall]
  BY <1>4, <1>6, <1>8
<1>11. HotPathTyped'
  BY <1>1, <1>2, <1>10 DEF HotPathTyped
<1>12. AnswersAreSound'
  <2>1. ASSUME NEW d \in Calls, call'[d].at = "answered"
        PROVE  call'[d].answer.of = call'[d].of /\ Sound(call'[d].answer)
    BY <1>1, <1>6, <1>9, <2>1 DEF AnswersAreSound
  <2> QED BY <1>1, <1>2, <2>1 DEF AnswersAreSound, Sound
<1>13. \A d \in Calls : /\ call'[d] # NotCalled <=> call[d] # NotCalled
                        /\ call[d] # NotCalled => call'[d].of = call[d].of
  BY <1>5, <1>6, <1>7, <1>9
<1>14. CallsDiffer'
  BY <1>1, <1>2, <1>13 DEF CallsDiffer
<1>15. Waiting' = Waiting
  BY <1>13 DEF Waiting
<1>16. Echoes' = Echoes
  BY <1>2 DEF Echoes
<1>17. Chained'
  BY <1>1, <1>2 DEF Chained
<1>18. FallbacksAreCounted'
  BY <1>1, <1>2, <1>15, <1>16 DEF FallbacksAreCounted
<1> QED BY <1>11, <1>12, <1>14, <1>17, <1>18 DEF HotPathIInv

LEMMA ResumeKeeps ==
    ASSUME HotPathIInv, NEW c \in Calls, Resume(c) PROVE HotPathIInv'
<1>1. HotPathTyped /\ AnswersAreSound /\ CallsDiffer /\ Chained /\ FallbacksAreCounted
  BY DEF HotPathIInv
<1>2. UNCHANGED <<hardwareConfig, gpuWork, calls>> /\ call[c].at = "answered"
  BY DEF Resume
<1>3. PICK a : a = call[c].answer
  OBVIOUS
<1>4. call[c] \in AnsweredCall /\ call[c] # NotCalled
  BY <1>1, <1>2, CallsAre
<1>5. a \in Answer /\ a.of = call[c].of /\ Sound(a)
  BY <1>1, <1>2, <1>3, <1>4 DEF AnswersAreSound, AnsweredCall
<1>6. Log(chainHead, a)
  BY <1>3 DEF Resume, ParentFor
<1>7. \A b \in answers : b.of # a.of
  BY <1>1, <1>4, <1>5 DEF CallsDiffer
<1>8. /\ entries' \in Seq(Entry) /\ chainHead' \in Seq(Answer) /\ Chained'
      /\ answers' = answers \cup {a} /\ answers' \subseteq Answer
      /\ IsFiniteSet(Echoes') /\ fallbacks' \in Nat
      /\ fallbacks' = fallbacks \/ fallbacks' = fallbacks + 1
      /\ Mode(hardwareConfig) = "cuda" => fallbacks' = Cardinality(Echoes')
  BY <1>1, <1>2, <1>5, <1>6, <1>7, LogKeeps DEF Sound
<1>9. call \in [Calls -> {NotCalled} \cup AskingCall \cup AnsweredCall]
  BY <1>1 DEF HotPathTyped
<1>10. call' = [call EXCEPT ![c] = NotCalled]
  BY DEF Resume
<1>11. call'[c] = NotCalled /\ \A d \in Calls \ {c} : call'[d] = call[d]
  BY <1>9, <1>10
<1>12. call' \in [Calls -> {NotCalled} \cup AskingCall \cup AnsweredCall]
  BY <1>9, <1>10
<1>13. HotPathTyped'
  BY <1>1, <1>2, <1>8, <1>12 DEF HotPathTyped
<1>14. AnswersAreSound'
  <2>1. ASSUME NEW d \in Calls, call'[d].at = "answered"
        PROVE  call'[d].answer.of = call'[d].of /\ Sound(call'[d].answer)
    <3>1. d # c
      BY <1>11, <2>1 DEF NotCalled
    <3> QED BY <1>1, <1>11, <2>1, <3>1 DEF AnswersAreSound
  <2>2. \A b \in answers' : Sound(b)
    BY <1>1, <1>5, <1>8 DEF AnswersAreSound
  <2> QED BY <1>2, <2>1, <2>2 DEF AnswersAreSound, Sound
<1>15. CallsDiffer'
  <2>1. SUFFICES ASSUME NEW q \in Calls, call'[q] # NotCalled
                 PROVE  /\ call'[q].of <= calls
                        /\ \A d \in Calls \ {q} : call'[d] # NotCalled => call'[d].of # call'[q].of
                        /\ \A b \in answers' : b.of # call'[q].of
    BY <1>2 DEF CallsDiffer
  <2>2. q # c /\ call'[q] = call[q]
    BY <1>11, <2>1
  <2>3. /\ call[q].of <= calls
        /\ \A d \in Calls \ {q} : call[d] # NotCalled => call[d].of # call[q].of
        /\ \A b \in answers : b.of # call[q].of
    BY <1>1, <2>1, <2>2 DEF CallsDiffer
  <2>4. call[c].of # call[q].of
    BY <1>4, <2>2, <2>3
  <2>5. \A b \in answers' : b.of # call[q].of
    BY <1>5, <1>8, <2>3, <2>4
  <2>6. \A d \in Calls \ {q} : call'[d] # NotCalled => call'[d].of # call[q].of
    BY <1>11, <2>3
  <2> QED BY <2>2, <2>3, <2>5, <2>6
<1>16. /\ IsFiniteSet(Waiting') /\ Cardinality(Waiting) \in Nat
       /\ Cardinality(Waiting') = Cardinality(Waiting) - 1
  BY <1>1, <1>4, <1>11, WaitingAfter DEF FallbacksAreCounted
<1>17. fallbacks + Cardinality(Waiting) <= calls /\ fallbacks \in Nat /\ calls \in Nat
  BY <1>1, HotPathAssumption DEF FallbacksAreCounted, HotPathTyped
<1>18. fallbacks' + Cardinality(Waiting') <= calls
  BY <1>8, <1>16, <1>17
<1>19. FallbacksAreCounted'
  BY <1>2, <1>8, <1>16, <1>18 DEF FallbacksAreCounted
<1> QED BY <1>8, <1>13, <1>14, <1>15, <1>19 DEF HotPathIInv

LEMMA HotPathStepKeeps == HotPathIInv /\ [HotPathNext]_hotPathVars => HotPathIInv'
<1> SUFFICES ASSUME HotPathIInv, [HotPathNext]_hotPathVars PROVE HotPathIInv'
  OBVIOUS
<1>1. HotPathTyped /\ CallsDiffer
  BY DEF HotPathIInv
<1>2. CASE DispatchCPU
  BY <1>2, DispatchCPUKeeps
<1>3. ASSUME NEW c \in Calls, DispatchCUDA(c) PROVE HotPathIInv'
  BY <1>3, DispatchCUDAKeeps
<1>4. ASSUME NEW c \in Calls, Compute(c) PROVE HotPathIInv'
  BY <1>4, ComputeKeeps
<1>5. ASSUME NEW c \in Calls, ServiceAnswers(c) PROVE HotPathIInv'
  <2>1. PICK a : a = [of |-> call[c].of, on |-> "gpu", fallback |-> FALSE]
    OBVIOUS
  <2>2. call[c].at = "asking" /\ call[c].of \in gpuWork /\ Answered(c, a)
    BY <1>5, <2>1 DEF ServiceAnswers
  <2>3. call[c] # NotCalled /\ call[c].of \in 1..MaxCalls /\ call[c].of <= calls
    BY <1>1, <2>2, CallsAre DEF CallsDiffer
  <2>4. a \in Answer /\ a.of = call[c].of /\ a.on = "gpu" /\ a.fallback = FALSE
    BY <2>1, <2>3 DEF Answer
  <2>5. Sound(a)
    BY <2>2, <2>3, <2>4 DEF Sound
  <2> QED BY <2>2, <2>4, <2>5, AnsweredKeeps
<1>6. ASSUME NEW c \in Calls, FallBackToCPU(c) PROVE HotPathIInv'
  <2>1. PICK a : a = [of |-> call[c].of, on |-> "echo", fallback |-> TRUE]
    OBVIOUS
  <2>2. call[c].at = "asking" /\ Answered(c, a)
    BY <1>6, <2>1 DEF FallBackToCPU, FallbackAnswer
  <2>3. call[c] # NotCalled /\ call[c].of \in 1..MaxCalls /\ call[c].of <= calls
    BY <1>1, <2>2, CallsAre DEF CallsDiffer
  <2>4. a \in Answer /\ a.of = call[c].of /\ a.on = "echo" /\ a.fallback = TRUE
    BY <2>1, <2>3 DEF Answer
  <2>5. Sound(a)
    BY <2>3, <2>4 DEF Sound
  <2> QED BY <2>2, <2>4, <2>5, AnsweredKeeps
<1>7. ASSUME NEW c \in Calls, Resume(c) PROVE HotPathIInv'
  BY <1>7, ResumeKeeps
<1>8. CASE UNCHANGED hotPathVars
  BY <1>8 DEF HotPathIInv, HotPathTyped, AnswersAreSound, Sound, CallsDiffer, Chained,
              FallbacksAreCounted, Echoes, Waiting, hotPathVars
<1> QED BY <1>2, <1>3, <1>4, <1>5, <1>6, <1>7, <1>8 DEF HotPathNext

LEMMA HotPathStarts == HotPathInit => HotPathIInv
<1> SUFFICES ASSUME HotPathInit PROVE HotPathIInv
  OBVIOUS
<1>1. /\ hardwareConfig \in Config /\ call = [c \in Calls |-> NotCalled] /\ gpuWork = {}
      /\ entries = <<>> /\ chainHead = <<>> /\ fallbacks = 0 /\ calls = 0 /\ answers = {}
  BY DEF HotPathInit
<1>2. \A c \in Calls : call[c] = NotCalled /\ call[c].at = "idle"
  BY <1>1 DEF NotCalled
<1>3. HotPathTyped
  <2>1. entries \in Seq(Entry) /\ chainHead \in Seq(Answer)
    BY <1>1, EmptySeq
  <2> QED BY <1>1, <2>1, HotPathAssumption DEF HotPathTyped
<1>4. AnswersAreSound /\ CallsDiffer
  BY <1>1, <1>2 DEF AnswersAreSound, CallsDiffer
<1>5. Chained
  <2>1. 1..Len(entries) = {}
    BY <1>1
  <2>2. [j \in 1..Len(entries) |-> entries[j].answer] = <<>>
    BY <2>1
  <2> QED BY <1>1, <2>1, <2>2 DEF Chained
<1>6. FallbacksAreCounted
  <2>1. Waiting = {} /\ Echoes = {}
    BY <1>1, <1>2 DEF Waiting, Echoes
  <2>2. IsFiniteSet({}) /\ Cardinality({}) = 0
    BY FS_EmptySet
  <2> QED BY <1>1, <2>1, <2>2 DEF FallbacksAreCounted
<1> QED BY <1>3, <1>4, <1>5, <1>6 DEF HotPathIInv

LEMMA HotPathIInvImplies == HotPathIInv => HotPathInv
<1> SUFFICES ASSUME HotPathIInv PROVE HotPathInv
  OBVIOUS
<1>1. HotPathTyped /\ AnswersAreSound /\ CallsDiffer /\ Chained /\ FallbacksAreCounted
  BY DEF HotPathIInv
<1>2. entries \in Seq(Entry) /\ fallbacks \in Nat /\ calls \in 0..MaxCalls
  BY <1>1 DEF HotPathTyped
<1>3. PICK n \in Nat : n = Len(entries)
  BY <1>2
<1>4. DOMAIN entries = 1..n
  BY <1>2, <1>3
<1>5. OneChain
  <2>1. chainHead = IF entries = <<>> THEN <<>> ELSE Last(entries).hash
    <3>1. chainHead = [j \in 1..n |-> entries[j].answer]
      BY <1>1, <1>3 DEF Chained
    <3>2. CASE entries = <<>>
      <4>1. n = 0 /\ 1..n = {}
        BY <1>3, <3>2
      <4> QED BY <3>1, <3>2, <4>1
    <3>3. CASE entries # <<>>
      <4>1. n \in 1..n
        BY <1>2, <1>3, <3>3
      <4>2. Last(entries).hash = [j \in 1..n |-> entries[j].answer]
        BY <1>1, <1>3, <4>1 DEF Last, Chained
      <4> QED BY <3>1, <3>3, <4>2
    <3> QED BY <3>2, <3>3
  <2>2. \A i \in DOMAIN entries :
            /\ entries[i].hash = [j \in 1..i |-> entries[j].answer]
            /\ \A j \in 1..(i - 1) : entries[j].answer.of # entries[i].answer.of
    BY <1>1, <1>3, <1>4 DEF Chained
  <2> QED BY <2>1, <2>2 DEF OneChain
<1>6. UncomputedIsMarked
  BY <1>1 DEF UncomputedIsMarked, AnswersAreSound, Sound, FallbacksAreCounted, Echoes
<1>7. fallbacks \in 0..MaxCalls
  <2>1. Cardinality(Waiting) \in Nat /\ fallbacks + Cardinality(Waiting) <= calls
    BY <1>1, FS_CardinalityType DEF FallbacksAreCounted
  <2> QED BY <1>2, <2>1, HotPathAssumption
<1>8. \A c \in Calls : call[c].at \in {"idle", "asking", "answered"}
  BY <1>1, CallsAre
<1>9. HotPathTypeOK
  BY <1>1, <1>7, <1>8 DEF HotPathTypeOK, HotPathTyped, Entry
<1> QED BY <1>5, <1>6, <1>9 DEF HotPathInv

(* In whatever order overlapping dispatches are answered, one chain holds  *)
(* every answer once, an answer without the mark of a fallback was         *)
(* computed by the service for its call, and every fallback is counted     *)
(* (HotPathRouter, CUDAProvider).                                          *)
THEOREM AnswersAreChained == HotPathSpec => []HotPathInv
<1>1. HotPathInit => HotPathIInv
  BY HotPathStarts
<1>2. HotPathIInv /\ [HotPathNext]_hotPathVars => HotPathIInv'
  BY HotPathStepKeeps
<1>3. HotPathIInv => HotPathInv
  BY HotPathIInvImplies
<1> QED BY <1>1, <1>2, <1>3, PTL DEF HotPathSpec

-----------------------------------------------------------------------------
(* A set of numbers that is not empty has a least.                          *)
LEMMA LeastIndex ==
    ASSUME NEW S \in SUBSET Nat, S # {}
    PROVE  \E i \in S : \A j \in S : i <= j
<1>1. IsWellFoundedOn(OpToRel(<, Nat), Nat)
  BY NatLessThanWellFounded
<1>2. PICK i \in S : \A j \in S : ~(<<j, i>> \in OpToRel(<, Nat))
  BY <1>1, WFMin
<1>3. \A j \in S : ~(j < i)
  BY <1>2 DEF OpToRel
<1>4. \A j \in S : i \in Nat /\ j \in Nat
  OBVIOUS
<1> QED BY <1>3, <1>4

(* Provider routing. *)

LEMMA ProvidersInOrder ==
    /\ DOMAIN FallbackOrder = 1..Len(FallbackOrder) /\ Len(FallbackOrder) \in Nat
    /\ 1 \in DOMAIN FallbackOrder
    /\ \A i \in DOMAIN FallbackOrder : FallbackOrder[i] \in Providers
    /\ Flagship \in Providers /\ "auto" \notin Providers
    /\ "local" \notin Providers /\ "human-review" \notin Providers
<1>1. FallbackOrder \in Seq(STRING) /\ FallbackOrder # <<>>
  BY RoutingAssumption
<1>2. DOMAIN FallbackOrder = 1..Len(FallbackOrder) /\ Len(FallbackOrder) \in Nat /\ Len(FallbackOrder) # 0
  BY <1>1
<1>3. 1 \in DOMAIN FallbackOrder
  BY <1>2
<1>4. Flagship \in Providers /\ Providers \cap {"auto", "local", "human-review"} = {}
  BY RoutingAssumption
<1> QED BY <1>2, <1>3, <1>4 DEF Providers

(* Failover goes to the first provider that is up.                         *)
LEMMA FailoverIs ==
    ASSUME NEW down, NEW i \in DOMAIN FallbackOrder, FallbackOrder[i] \notin down,
           \A j \in 1..(i - 1) : FallbackOrder[j] \in down
    PROVE  Failover(down) = FallbackOrder[i]
<1>1. PICK k : k = CHOOSE x \in DOMAIN FallbackOrder :
                        /\ FallbackOrder[x] \notin down
                        /\ \A j \in 1..(x - 1) : FallbackOrder[j] \in down
  OBVIOUS
<1>2. /\ k \in DOMAIN FallbackOrder /\ FallbackOrder[k] \notin down
      /\ \A j \in 1..(k - 1) : FallbackOrder[j] \in down
  BY <1>1
<1>3. i \in Nat \ {0} /\ k \in Nat \ {0}
  BY <1>2, ProvidersInOrder
<1>4. ~(i < k) /\ ~(k < i)
  <2>1. ASSUME i < k PROVE FALSE
    <3>1. i \in 1..(k - 1)
      BY <1>3, <2>1
    <3> QED BY <1>2, <3>1
  <2>2. ASSUME k < i PROVE FALSE
    <3>1. k \in 1..(i - 1)
      BY <1>3, <2>2
    <3> QED BY <1>2, <3>1
  <2> QED BY <2>1, <2>2
<1>5. i = k
  BY <1>3, <1>4
<1> QED BY <1>1, <1>5 DEF Failover

LEMMA SomeProviderIsUp ==
    ASSUME NEW down, ~(Providers \subseteq down)
    PROVE  \E i \in DOMAIN FallbackOrder :
                /\ FallbackOrder[i] \notin down
                /\ \A j \in 1..(i - 1) : FallbackOrder[j] \in down
<1>1. PICK n \in Nat : DOMAIN FallbackOrder = 1..n
  BY ProvidersInOrder
<1>2. PICK S : S = {i \in 1..n : FallbackOrder[i] \notin down}
  OBVIOUS
<1>3. S # {} /\ S \in SUBSET Nat
  BY <1>1, <1>2 DEF Providers
<1>4. PICK i \in S : \A j \in S : i <= j
  BY <1>3, LeastIndex
<1>5. i \in 1..n /\ FallbackOrder[i] \notin down
  BY <1>2
<1>6. \A j \in 1..(i - 1) : FallbackOrder[j] \in down
  <2>1. SUFFICES ASSUME NEW j \in 1..(i - 1), FallbackOrder[j] \notin down PROVE FALSE
    OBVIOUS
  <2>2. j \in 1..n /\ ~(i <= j)
    BY <1>5
  <2> QED BY <1>2, <1>4, <2>1, <2>2
<1> QED BY <1>1, <1>5, <1>6

(* Whoever is wanted, a provider that is up is chosen if any is; and       *)
(* another one going down does not change which.                           *)
LEMMA ChosenIsUp ==
    ASSUME policy \in Policy, NEW s, NEW down, ~(Providers \subseteq down)
    PROVE  /\ Chosen(policy, s, down) \in Providers \ down
           /\ \A p \in Providers \ {Chosen(policy, s, down)} :
                  Chosen(policy, s, down \cup {p}) = Chosen(policy, s, down)
<1>1. policy.preferred \in Providers \cup {"auto"}
  BY DEF Policy
<1>2. PICK w : w = Wanted(policy, s)
  OBVIOUS
<1>3. w \in Providers
  BY <1>1, <1>2, ProvidersInOrder DEF Wanted, AutoProvider
<1>4. PICK i \in DOMAIN FallbackOrder :
          FallbackOrder[i] \notin down /\ \A j \in 1..(i - 1) : FallbackOrder[j] \in down
  BY SomeProviderIsUp
<1>5. Failover(down) = FallbackOrder[i] /\ FallbackOrder[i] \in Providers
  BY <1>4, FailoverIs, ProvidersInOrder
<1>6. CASE w \in down
  <2>1. Chosen(policy, s, down) = FallbackOrder[i]
    BY <1>2, <1>5, <1>6 DEF Chosen
  <2>2. ASSUME NEW p \in Providers \ {FallbackOrder[i]}
        PROVE  Chosen(policy, s, down \cup {p}) = FallbackOrder[i]
    <3>1. FallbackOrder[i] \notin down \cup {p}
      BY <1>4
    <3>2. \A j \in 1..(i - 1) : FallbackOrder[j] \in down \cup {p}
      BY <1>4
    <3>3. Failover(down \cup {p}) = FallbackOrder[i]
      BY <3>1, <3>2, FailoverIs
    <3> QED BY <1>2, <1>6, <3>3 DEF Chosen
  <2> QED BY <1>4, <1>5, <2>1, <2>2
<1>7. CASE w \notin down
  <2>1. Chosen(policy, s, down) = w
    BY <1>2, <1>7 DEF Chosen
  <2>2. \A p \in Providers \ {w} : Chosen(policy, s, down \cup {p}) = w
    BY <1>2, <1>7 DEF Chosen
  <2> QED BY <1>3, <1>7, <2>1, <2>2
<1> QED BY <1>6, <1>7

(* What a decision is.                                                     *)
CallIsDue(s, down) == ~s.cached /\ s.novel /\ ~s.doubtful /\ ~(Providers \subseteq down)
LEMMA DecisionIs ==
    ASSUME policy \in Policy, NEW s \in Signals, NEW down
    PROVE  /\ s.cached => Decide(policy, s, down) = Nowhere("local")
           /\ ~s.cached /\ s.novel /\ s.doubtful =>
                  Decide(policy, s, down) = Nowhere("human-review")
           /\ ~s.cached /\ ~s.novel => Decide(policy, s, down) = Nowhere("local")
           /\ ~s.cached /\ ~(s.novel /\ s.doubtful) /\ Providers \subseteq down =>
                  Decide(policy, s, down) = Nowhere("local")
           /\ CallIsDue(s, down) =>
                  Decide(policy, s, down) =
                      [to |-> Chosen(policy, s, down),
                       tier |-> TierFor(policy, s, Chosen(policy, s, down))]
<1>1. PICK cached \in BOOLEAN : cached = s.cached
  BY DEF Signals
<1>2. PICK novel \in BOOLEAN : novel = s.novel
  BY DEF Signals
<1>3. PICK doubtful \in BOOLEAN : doubtful = s.doubtful
  BY DEF Signals
<1>4. PICK due : due = [to |-> Chosen(policy, s, down),
                        tier |-> TierFor(policy, s, Chosen(policy, s, down))]
  OBVIOUS
<1>5. PICK none \in BOOLEAN : none = (Providers \subseteq down)
  OBVIOUS
<1>6. Decide(policy, s, down) =
          CASE cached -> Nowhere("local")
            [] ~cached /\ (novel /\ doubtful) -> Nowhere("human-review")
            [] ~cached /\ ~(novel /\ doubtful) /\ (~novel \/ none) -> Nowhere("local")
            [] OTHER -> due
  BY <1>1, <1>2, <1>3, <1>4, <1>5 DEF Decide, NeedsReview
<1>7. CASE cached
  BY <1>1, <1>6, <1>7 DEF CallIsDue
<1>8. CASE ~cached /\ novel /\ doubtful
  BY <1>1, <1>2, <1>3, <1>6, <1>8 DEF CallIsDue
<1>9. CASE ~cached /\ ~(novel /\ doubtful) /\ (~novel \/ none)
  BY <1>1, <1>2, <1>3, <1>5, <1>6, <1>9 DEF CallIsDue
<1>10. CASE ~cached /\ novel /\ ~doubtful /\ ~none
  BY <1>1, <1>2, <1>3, <1>4, <1>5, <1>6, <1>10 DEF CallIsDue
<1> QED BY <1>7, <1>8, <1>9, <1>10

LEMMA TierIs ==
    ASSUME policy \in Policy, NEW s \in Signals, NEW to
    PROVE  /\ TierFor(policy, s, to) \in Tier
           /\ TierFor(policy, s, to) = "pinned" <=> policy.pinned /\ policy.preferred = to
<1>1. policy.pinned \in BOOLEAN
  BY DEF Policy
<1>2. CASE Pinned(policy, to)
  <2>1. TierFor(policy, s, to) = "pinned"
    BY <1>2 DEF TierFor
  <2> QED BY <1>2, <2>1 DEF Pinned, Tier
<1>3. CASE ~Pinned(policy, to)
  <2>1. TierFor(policy, s, to) \in {"cheap", "reasoning", "flagship", "promoted", "default"}
    <3>1. CASE policy.cost = "cost"
      BY <1>3, <3>1 DEF TierFor
    <3>2. CASE policy.cost = "quality"
      BY <1>3, <3>2 DEF TierFor
    <3>3. CASE policy.cost # "cost" /\ policy.cost # "quality"
      BY <1>3, <3>3 DEF TierFor
    <3> QED BY <3>1, <3>2, <3>3
  <2> QED BY <1>1, <1>3, <2>1 DEF Pinned, Tier
<1> QED BY <1>2, <1>3

LEMMA SignalsFall ==
    ASSUME NEW s \in Signals, NEW down
    PROVE  \/ s.cached
           \/ ~s.cached /\ s.novel /\ s.doubtful
           \/ ~s.cached /\ ~s.novel
           \/ ~s.cached /\ s.novel /\ ~s.doubtful /\ Providers \subseteq down
           \/ CallIsDue(s, down)
BY DEF Signals, CallIsDue


LEMMA DecisionsAreSound ==
    ASSUME RoutingTypeOK
    PROVE  AgreesWithSingleRouters /\ OutagesElsewhereChangeNothing /\ PinsStayAtHome
<1>1. policy \in Policy /\ unavailable \subseteq Providers
  BY DEF RoutingTypeOK
<1>2. "local" \notin Providers /\ "human-review" \notin Providers
  BY ProvidersInOrder
<1>3. \A x : Nowhere(x).to = x /\ Nowhere(x).tier = "none"
  BY DEF Nowhere
<1>4. ASSUME NEW s \in Signals, CallIsDue(s, unavailable)
      PROVE  \E to \in Providers \ unavailable : \E tier \in Tier :
                 /\ Decide(policy, s, unavailable) = [to |-> to, tier |-> tier]
                 /\ tier = "pinned" <=> policy.pinned /\ policy.preferred = to
                 /\ \A p \in Providers \ {to} :
                        Decide(policy, s, unavailable \cup {p}) = [to |-> to, tier |-> tier]
  <2>1. ~(Providers \subseteq unavailable)
    BY <1>4 DEF CallIsDue
  <2>2. PICK to \in Providers \ unavailable : to = Chosen(policy, s, unavailable)
    BY <1>1, <2>1, ChosenIsUp
  <2>3. PICK tier \in Tier : /\ tier = TierFor(policy, s, to)
                             /\ tier = "pinned" <=> policy.pinned /\ policy.preferred = to
    BY <1>1, TierIs
  <2>4. Decide(policy, s, unavailable) = [to |-> to, tier |-> tier]
    BY <1>1, <1>4, <2>2, <2>3, DecisionIs
  <2>5. ASSUME NEW p \in Providers \ {to}
        PROVE  Decide(policy, s, unavailable \cup {p}) = [to |-> to, tier |-> tier]
    <3>1. Chosen(policy, s, unavailable \cup {p}) = to
      BY <1>1, <2>1, <2>2, ChosenIsUp
    <3>2. CallIsDue(s, unavailable \cup {p})
      BY <1>4, <2>2 DEF CallIsDue
    <3> QED BY <1>1, <2>3, <3>1, <3>2, DecisionIs
  <2> QED BY <2>3, <2>4, <2>5
<1>5. AgreesWithSingleRouters
  <2>1. SUFFICES ASSUME NEW s \in Signals, NEW p \in Providers \ unavailable
                 PROVE  (IF Decide(policy, s, unavailable).to \in Providers THEN p
                         ELSE Decide(policy, s, unavailable).to) = DecideAlone(s, p)
    BY DEF AgreesWithSingleRouters
  <2>2. CASE s.cached
    <3>1. Decide(policy, s, unavailable).to = "local"
      BY <1>1, <1>3, <2>2, DecisionIs
    <3>2. DecideAlone(s, p) = "local"
      BY <2>2 DEF DecideAlone
    <3> QED BY <1>2, <3>1, <3>2
  <2>3. CASE ~s.cached /\ s.novel /\ s.doubtful
    <3>1. Decide(policy, s, unavailable).to = "human-review"
      BY <1>1, <1>3, <2>3, DecisionIs
    <3>2. DecideAlone(s, p) = "human-review"
      BY <2>3 DEF DecideAlone
    <3> QED BY <1>2, <3>1, <3>2
  <2>4. CASE ~s.cached /\ ~s.novel
    <3>1. Decide(policy, s, unavailable).to = "local"
      BY <1>1, <1>3, <2>4, DecisionIs
    <3>2. DecideAlone(s, p) = "local"
      BY <2>4 DEF DecideAlone
    <3> QED BY <1>2, <3>1, <3>2
  <2>5. CASE CallIsDue(s, unavailable)
    <3>1. PICK to \in Providers \ unavailable :
              \E tier \in Tier :
                 /\ Decide(policy, s, unavailable) = [to |-> to, tier |-> tier]
                 /\ tier = "pinned" <=> policy.pinned /\ policy.preferred = to
                 /\ \A q \in Providers \ {to} :
                        Decide(policy, s, unavailable \cup {q}) = [to |-> to, tier |-> tier]
      BY <1>4, <2>5
    <3>2. PICK tier \in Tier :
                 /\ Decide(policy, s, unavailable) = [to |-> to, tier |-> tier]
                 /\ tier = "pinned" <=> policy.pinned /\ policy.preferred = to
                 /\ \A q \in Providers \ {to} :
                        Decide(policy, s, unavailable \cup {q}) = [to |-> to, tier |-> tier]
      BY <3>1
    <3>3. Decide(policy, s, unavailable).to = to /\ Decide(policy, s, unavailable).tier = tier
      BY <3>2
    <3>4. DecideAlone(s, p) = p
      BY <2>5 DEF DecideAlone, CallIsDue
    <3> QED BY <3>3, <3>4
  <2> QED BY <2>2, <2>3, <2>4, <2>5, SignalsFall
<1>6. ASSUME NEW s \in Signals
      PROVE  \/ CallIsDue(s, unavailable)
             \/ /\ Decide(policy, s, unavailable).to \in {"local", "human-review"}
                /\ Decide(policy, s, unavailable).tier = "none"
  BY <1>1, <1>3, DecisionIs, SignalsFall
<1>7. OutagesElsewhereChangeNothing
  <2>1. SUFFICES ASSUME NEW s \in Signals, NEW p \in Providers
                 PROVE  /\ Decide(policy, s, unavailable).to \notin unavailable
                        /\ Decide(policy, s, unavailable).to \in Providers \ {p} =>
                              Decide(policy, s, unavailable \cup {p}) = Decide(policy, s, unavailable)
    BY DEF OutagesElsewhereChangeNothing
  <2>2. CASE CallIsDue(s, unavailable)
    <3>1. PICK to \in Providers \ unavailable :
              \E tier \in Tier :
                 /\ Decide(policy, s, unavailable) = [to |-> to, tier |-> tier]
                 /\ tier = "pinned" <=> policy.pinned /\ policy.preferred = to
                 /\ \A q \in Providers \ {to} :
                        Decide(policy, s, unavailable \cup {q}) = [to |-> to, tier |-> tier]
      BY <1>4, <2>2
    <3>2. PICK tier \in Tier :
                 /\ Decide(policy, s, unavailable) = [to |-> to, tier |-> tier]
                 /\ tier = "pinned" <=> policy.pinned /\ policy.preferred = to
                 /\ \A q \in Providers \ {to} :
                        Decide(policy, s, unavailable \cup {q}) = [to |-> to, tier |-> tier]
      BY <3>1
    <3>3. Decide(policy, s, unavailable).to = to /\ Decide(policy, s, unavailable).tier = tier
      BY <3>2
    <3> QED BY <3>2, <3>3
  <2>3. CASE Decide(policy, s, unavailable).to \in {"local", "human-review"}
    BY <1>1, <1>2, <2>3
  <2> QED BY <1>6, <2>2, <2>3
<1>8. PinsStayAtHome
  <2>1. SUFFICES ASSUME NEW s \in Signals
                 PROVE  Decide(policy, s, unavailable).tier = "pinned" <=>
                            /\ policy.pinned
                            /\ Decide(policy, s, unavailable).to = policy.preferred
                            /\ Decide(policy, s, unavailable).to \in Providers
    BY DEF PinsStayAtHome
  <2>2. CASE CallIsDue(s, unavailable)
    <3>1. PICK to \in Providers \ unavailable :
              \E tier \in Tier :
                 /\ Decide(policy, s, unavailable) = [to |-> to, tier |-> tier]
                 /\ tier = "pinned" <=> policy.pinned /\ policy.preferred = to
                 /\ \A q \in Providers \ {to} :
                        Decide(policy, s, unavailable \cup {q}) = [to |-> to, tier |-> tier]
      BY <1>4, <2>2
    <3>2. PICK tier \in Tier :
                 /\ Decide(policy, s, unavailable) = [to |-> to, tier |-> tier]
                 /\ tier = "pinned" <=> policy.pinned /\ policy.preferred = to
                 /\ \A q \in Providers \ {to} :
                        Decide(policy, s, unavailable \cup {q}) = [to |-> to, tier |-> tier]
      BY <3>1
    <3>3. Decide(policy, s, unavailable).to = to /\ Decide(policy, s, unavailable).tier = tier
      BY <3>2
    <3>4. tier = "pinned" <=> policy.pinned /\ policy.preferred = to
      BY <3>2
    <3>5. policy.pinned \in BOOLEAN /\ to \in Providers
      BY <1>1 DEF Policy
    <3> QED BY <3>3, <3>4, <3>5
  <2>3. CASE /\ Decide(policy, s, unavailable).to \in {"local", "human-review"}
             /\ Decide(policy, s, unavailable).tier = "none"
    BY <1>2, <2>3
  <2> QED BY <1>6, <2>2, <2>3
<1> QED BY <1>5, <1>7, <1>8

LEMMA RoutingStepKeeps == RoutingTypeOK /\ [RoutingNext]_routingVars => RoutingTypeOK'
<1> SUFFICES ASSUME RoutingTypeOK, [RoutingNext]_routingVars PROVE RoutingTypeOK'
  OBVIOUS
<1>1. /\ policy \in Policy /\ unavailable \subseteq Providers
      /\ decision \in [to : Providers, tier : Tier] \cup [to : {"local", "human-review"}, tier : {"none"}]
  BY DEF RoutingTypeOK
<1>2. ASSUME NEW s \in Signals, Route(s) PROVE RoutingTypeOK'
  <2>1. decision' = Decide(policy, s, unavailable) /\ UNCHANGED <<policy, unavailable>>
    BY <1>2 DEF Route
  <2>2. \A x \in {"local", "human-review"} : Nowhere(x) \in [to : {"local", "human-review"}, tier : {"none"}]
    BY DEF Nowhere
  <2>3. CASE CallIsDue(s, unavailable)
    <3>1. PICK to \in Providers : to = Chosen(policy, s, unavailable)
      BY <1>1, <2>3, ChosenIsUp DEF CallIsDue
    <3>2. PICK tier \in Tier : tier = TierFor(policy, s, to)
      BY <1>1, TierIs
    <3>3. decision' = [to |-> to, tier |-> tier]
      BY <1>1, <2>1, <2>3, <3>1, <3>2, DecisionIs
    <3> QED BY <1>1, <2>1, <3>3 DEF RoutingTypeOK
  <2>4. CASE ~CallIsDue(s, unavailable)
    <3>1. decision' = Nowhere("local") \/ decision' = Nowhere("human-review")
      BY <1>1, <2>1, <2>4, DecisionIs, SignalsFall
    <3> QED BY <1>1, <2>1, <2>2, <3>1 DEF RoutingTypeOK
  <2> QED BY <2>3, <2>4
<1>3. ASSUME NEW p \in Providers, GoDown(p) \/ ComeBack(p) PROVE RoutingTypeOK'
  BY <1>1, <1>3 DEF GoDown, ComeBack, RoutingTypeOK
<1>4. CASE UNCHANGED routingVars
  BY <1>1, <1>4 DEF routingVars, RoutingTypeOK
<1> QED BY <1>2, <1>3, <1>4 DEF RoutingNext

LEMMA RoutingStarts == RoutingInit => RoutingTypeOK
BY DEF RoutingInit, RoutingTypeOK

LEMMA RoutingIInvImplies == RoutingTypeOK => RoutingInv
BY DecisionsAreSound DEF RoutingInv

(* Whatever providers are down and whoever is preferred, the router sends  *)
(* a prompt where a single-provider router would, the outage of a provider *)
(* that was not chosen changes no decision, and a pinned model never       *)
(* leaves its provider (chooseProviderAcrossGrokAndQwen).                  *)
THEOREM FailoverIsStable == RoutingSpec => []RoutingInv
<1>1. RoutingInit => RoutingTypeOK
  BY RoutingStarts
<1>2. RoutingTypeOK /\ [RoutingNext]_routingVars => RoutingTypeOK'
  BY RoutingStepKeeps
<1>3. RoutingTypeOK => RoutingInv
  BY RoutingIInvImplies
<1> QED BY <1>1, <1>2, <1>3, PTL DEF RoutingSpec

-----------------------------------------------------------------------------
(* The efficacy program. *)

(* A run that passed its gates without a flaw was sealed first, with the   *)
(* vault and the rule it was sealed with, and with nothing leaked; the     *)
(* rule still stands unless it was changed since.                          *)
GatesHold ==
    gated /\ flaws = {} =>
        /\ committed /\ sealedFirst /\ observed # "leaked"
        /\ ~movedLate => rule = sealedRule

(* A verdict was reached after the last mark, by the rule that still       *)
(* stands, and is "invalidated" when there was a flaw.                     *)
VerdictStands ==
    published # NoVerdict =>
        /\ gated /\ Unrated = {} /\ published.rule = rule
        /\ published.verdict # "invalidated" => flaws = {}

EfficacyIInv == GatesHold /\ VerdictStands /\ SupportRestsOnMarks

(* Who is rated and who wins depends on the marks alone.                   *)
LEMMA MarksTell ==
    ASSUME ratings' = ratings
    PROVE  /\ Unrated' = Unrated /\ Greater' = Greater /\ Lesser' = Lesser
           /\ TasksIn("treatment")' = TasksIn("treatment")
           /\ TasksIn("control")' = TasksIn("control")
<1>1. Unrated' = Unrated
  BY DEF Unrated
<1>2. \A arm : TasksIn(arm)' = TasksIn(arm)
  BY DEF Rated, Present, ArmOf, TaskOf, TasksIn
<1>3. \A arm, other : Wins(arm, other)' = Wins(arm, other)
  BY DEF ScoreOf, Rated, Present, ArmOf, TaskOf, Wins, TasksIn
<1> QED BY <1>1, <1>2, <1>3 DEF Greater, Lesser

LEMMA VerdictLasts ==
    ASSUME SupportRestsOnMarks, UNCHANGED <<published, ratings>>
    PROVE  SupportRestsOnMarks'
<1>1. /\ Greater' = Greater /\ Lesser' = Lesser
      /\ TasksIn("treatment")' = TasksIn("treatment") /\ TasksIn("control")' = TasksIn("control")
  BY MarksTell
<1> QED BY <1>1 DEF SupportRestsOnMarks

LEMMA ArmsAreFinite ==
    \A arm, other : /\ IsFiniteSet(TasksIn(arm)) /\ Cardinality(TasksIn(arm)) \in Nat
                    /\ TasksIn(arm) = {} => Cardinality(TasksIn(arm)) = 0
                    /\ Wins(arm, other) \in Nat
<1>1. HeldOut \in Nat
  BY EfficacyAssumption
<1>2. IsFiniteSet(1..HeldOut)
  BY <1>1, FS_Interval
<1>3. ASSUME NEW arm
      PROVE  /\ IsFiniteSet(TasksIn(arm)) /\ Cardinality(TasksIn(arm)) \in Nat
             /\ TasksIn(arm) = {} => Cardinality(TasksIn(arm)) = 0
  <2>1. TasksIn(arm) \in SUBSET (1..HeldOut)
    BY DEF TasksIn
  <2>2. IsFiniteSet(TasksIn(arm))
    BY <1>2, <2>1, FS_Subset
  <2> QED BY <2>2, FS_CardinalityType, FS_EmptySet
<1>4. ASSUME NEW arm, NEW other PROVE Wins(arm, other) \in Nat
  <2>1. PICK pairs : pairs = TasksIn(arm) \X TasksIn(other)
    OBVIOUS
  <2>2. IsFiniteSet(pairs)
    BY <1>3, <2>1, FS_Product
  <2>3. PICK won : won = {p \in pairs : Outranks(ScoreOf(arm, p[1]), ScoreOf(other, p[2]))}
    OBVIOUS
  <2>4. won \in SUBSET pairs
    BY <2>3
  <2>5. IsFiniteSet(won)
    BY <2>2, <2>4, FS_Subset
  <2>6. Cardinality(won) \in Nat
    BY <2>5, FS_CardinalityType
  <2> QED BY <2>1, <2>3, <2>6 DEF Wins
<1> QED BY <1>3, <1>4

(* An interval that may leave zero out is of marks in both arms, some of   *)
(* which rank the claimed arm higher.                                      *)
LEMMA IntervalsRestOnMarks ==
    ASSUME NEW direction, TRUE \in ExcludesNull(direction)
    PROVE  /\ TasksIn("treatment") # {} /\ TasksIn("control") # {}
           /\ direction = "treatment-greater" => Greater > 0
           /\ direction = "control-greater" => Lesser > 0
<1>1. PICK towards : towards = CASE direction = "treatment-greater" -> {Greater}
                                 [] direction = "control-greater" -> {Lesser}
                                 [] OTHER -> {Greater, Lesser}
  OBVIOUS
<1>2. ~(Pairs = 0 \/ towards = {0})
  <2>1. SUFFICES ASSUME Pairs = 0 \/ towards = {0} PROVE FALSE
    OBVIOUS
  <2>2. ExcludesNull(direction) = CASE Pairs = 0 \/ towards = {0} -> {FALSE}
                                    [] Pairs # 0 /\ Pairs \in towards -> {TRUE}
                                    [] OTHER -> BOOLEAN
    BY <1>1 DEF ExcludesNull
  <2>3. ~(Pairs # 0 /\ Pairs \in towards)
    BY <2>1
  <2>4. ExcludesNull(direction) = {FALSE}
    BY <2>1, <2>2, <2>3
  <2> QED BY <2>4
<1>3. PICK m \in Nat : m = Cardinality(TasksIn("treatment"))
  BY ArmsAreFinite
<1>4. PICK n \in Nat : n = Cardinality(TasksIn("control"))
  BY ArmsAreFinite
<1>5. m # 0 /\ n # 0
  <2>1. m * n # 0
    BY <1>2, <1>3, <1>4 DEF Pairs
  <2>2. 0 * n = 0 /\ m * 0 = 0
    OBVIOUS
  <2> QED BY <2>1, <2>2
<1>6. TasksIn("treatment") # {} /\ TasksIn("control") # {}
  BY <1>3, <1>4, <1>5, ArmsAreFinite
<1>7. PICK g \in Nat : g = Greater
  BY ArmsAreFinite DEF Greater
<1>8. PICK k \in Nat : k = Lesser
  BY ArmsAreFinite DEF Lesser
<1>9. direction = "treatment-greater" => g # 0
  BY <1>1, <1>2, <1>7
<1>10. direction = "control-greater" => k # 0
  BY <1>1, <1>2, <1>8
<1> QED BY <1>6, <1>7, <1>8, <1>9, <1>10

LEMMA EfficacyStepKeeps == EfficacyIInv /\ [EfficacyNext]_efficacyVars => EfficacyIInv'
<1> SUFFICES ASSUME EfficacyIInv, [EfficacyNext]_efficacyVars PROVE EfficacyIInv'
  OBVIOUS
<1>1. GatesHold /\ VerdictStands /\ SupportRestsOnMarks
  BY DEF EfficacyIInv
<1>2. CASE Begin
  <2>1. /\ ~gated /\ gated'
        /\ UNCHANGED <<sealedRule, rule, committed, sealedFirst, observed, ratings, published, movedLate>>
    BY <1>2 DEF Begin
  <2>2. published = NoVerdict
    BY <1>1, <2>1 DEF VerdictStands
  <2>3. flaws' = {} => SealVerifies /\ committed /\ sealedFirst /\ ~LeakFound
    BY <1>2 DEF Begin
  <2>4. GatesHold'
    BY <2>1, <2>3 DEF GatesHold, SealVerifies, LeakFound
  <2>5. VerdictStands'
    BY <2>1, <2>2 DEF VerdictStands
  <2>6. SupportRestsOnMarks'
    BY <1>1, <2>1, VerdictLasts
  <2> QED BY <2>4, <2>5, <2>6 DEF EfficacyIInv
<1>3. ASSUME UNCHANGED <<sealedRule, rule, committed, sealedFirst, observed, flaws, gated, ratings,
                         published, movedLate>>
      PROVE  EfficacyIInv'
  <2>1. Unrated' = Unrated
    BY <1>3, MarksTell
  <2>2. GatesHold' /\ VerdictStands'
    BY <1>1, <1>3, <2>1 DEF GatesHold, VerdictStands
  <2>3. SupportRestsOnMarks'
    BY <1>1, <1>3, VerdictLasts
  <2> QED BY <2>2, <2>3 DEF EfficacyIInv
<1>4. CASE ProduceOutput
  BY <1>3, <1>4 DEF ProduceOutput
<1>5. ASSUME NEW mark \in Marks \cup {Abstained}, Rate(mark) PROVE EfficacyIInv'
  <2>1. Unrated # {} /\ UNCHANGED <<sealedRule, rule, committed, sealedFirst, observed, flaws, gated,
                                    published, movedLate>>
    BY <1>5 DEF Rate
  <2>2. published = NoVerdict
    BY <1>1, <2>1 DEF VerdictStands
  <2>3. GatesHold' /\ VerdictStands' /\ SupportRestsOnMarks'
    BY <1>1, <2>1, <2>2 DEF GatesHold, VerdictStands, SupportRestsOnMarks
  <2> QED BY <2>3 DEF EfficacyIInv
<1>6. CASE MoveGoalposts
  <2>1. /\ published = NoVerdict /\ (movedLate' = (movedLate \/ gated))
        /\ UNCHANGED <<sealedRule, committed, sealedFirst, observed, flaws, gated, ratings, published>>
    BY <1>6 DEF MoveGoalposts
  <2>2. GatesHold'
    BY <1>1, <2>1 DEF GatesHold
  <2>3. VerdictStands' /\ SupportRestsOnMarks'
    BY <2>1 DEF VerdictStands, SupportRestsOnMarks
  <2> QED BY <2>2, <2>3 DEF EfficacyIInv
<1>7. CASE Publish
  <2>1. /\ gated /\ Unrated = {}
        /\ UNCHANGED <<sealedRule, rule, committed, sealedFirst, observed, flaws, gated, ratings, movedLate>>
    BY <1>7 DEF Publish
  <2>2. PICK v \in Verdicts(rule) : published' = [verdict |-> v, rule |-> rule]
    BY <1>7 DEF Publish
  <2>3. published'.verdict = v /\ published'.rule = rule
    BY <2>2
  <2>4. v # "invalidated" => flaws = {}
    BY <2>2 DEF Verdicts
  <2>5. v = "supported" => TRUE \in ExcludesNull(rule.direction)
    <3>1. SUFFICES ASSUME v = "supported" PROVE TRUE \in ExcludesNull(rule.direction)
      OBVIOUS
    <3>2. v \in {IF DirectionOk(rule) /\ excluded THEN "supported" ELSE "not-supported"
                    : excluded \in ExcludesNull(rule.direction)}
      BY <2>2, <3>1 DEF Verdicts
    <3>3. PICK excluded \in ExcludesNull(rule.direction) :
              v = IF DirectionOk(rule) /\ excluded THEN "supported" ELSE "not-supported"
      BY <3>2
    <3>4. excluded
      BY <3>1, <3>3
    <3>5. excluded \in BOOLEAN
      BY <3>3 DEF ExcludesNull
    <3> QED BY <3>4, <3>5
  <2>6. v = "supported" =>
            /\ TasksIn("treatment") # {} /\ TasksIn("control") # {}
            /\ rule.direction = "treatment-greater" => Greater > 0
            /\ rule.direction = "control-greater" => Lesser > 0
    BY <2>5, IntervalsRestOnMarks
  <2>7. /\ Unrated' = Unrated /\ Greater' = Greater /\ Lesser' = Lesser
        /\ TasksIn("treatment")' = TasksIn("treatment") /\ TasksIn("control")' = TasksIn("control")
    BY <2>1, MarksTell
  <2>8. GatesHold'
    BY <1>1, <2>1 DEF GatesHold
  <2>9. VerdictStands'
    BY <2>1, <2>3, <2>4, <2>7 DEF VerdictStands
  <2>10. SupportRestsOnMarks'
    BY <2>3, <2>6, <2>7 DEF SupportRestsOnMarks
  <2> QED BY <2>8, <2>9, <2>10 DEF EfficacyIInv
<1>8. CASE UNCHANGED efficacyVars
  BY <1>3, <1>8 DEF efficacyVars
<1> QED BY <1>2, <1>4, <1>5, <1>6, <1>7, <1>8 DEF EfficacyNext

LEMMA EfficacyStarts == EfficacyInit => EfficacyIInv
BY DEF EfficacyInit, EfficacyIInv, GatesHold, VerdictStands, SupportRestsOnMarks

LEMMA EfficacyIInvImplies == EfficacyIInv => EfficacyInv
<1> SUFFICES ASSUME EfficacyIInv PROVE EfficacyInv
  OBVIOUS
<1>1. GatesHold /\ VerdictStands /\ SupportRestsOnMarks
  BY DEF EfficacyIInv
<1>2. Admitted => gated /\ flaws = {} /\ published.rule = rule
  BY <1>1 DEF Admitted, VerdictStands
<1> QED BY <1>1, <1>2 DEF EfficacyInv, SealedRuleDecides, FlawsAreNotMasked, GatesHold

(* However the protocol object is rewritten while a run awaits: a verdict  *)
(* that is admitted had no flaw, is by the sealed rule when the object was *)
(* left alone since, and supports a claim only on marks in both arms       *)
(* (runEfficacyProgram).                                                   *)
THEOREM FlawedRunsDecideNothing == EfficacySpec => []EfficacyInv
<1>1. EfficacyInit => EfficacyIInv
  BY EfficacyStarts
<1>2. EfficacyIInv /\ [EfficacyNext]_efficacyVars => EfficacyIInv'
  BY EfficacyStepKeeps
<1>3. EfficacyIInv => EfficacyInv
  BY EfficacyIInvImplies
<1> QED BY <1>1, <1>2, <1>3, PTL DEF EfficacySpec

-----------------------------------------------------------------------------
(* The alert dispatcher. *)

Dispatched ==
    [about : Subjects, do : (SUBSET {"slack", "linear"}) \ {{}}, issue : Nat,
     at : {"slack", "linear", "comment", "done", "failed"}]
Issue == [by : Nat, anchors : SUBSET Nat]

AlertsTyped ==
    /\ targets \subseteq {"slack", "linear"}
    /\ alerts \in Seq(Dispatched) /\ issues \in Seq(Issue)
    /\ messages \subseteq 1..Len(alerts)

(* What was recorded is what was dispatched. *)
MemoryIsOfAlerts ==
    \A t \in memory : t \in [about : Subjects, by : Nat \ {0}]
                      /\ t.by \in 1..Len(alerts) /\ alerts[t.by].about = t.about

(* An urgent alert that may go to Slack has a precedent. *)
SlackHasPrecedent ==
    \A d \in 1..Len(alerts) : "slack" \in alerts[d].do /\ alerts[d].about \in Urgent =>
        \E e \in 1..(d - 1) : Likeness[alerts[d].about][alerts[e].about] # "none"

(* How far a dispatch has come, and what it has done by then. *)
Progress(d) ==
    /\ alerts[d].at = "slack" => "slack" \in alerts[d].do
    /\ alerts[d].at \in {"linear", "comment"} =>
            "linear" \in alerts[d].do /\ ("slack" \in alerts[d].do => d \in messages)
    /\ alerts[d].at = "comment" =>
            alerts[d].issue \in 1..Len(issues) /\ issues[alerts[d].issue].by = d
    /\ alerts[d].issue \in 0..Len(issues)
    /\ alerts[d].at = "done" =>
            /\ "slack" \in alerts[d].do => d \in messages
            /\ "linear" \in alerts[d].do =>
                    \E i \in 1..Len(issues) : issues[i].by = d /\ d \in issues[i].anchors

IssuesAreOwn ==
    \A i \in 1..Len(issues) :
        issues[i].by \in 1..Len(alerts) /\ issues[i].anchors \subseteq {issues[i].by}

AlertIInv ==
    /\ AlertsTyped /\ MemoryIsOfAlerts /\ SlackHasPrecedent /\ IssuesAreOwn
    /\ \A d \in 1..Len(alerts) : Progress(d)
    /\ \A d \in messages : "slack" \in alerts[d].do

(* An alert that feels something has a precedent among the alerts. *)
LEMMA FeltIsPrecedent ==
    ASSUME MemoryIsOfAlerts, NEW x \in Subjects, Felt(x) # "none"
    PROVE  \E e \in 1..Len(alerts) : Likeness[x][alerts[e].about] # "none"
<1>1. PICK degree \in {"high", "some"} : MatchesOf(x, degree) # {}
  BY DEF Felt, Resonance
<1>2. PICK t \in memory : Likeness[x][t.about] = degree
  BY <1>1 DEF MatchesOf
<1> QED BY <1>1, <1>2 DEF MemoryIsOfAlerts

(* A new dispatch starts at a tool its action names. *)
LEMMA DispatchStarts ==
    ASSUME AlertIInv, NEW x \in Subjects, Dispatch(x)
    PROVE  AlertIInv'
<1> DEFINE n == Len(alerts)
           do == ActionFor(x, Felt(x))
           new == [about |-> x, do |-> do, issue |-> 0,
                   at |-> IF "slack" \in do THEN "slack" ELSE "linear"]
<1>1. /\ alerts \in Seq(Dispatched) /\ n \in Nat /\ issues \in Seq(Issue)
      /\ UNCHANGED <<targets, messages, issues>>
      /\ memory' = memory \cup {[about |-> x, by |-> n + 1]}
      /\ alerts' = Append(alerts, new)
  BY DEF AlertIInv, AlertsTyped, Dispatch, Prepare
<1>2. do \in (SUBSET {"slack", "linear"}) \ {{}}
  BY DEF ActionFor
<1>3. "slack" \in do /\ x \in Urgent => Felt(x) # "none"
  BY DEF ActionFor
<1> HIDE DEF do
<1>4. /\ new \in Dispatched /\ new.about = x /\ new.do = do /\ new.issue = 0
      /\ new.at = IF "slack" \in do THEN "slack" ELSE "linear"
  BY <1>2 DEF Dispatched
<1> HIDE DEF new
<1>5. /\ alerts' \in Seq(Dispatched) /\ Len(alerts') = n + 1 /\ alerts'[n + 1] = new
      /\ \A d \in 1..n : alerts'[d] = alerts[d]
  BY <1>1, <1>4
<1>6. AlertsTyped'
  BY <1>1, <1>5 DEF AlertIInv, AlertsTyped
<1>7. MemoryIsOfAlerts'
  BY <1>1, <1>4, <1>5 DEF AlertIInv, MemoryIsOfAlerts
<1>8. SlackHasPrecedent'
  <2>1. ASSUME NEW d \in 1..(n + 1), "slack" \in alerts'[d].do, alerts'[d].about \in Urgent
        PROVE  \E e \in 1..(d - 1) : Likeness[alerts'[d].about][alerts'[e].about] # "none"
    <3>1. CASE d \in 1..n
      <4>1. PICK e \in 1..(d - 1) : Likeness[alerts[d].about][alerts[e].about] # "none"
        BY <1>5, <2>1, <3>1 DEF AlertIInv, SlackHasPrecedent
      <4> QED BY <1>1, <1>5, <3>1, <4>1
    <3>2. CASE d = n + 1
      <4>1. PICK e \in 1..n : Likeness[x][alerts[e].about] # "none"
        BY <1>3, <1>4, <1>5, <2>1, <3>2, FeltIsPrecedent DEF AlertIInv
      <4> QED BY <1>1, <1>4, <1>5, <3>2, <4>1
    <3> QED BY <1>1, <3>1, <3>2
  <2> QED BY <1>5, <2>1 DEF SlackHasPrecedent
<1>9. IssuesAreOwn'
  BY <1>1, <1>5 DEF AlertIInv, IssuesAreOwn
<1>10. ASSUME NEW d \in 1..(n + 1) PROVE Progress(d)'
  <2>1. CASE d \in 1..n
    <3>1. Progress(d) /\ alerts'[d] = alerts[d]
      BY <1>5, <2>1 DEF AlertIInv
    <3> QED BY <1>1, <3>1 DEF Progress
  <2>2. CASE d = n + 1
    <3>1. alerts'[d] = new /\ ("slack" \in do \/ "linear" \in do) /\ Len(issues') \in Nat
      BY <1>1, <1>2, <1>5, <2>2
    <3>2. /\ alerts'[d].at \in {"slack", "linear"} /\ alerts'[d].issue = 0
          /\ alerts'[d].do = do /\ (alerts'[d].at = "slack" <=> "slack" \in do)
      BY <1>4, <3>1
    <3> QED BY <3>1, <3>2 DEF Progress
  <2> QED BY <1>1, <2>1, <2>2
<1>11. \A d \in messages' : "slack" \in alerts'[d].do
  BY <1>1, <1>5 DEF AlertIInv, AlertsTyped
<1> QED BY <1>5, <1>6, <1>7, <1>8, <1>9, <1>10, <1>11 DEF AlertIInv

(* What a call to a tool leaves behind: the issues filed so far are there  *)
(* with their anchors, and a message is one the dispatch was to post.      *)
ToolsGrow(d) ==
    /\ issues' \in Seq(Issue) /\ Len(issues) =< Len(issues')
    /\ \A i \in 1..Len(issues) :
        issues'[i].by = issues[i].by /\ issues[i].anchors \subseteq issues'[i].anchors
    /\ messages' \in {messages, messages \cup {d}}
    /\ d \in messages' => "slack" \in alerts[d].do

(* Once dispatched, what an alert is about and is to do stays. *)
LEMMA DispatchGoesOn ==
    ASSUME AlertIInv, NEW d \in 1..Len(alerts), NEW later \in Dispatched,
           later.do = alerts[d].do, later.about = alerts[d].about,
           alerts' = [alerts EXCEPT ![d] = later], UNCHANGED <<memory, targets>>,
           ToolsGrow(d), IssuesAreOwn',
           alerts'[d] = later => Progress(d)'
    PROVE  AlertIInv'
<1>1. alerts \in Seq(Dispatched) /\ Len(alerts) \in Nat /\ messages \subseteq 1..Len(alerts)
  BY DEF AlertIInv, AlertsTyped
<1>2. /\ alerts' \in Seq(Dispatched) /\ Len(alerts') = Len(alerts)
      /\ \A e \in 1..Len(alerts) : alerts'[e] = IF e = d THEN later ELSE alerts[e]
  BY <1>1, ExceptSeq
<1>3. \A e \in 1..Len(alerts) : alerts'[e].about = alerts[e].about /\ alerts'[e].do = alerts[e].do
  BY <1>2
<1>4. AlertsTyped'
  BY <1>1, <1>2 DEF AlertIInv, AlertsTyped, ToolsGrow
<1>5. MemoryIsOfAlerts'
  BY <1>2, <1>3 DEF AlertIInv, MemoryIsOfAlerts
<1>6. SlackHasPrecedent'
  <2> SUFFICES ASSUME NEW f \in 1..Len(alerts), "slack" \in alerts'[f].do,
                      alerts'[f].about \in Urgent
               PROVE  \E e \in 1..(f - 1) : Likeness[alerts'[f].about][alerts'[e].about] # "none"
    BY <1>2 DEF SlackHasPrecedent
  <2>1. PICK e \in 1..(f - 1) : Likeness[alerts[f].about][alerts[e].about] # "none"
    BY <1>3 DEF AlertIInv, SlackHasPrecedent
  <2> QED BY <1>1, <1>3, <2>1
<1>7. ASSUME NEW e \in 1..Len(alerts), e # d PROVE Progress(e)'
  <2>1. Progress(e) /\ alerts'[e] = alerts[e]
    BY <1>2, <1>7 DEF AlertIInv
  <2>2. /\ Len(issues) \in Nat /\ Len(issues') \in Nat /\ Len(issues) =< Len(issues')
        /\ \A i \in 1..Len(issues) :
            issues'[i].by = issues[i].by /\ issues[i].anchors \subseteq issues'[i].anchors
        /\ messages \subseteq messages'
    BY DEF ToolsGrow, AlertIInv, AlertsTyped
  <2>3. 1..Len(issues) \subseteq 1..Len(issues') /\ 0..Len(issues) \subseteq 0..Len(issues')
    BY <2>2
  <2> QED BY <2>1, <2>2, <2>3 DEF Progress
<1>8. \A e \in messages' : "slack" \in alerts'[e].do
  BY <1>1, <1>3 DEF AlertIInv, ToolsGrow
<1>9. \A e \in 1..Len(alerts') : Progress(e)'
  BY <1>2, <1>7
<1> QED BY <1>4, <1>5, <1>6, <1>8, <1>9 DEF AlertIInv

Later(d, at, i) == [alerts[d] EXCEPT !.at = at, !.issue = i]

(* What is known of a dispatch when it goes on. *)
LEMMA DispatchKnown ==
    ASSUME AlertIInv, NEW d \in 1..Len(alerts)
    PROVE  /\ alerts[d] \in Dispatched /\ Progress(d) /\ Len(alerts) \in Nat
           /\ issues \in Seq(Issue) /\ Len(issues) \in Nat
           /\ d \in messages => "slack" \in alerts[d].do
BY ElementOfSeq DEF AlertIInv, AlertsTyped

(* The alert as it goes on. *)
LEMMA LaterIsDispatched ==
    ASSUME AlertIInv, NEW d \in 1..Len(alerts), NEW i \in Nat,
           NEW at \in {"slack", "linear", "comment", "done", "failed"}
    PROVE  /\ Later(d, at, i) \in Dispatched
           /\ Later(d, at, i).at = at /\ Later(d, at, i).issue = i
           /\ Later(d, at, i).do = alerts[d].do /\ Later(d, at, i).about = alerts[d].about
BY DispatchKnown DEF Dispatched, Later

(* One that goes on without an issue keeps the one it has. *)
LEMMA LaterKeepsIssue ==
    ASSUME AlertIInv, NEW d \in 1..Len(alerts),
           NEW at \in {"slack", "linear", "comment", "done", "failed"}
    PROVE  [alerts[d] EXCEPT !.at = at] = Later(d, at, alerts[d].issue)
BY DispatchKnown DEF Dispatched, Later

(* The message is posted: the dispatch goes on to Linear, or is done. *)
LEMMA PostGoesOn ==
    ASSUME AlertIInv, NEW d \in 1..Len(alerts), Post(d)
    PROVE  AlertIInv'
<1> DEFINE at == IF "linear" \in alerts[d].do THEN "linear" ELSE "done"
           later == Later(d, at, alerts[d].issue)
<1>1. /\ alerts[d] \in Dispatched /\ Progress(d) /\ issues \in Seq(Issue) /\ Len(issues) \in Nat
      /\ alerts[d].issue \in Nat
  BY DispatchKnown DEF Dispatched
<1>2. /\ later \in Dispatched /\ later.at = at /\ later.issue = alerts[d].issue
      /\ later.do = alerts[d].do /\ later.about = alerts[d].about
      /\ alerts' = [alerts EXCEPT ![d] = later]
  <2>1. alerts' = [alerts EXCEPT ![d] = [alerts[d] EXCEPT !.at = at]]
    BY DEF Post
  <2>2. [alerts[d] EXCEPT !.at = at] = later
    BY LaterKeepsIssue
  <2>3. /\ later \in Dispatched /\ later.at = at /\ later.issue = alerts[d].issue
        /\ later.do = alerts[d].do /\ later.about = alerts[d].about
    BY <1>1, LaterIsDispatched
  <2> HIDE DEF later
  <2> QED BY <2>1, <2>2, <2>3
<1>3. ToolsGrow(d)
  BY <1>1 DEF Post, Progress, ToolsGrow
<1>4. IssuesAreOwn'
  <2>1. alerts \in Seq(Dispatched) /\ UNCHANGED issues /\ Len(alerts') = Len(alerts)
    BY DEF Post, AlertIInv, AlertsTyped
  <2> QED BY <2>1 DEF AlertIInv, IssuesAreOwn
<1> HIDE DEF later
<1>5. alerts'[d] = later => Progress(d)'
  BY <1>1, <1>2 DEF Post, Progress
<1> QED BY <1>2, <1>3, <1>4, <1>5, DispatchGoesOn DEF Post

(* A new issue is the dispatch's own, without an anchor yet. *)
LEMMA IssueFiled ==
    ASSUME AlertIInv, NEW d \in 1..Len(alerts), UNCHANGED messages, Len(alerts') = Len(alerts),
           issues' = Append(issues, [by |-> d, anchors |-> {}])
    PROVE  /\ ToolsGrow(d) /\ IssuesAreOwn'
           /\ Len(issues') = Len(issues) + 1 /\ issues'[Len(issues) + 1].by = d
<1> DEFINE issue == [by |-> d, anchors |-> {}]
<1>1. issue \in Issue /\ issue.by = d /\ issue.anchors = {}
  BY DispatchKnown DEF Issue
<1>2. issues \in Seq(Issue) /\ Len(issues) \in Nat /\ issues' = Append(issues, issue)
  BY DispatchKnown
<1> HIDE DEF issue
<1>3. /\ issues' \in Seq(Issue) /\ Len(issues') = Len(issues) + 1
      /\ \A i \in 1..Len(issues) : issues'[i] = issues[i]
      /\ issues'[Len(issues) + 1] = issue
  BY <1>1, <1>2
<1>4. ToolsGrow(d)
  BY <1>2, <1>3, DispatchKnown DEF ToolsGrow
<1>5. IssuesAreOwn'
  BY <1>1, <1>2, <1>3 DEF AlertIInv, IssuesAreOwn
<1> QED BY <1>1, <1>3, <1>4, <1>5

LEMMA FileGoesOn ==
    ASSUME AlertIInv, NEW d \in 1..Len(alerts), FileIssue(d)
    PROVE  AlertIInv'
<1> DEFINE later == Later(d, "comment", Len(issues) + 1)
<1>1. /\ alerts[d] \in Dispatched /\ Progress(d) /\ alerts \in Seq(Dispatched)
      /\ Len(issues) + 1 \in Nat /\ Len(alerts') = Len(alerts)
      /\ UNCHANGED <<memory, targets, messages>>
  BY DispatchKnown DEF FileIssue, AlertIInv, AlertsTyped
<1>2. /\ later \in Dispatched /\ later.at = "comment" /\ later.issue = Len(issues) + 1
      /\ later.do = alerts[d].do /\ later.about = alerts[d].about
      /\ alerts' = [alerts EXCEPT ![d] = later]
  <2>1. alerts' = [alerts EXCEPT ![d] = later]
    BY DEF FileIssue, Later
  <2> QED BY <1>1, <2>1, LaterIsDispatched
<1>3. /\ ToolsGrow(d) /\ IssuesAreOwn'
      /\ Len(issues') = Len(issues) + 1 /\ issues'[Len(issues) + 1].by = d
  BY <1>1, IssueFiled DEF FileIssue
<1>4. "linear" \in alerts[d].do /\ ("slack" \in alerts[d].do => d \in messages)
  BY <1>1 DEF FileIssue, Progress
<1> HIDE DEF later
<1>5. alerts'[d] = later => Progress(d)'
  BY <1>1, <1>2, <1>3, <1>4 DEF Progress
<1> QED BY <1>1, <1>2, <1>3, <1>5, DispatchGoesOn

(* An anchor goes to the issue of the dispatch, whichever was filed since. *)
LEMMA AnchorIsOwn ==
    ASSUME AlertIInv, NEW d \in 1..Len(alerts), alerts[d].at = "comment",
           UNCHANGED messages, Len(alerts') = Len(alerts),
           issues' = [issues EXCEPT ![IssueOf(d)].anchors = @ \cup {d}]
    PROVE  /\ ToolsGrow(d) /\ IssuesAreOwn' /\ Len(issues') = Len(issues)
           /\ \E i \in 1..Len(issues') : issues'[i].by = d /\ d \in issues'[i].anchors
<1> DEFINE i == alerts[d].issue
           issue == [issues[i] EXCEPT !.anchors = @ \cup {d}]
<1>1. /\ issues \in Seq(Issue) /\ Len(issues) \in Nat /\ Len(alerts) \in Nat
      /\ i \in 1..Len(issues) /\ issues[i].by = d
  BY DispatchKnown DEF Progress
<1>2. issues[i] \in Issue
  BY <1>1, ElementOfSeq
<1>3. /\ issue \in Issue /\ issue.by = issues[i].by /\ issue.anchors = issues[i].anchors \cup {d}
      /\ issues' = [issues EXCEPT ![i] = issue]
  BY <1>1, <1>2 DEF Issue, IssueOf
<1> HIDE DEF i, issue
<1>4. /\ issues' \in Seq(Issue) /\ Len(issues') = Len(issues)
      /\ \A j \in 1..Len(issues) : issues'[j] = IF j = i THEN issue ELSE issues[j]
  <2>1. i \in 1..Len(issues) /\ issue \in Issue /\ issues \in Seq(Issue)
    BY <1>1, <1>3
  <2>2. /\ [issues EXCEPT ![i] = issue] \in Seq(Issue)
        /\ Len([issues EXCEPT ![i] = issue]) = Len(issues)
        /\ \A j \in 1..Len(issues) :
                [issues EXCEPT ![i] = issue][j] = IF j = i THEN issue ELSE issues[j]
    BY <2>1, ExceptSeq
  <2>3. issues' = [issues EXCEPT ![i] = issue]
    BY <1>3
  <2> QED BY <2>2, <2>3
<1>5. ToolsGrow(d)
  BY <1>1, <1>3, <1>4, DispatchKnown DEF ToolsGrow
<1>6. IssuesAreOwn'
  BY <1>1, <1>3, <1>4 DEF AlertIInv, IssuesAreOwn
<1>7. issues'[i].by = d /\ d \in issues'[i].anchors
  BY <1>1, <1>3, <1>4
<1> QED BY <1>1, <1>4, <1>5, <1>6, <1>7

LEMMA AnchorGoesOn ==
    ASSUME AlertIInv, NEW d \in 1..Len(alerts), Anchor(d)
    PROVE  AlertIInv'
<1> DEFINE later == Later(d, "done", alerts[d].issue)
<1>1. /\ alerts[d] \in Dispatched /\ Progress(d) /\ alerts \in Seq(Dispatched)
      /\ alerts[d].issue \in Nat /\ Len(alerts') = Len(alerts)
      /\ UNCHANGED <<memory, targets, messages>> /\ alerts[d].at = "comment"
  BY DispatchKnown DEF Anchor, AlertIInv, AlertsTyped, Dispatched
<1>2. /\ later \in Dispatched /\ later.at = "done" /\ later.issue = alerts[d].issue
      /\ later.do = alerts[d].do /\ later.about = alerts[d].about
      /\ alerts' = [alerts EXCEPT ![d] = later]
  <2>1. alerts' = [alerts EXCEPT ![d] = [alerts[d] EXCEPT !.at = "done"]]
    BY DEF Anchor
  <2>2. [alerts[d] EXCEPT !.at = "done"] = later
    BY LaterKeepsIssue
  <2>3. /\ later \in Dispatched /\ later.at = "done" /\ later.issue = alerts[d].issue
        /\ later.do = alerts[d].do /\ later.about = alerts[d].about
    BY <1>1, LaterIsDispatched
  <2> HIDE DEF later
  <2> QED BY <2>1, <2>2, <2>3
<1>3. /\ ToolsGrow(d) /\ IssuesAreOwn' /\ Len(issues') = Len(issues)
      /\ \E i \in 1..Len(issues') : issues'[i].by = d /\ d \in issues'[i].anchors
  BY <1>1, AnchorIsOwn DEF Anchor
<1> HIDE DEF later
<1>4. alerts'[d] = later => Progress(d)'
  BY <1>1, <1>2, <1>3 DEF Progress
<1> QED BY <1>1, <1>2, <1>3, <1>4, DispatchGoesOn

(* A dispatch that is rejected keeps what the tools have done for it. *)
LEMMA RejectGoesOn ==
    ASSUME AlertIInv, NEW d \in 1..Len(alerts), Reject(d), ToolsGrow(d), IssuesAreOwn'
    PROVE  AlertIInv'
<1> DEFINE later == Later(d, "failed", alerts[d].issue)
<1>1. /\ alerts[d] \in Dispatched /\ Progress(d) /\ alerts[d].issue \in Nat
      /\ UNCHANGED <<memory, targets>>
  BY DispatchKnown DEF Reject, Dispatched
<1>2. /\ later \in Dispatched /\ later.at = "failed" /\ later.issue = alerts[d].issue
      /\ later.do = alerts[d].do /\ later.about = alerts[d].about
      /\ alerts' = [alerts EXCEPT ![d] = later]
  <2>1. alerts' = [alerts EXCEPT ![d] = [alerts[d] EXCEPT !.at = "failed"]]
    BY DEF Reject
  <2>2. [alerts[d] EXCEPT !.at = "failed"] = later
    BY LaterKeepsIssue
  <2>3. /\ later \in Dispatched /\ later.at = "failed" /\ later.issue = alerts[d].issue
        /\ later.do = alerts[d].do /\ later.about = alerts[d].about
    BY <1>1, LaterIsDispatched
  <2> HIDE DEF later
  <2> QED BY <2>1, <2>2, <2>3
<1> HIDE DEF later
<1>3. alerts'[d] = later => Progress(d)'
  <2>1. alerts[d].issue \in 0..Len(issues')
    BY <1>1, DispatchKnown DEF Progress, ToolsGrow
  <2> QED BY <1>2, <2>1 DEF Progress
<1> QED BY <1>1, <1>2, <1>3, DispatchGoesOn

LEMMA FailureGoesOn ==
    ASSUME AlertIInv, NEW d \in 1..Len(alerts), CallFails(d) \/ AnswerLost(d)
    PROVE  AlertIInv'
<1>1. /\ alerts \in Seq(Dispatched) /\ Len(alerts') = Len(alerts) /\ Reject(d) /\ Progress(d)
      /\ issues \in Seq(Issue) /\ Len(issues) \in Nat
  BY DispatchKnown DEF CallFails, AnswerLost, Reject, AlertIInv, AlertsTyped
<1>2. CASE UNCHANGED issues /\ messages' \in {messages, messages \cup {d}}
           /\ (messages' # messages => alerts[d].at = "slack")
  <2>1. ToolsGrow(d)
    BY <1>1, <1>2, DispatchKnown DEF ToolsGrow, Progress
  <2>2. IssuesAreOwn'
    BY <1>1, <1>2 DEF AlertIInv, IssuesAreOwn
  <2> QED BY <1>1, <2>1, <2>2, RejectGoesOn
<1>3. CASE UNCHANGED messages /\ issues' = Append(issues, [by |-> d, anchors |-> {}])
  BY <1>1, <1>3, IssueFiled, RejectGoesOn
<1>4. CASE /\ UNCHANGED messages /\ alerts[d].at = "comment"
           /\ issues' = [issues EXCEPT ![IssueOf(d)].anchors = @ \cup {d}]
  BY <1>1, <1>4, AnchorIsOwn, RejectGoesOn
<1> QED BY <1>1, <1>2, <1>3, <1>4 DEF CallFails, AnswerLost, Reject

LEMMA AlertStarts == AlertInit => AlertIInv
BY DEF AlertInit, AlertIInv, AlertsTyped, MemoryIsOfAlerts, SlackHasPrecedent, IssuesAreOwn

LEMMA AlertStepKeeps == AlertIInv /\ [AlertNext]_alertVars => AlertIInv'
<1> SUFFICES ASSUME AlertIInv, [AlertNext]_alertVars PROVE AlertIInv'
  OBVIOUS
<1>1. CASE UNCHANGED alertVars
  BY <1>1 DEF alertVars, AlertIInv, AlertsTyped, MemoryIsOfAlerts, SlackHasPrecedent,
              IssuesAreOwn, Progress
<1>2. DOMAIN alerts = 1..Len(alerts)
  BY DEF AlertIInv, AlertsTyped
<1> QED BY <1>1, <1>2, DispatchStarts, PostGoesOn, FileGoesOn, AnchorGoesOn, FailureGoesOn
        DEF AlertNext

LEMMA AlertIInvImplies == AlertIInv => AlertInv
<1> SUFFICES ASSUME AlertIInv PROVE AlertInv
  OBVIOUS
<1>1. /\ DOMAIN alerts = 1..Len(alerts) /\ DOMAIN issues = 1..Len(issues)
      /\ Len(alerts) \in Nat /\ Len(issues) \in Nat
      /\ targets \subseteq {"slack", "linear"} /\ messages \subseteq 1..Len(alerts)
  BY DEF AlertIInv, AlertsTyped
<1>2. MemoryTypeOK
  BY DEF AlertIInv, MemoryIsOfAlerts, MemoryTypeOK
<1>3. ASSUME NEW d \in 1..Len(alerts)
      PROVE  /\ alerts[d].about \in Subjects /\ alerts[d].issue \in 0..Len(issues)
             /\ alerts[d].do \in (SUBSET {"slack", "linear"}) \ {{}}
             /\ alerts[d].at \in {"slack", "linear", "comment", "done", "failed"}
  BY DispatchKnown DEF Progress, Dispatched
<1>4. \A i \in DOMAIN issues :
          issues[i].by \in DOMAIN alerts /\ issues[i].anchors \subseteq DOMAIN alerts
  BY <1>1 DEF AlertIInv, IssuesAreOwn
<1>5. AlertTypeOK
  BY <1>1, <1>2, <1>3, <1>4 DEF AlertTypeOK
<1>6. AnchorsMatchIssues
  BY <1>1 DEF AlertIInv, IssuesAreOwn, AnchorsMatchIssues
<1>7. AnswersAreComplete
  BY <1>1 DEF AlertIInv, Progress, AnswersAreComplete
<1>8. NovelAlertsStayOffSlack
  BY <1>1 DEF AlertIInv, SlackHasPrecedent, NovelAlertsStayOffSlack
<1> QED BY <1>5, <1>6, <1>7, <1>8 DEF AlertInv

(* However dispatches overlap, fail and are repeated: an issue carries no  *)
(* anchor but its own, a dispatch that is answered has done all its action *)
(* says, and an urgent alert goes to Slack only when something like it was *)
(* dispatched before (LinearSlackOrchestratorAdapter).                     *)
THEOREM AlertsAlwaysHold == AlertSpec => []AlertInv
<1>1. AlertInit => AlertIInv
  BY AlertStarts
<1>2. AlertIInv /\ [AlertNext]_alertVars => AlertIInv'
  BY AlertStepKeeps
<1>3. AlertIInv => AlertInv
  BY AlertIInvImplies
<1> QED BY <1>1, <1>2, <1>3, PTL DEF AlertSpec

-----------------------------------------------------------------------------
(* The researcher, coder and reviewer. *)

Leg == [kind : {"vetoed"}, artefact : {NoArtefact}]
          \cup [kind : {"hit", "cold"}, about : Subjects, probe : Nat, artefact : Nat]
LoopReport == [legs : Seq(Leg), merkleChain : Seq(Subjects), totalUsage : Nat]
Loop == [at : {"idle", "deciding", "reported"}, report : LoopReport]
          \cup [at : {"asked"}, about : Subjects, probe : Nat, report : LoopReport]
Trace == [about : Subjects, by : Nat \ {0}]

(* The chain of a report names every leg that was not vetoed, and only     *)
(* those, in order.                                                        *)
NotVetoed(legs) == {i \in DOMAIN legs : legs[i].kind # "vetoed"}
ChainNames(legs, chain) ==
    /\ Len(chain) = Cardinality(NotVetoed(legs)) /\ Len(chain) <= Len(legs)
    /\ \A i \in NotVetoed(legs) :
            chain[Cardinality({j \in NotVetoed(legs) : j <= i})] = legs[i].about

(* The artefacts of answered calls, which the usage counts.                *)
AnsweredBy(legs) == {legs[i].artefact : i \in {j \in DOMAIN legs : legs[j].kind = "cold"}}

ReusesOwn(legs) ==
    \A i \in DOMAIN legs : legs[i].kind = "hit" =>
        /\ legs[i].artefact \in {legs[j].artefact : j \in 1..(i - 1)}
        /\ legs[i].artefact = NoArtefact => {legs[j].artefact : j \in 1..(i - 1)} = {NoArtefact}

HasPrecedents(legs, traces) ==
    \A i \in DOMAIN legs : legs[i].kind = "hit" =>
        \E t \in traces : t.by < legs[i].probe /\ Likeness[legs[i].about][t.about] = "high"

ArtefactsUpTo(legs, n) == \A i \in DOMAIN legs : legs[i].artefact \in 0..n

(* A report is sound when it adds up and its hits have precedents among    *)
(* the traces and reuse the run; artefacts are numbered by prompts.        *)
ReportIsSound(filed, traces, n) ==
    /\ filed \in LoopReport /\ Len(filed.legs) <= Len(PromptOf)
    /\ ChainNames(filed.legs, filed.merkleChain)
    /\ IsFiniteSet(AnsweredBy(filed.legs))
    /\ filed.totalUsage = Cardinality(AnsweredBy(filed.legs))
    /\ ReusesOwn(filed.legs) /\ HasPrecedents(filed.legs, traces)
    /\ ArtefactsUpTo(filed.legs, n)

(* A loop that asked does so for its next leg, and its artefact will be    *)
(* newer than those it has.                                                *)
LoopIsSound(x, traces, n) ==
    /\ x \in Loop /\ ReportIsSound(x.report, traces, n)
    /\ x.at = "asked" =>
            /\ Len(x.report.legs) < Len(PromptOf) /\ x.probe + 1 <= n
            /\ ArtefactsUpTo(x.report.legs, x.probe)

RoleIInv ==
    /\ prepared \in 0..MaxAsked
    /\ memory \subseteq Trace /\ \A t \in memory : t.by <= prepared
    /\ loops \in [LegLoops -> Loop]
    /\ \A l \in LegLoops : LoopIsSound(loops[l], memory, prepared)

LEMMA LoopsAre ==
    ASSUME NEW x \in Loop
    PROVE  /\ x.report \in LoopReport /\ x.at \in {"idle", "deciding", "asked", "reported"}
           /\ x.at = "asked" => x.about \in Subjects /\ x.probe \in Nat
           /\ x.report.legs \in Seq(Leg) /\ x.report.merkleChain \in Seq(Subjects)
           /\ x.report.totalUsage \in Nat
<1>1. /\ x.report \in LoopReport /\ x.at \in {"idle", "deciding", "asked", "reported"}
      /\ x.at = "asked" => x.about \in Subjects /\ x.probe \in Nat
  BY DEF Loop
<1> QED BY <1>1 DEF LoopReport

LEMMA LegsAre ==
    ASSUME NEW e \in Leg
    PROVE  /\ e.kind \in {"vetoed", "hit", "cold"} /\ e.artefact \in Nat
           /\ e.kind = "vetoed" => e.artefact = NoArtefact
           /\ e.kind # "vetoed" => e.about \in Subjects /\ e.probe \in Nat
BY DEF Leg, NoArtefact

(* More traces and higher numbers spoil no loop.                           *)
LEMMA SoundLoopsStay ==
    ASSUME NEW x, NEW traces, NEW more, traces \subseteq more, NEW n \in Nat, NEW m \in Nat, n <= m,
           LoopIsSound(x, traces, n)
    PROVE  LoopIsSound(x, more, m)
<1>1. PICK legs \in Seq(Leg) : legs = x.report.legs
  BY LoopsAre DEF LoopIsSound
<1>2. ASSUME ArtefactsUpTo(legs, n) PROVE ArtefactsUpTo(legs, m)
  BY <1>2 DEF ArtefactsUpTo
<1>3. ASSUME HasPrecedents(legs, traces) PROVE HasPrecedents(legs, more)
  BY <1>3 DEF HasPrecedents
<1>4. ReportIsSound(x.report, more, m)
  BY <1>1, <1>2, <1>3 DEF LoopIsSound, ReportIsSound
<1>5. x.at = "asked" => x.probe \in Nat
  BY LoopsAre DEF LoopIsSound
<1>6. x.at = "asked" => x.probe + 1 <= m
  BY <1>5 DEF LoopIsSound
<1> QED BY <1>4, <1>6 DEF LoopIsSound

(* A leg is appended: what the sets of its positions become.               *)
LEMMA LegAppended ==
    ASSUME NEW legs \in Seq(Leg), NEW e \in Leg, NEW n \in Nat, n = Len(legs), NEW longer,
           longer = Append(legs, e)
    PROVE  /\ longer \in Seq(Leg) /\ Len(longer) = n + 1 /\ DOMAIN longer = 1..(n + 1)
           /\ DOMAIN legs = 1..n /\ longer[n + 1] = e /\ \A i \in 1..n : longer[i] = legs[i]
           /\ \A i \in 1..(n + 1) : i = n + 1 \/ i \in 1..n
<1>1. /\ longer \in Seq(Leg) /\ Len(longer) = n + 1 /\ longer[n + 1] = e
      /\ \A i \in 1..n : longer[i] = legs[i]
  BY AppendProperties
<1>2. DOMAIN longer = 1..(n + 1) /\ DOMAIN legs = 1..n
  BY <1>1
<1>3. \A i \in 1..(n + 1) : i = n + 1 \/ i \in 1..n
  OBVIOUS
<1> QED BY <1>1, <1>2, <1>3

LEMMA ChainGoesOn ==
    ASSUME NEW legs \in Seq(Leg), NEW chain \in Seq(Subjects), NEW e \in Leg, ChainNames(legs, chain)
    PROVE  /\ e.kind = "vetoed" => ChainNames(Append(legs, e), chain)
           /\ e.kind # "vetoed" => ChainNames(Append(legs, e), Append(chain, e.about))
<1>1. PICK n \in Nat : n = Len(legs)
  OBVIOUS
<1>2. PICK longer : longer = Append(legs, e)
  OBVIOUS
<1>3. /\ longer \in Seq(Leg) /\ Len(longer) = n + 1 /\ DOMAIN longer = 1..(n + 1)
      /\ DOMAIN legs = 1..n /\ longer[n + 1] = e /\ \A i \in 1..n : longer[i] = legs[i]
      /\ \A i \in 1..(n + 1) : i = n + 1 \/ i \in 1..n
  BY <1>1, <1>2, LegAppended
<1>4. PICK old : old = NotVetoed(legs)
  OBVIOUS
<1>5. PICK new : new = NotVetoed(longer)
  OBVIOUS
<1>6. /\ old \subseteq 1..n
      /\ new = IF e.kind = "vetoed" THEN old ELSE old \cup {n + 1}
  <2>1. old = {i \in 1..n : legs[i].kind # "vetoed"}
    BY <1>3, <1>4 DEF NotVetoed
  <2>2. new = {i \in 1..(n + 1) : longer[i].kind # "vetoed"}
    BY <1>3, <1>5 DEF NotVetoed
  <2>3. \A i \in 1..n : i \in 1..(n + 1)
    OBVIOUS
  <2>4. n + 1 \in 1..(n + 1)
    OBVIOUS
  <2>5. CASE e.kind = "vetoed"
    BY <1>3, <2>1, <2>2, <2>3, <2>4, <2>5
  <2>6. CASE e.kind # "vetoed"
    BY <1>3, <2>1, <2>2, <2>3, <2>4, <2>6
  <2> QED BY <2>5, <2>6
<1>7. /\ Len(chain) = Cardinality(old) /\ Len(chain) <= n
      /\ \A i \in old : chain[Cardinality({j \in old : j <= i})] = legs[i].about
  BY <1>1, <1>4 DEF ChainNames
<1>8. IsFiniteSet(old) /\ n + 1 \notin old
  <2>1. IsFiniteSet(1..n)
    BY FS_Interval
  <2>2. n + 1 \notin 1..n
    OBVIOUS
  <2> QED BY <1>6, <2>1, <2>2, FS_Subset
<1>9. CASE e.kind = "vetoed"
  <2>1. new = old
    BY <1>6, <1>9
  <2>2. \A i \in new : longer[i].about = legs[i].about
    BY <1>3, <1>6, <2>1
  <2>3. Len(chain) <= Len(longer)
    BY <1>3, <1>7
  <2>4. ChainNames(longer, chain)
    BY <1>5, <1>7, <2>1, <2>2, <2>3 DEF ChainNames
  <2> QED BY <1>2, <1>9, <2>4
<1>10. CASE e.kind # "vetoed"
  <2>1. new = old \cup {n + 1}
    BY <1>6, <1>10
  <2>2. e.about \in Subjects
    BY <1>10, LegsAre
  <2>3. PICK c \in Nat : c = Cardinality(old)
    BY <1>8, FS_CardinalityType
  <2>4. PICK next : next = Append(chain, e.about)
    OBVIOUS
  <2>5. /\ next \in Seq(Subjects) /\ Len(next) = c + 1 /\ next[c + 1] = e.about
        /\ \A k \in 1..c : next[k] = chain[k]
    BY <1>7, <2>2, <2>3, <2>4, AppendProperties
  <2>6. Cardinality(new) = c + 1
    BY <1>8, <2>1, <2>3, FS_AddElement
  <2>7. ASSUME NEW i \in new
        PROVE  next[Cardinality({j \in new : j <= i})] = longer[i].about
    <3>1. CASE i = n + 1
      <4>2. \A j \in new : j <= n + 1
        BY <1>6, <2>1
      <4>1. {j \in new : j <= i} = new
        BY <3>1, <4>2
      <4> QED BY <1>3, <2>5, <2>6, <3>1, <4>1
    <3>2. CASE i \in old
      <4>1. i \in 1..n
        BY <1>6, <3>2
      <4>2. {j \in new : j <= i} = {j \in old : j <= i}
        BY <1>6, <2>1, <4>1
      <4>3. PICK some : some = {j \in old : j <= i}
        OBVIOUS
      <4>4. some \in SUBSET old /\ i \in some
        BY <1>6, <3>2, <4>1, <4>3
      <4>5. IsFiniteSet(some) /\ Cardinality(some) <= c
        BY <1>8, <2>3, <4>4, FS_Subset
      <4>6. Cardinality(some) \in Nat /\ Cardinality(some) # 0
        BY <4>4, <4>5, FS_CardinalityType, FS_EmptySet
      <4>7. Cardinality(some) \in 1..c
        BY <2>3, <4>5, <4>6
      <4>8. chain[Cardinality(some)] = legs[i].about
        BY <1>7, <3>2, <4>3
      <4>9. longer[i] = legs[i]
        BY <1>3, <4>1
      <4> QED BY <2>5, <4>2, <4>3, <4>7, <4>8, <4>9
    <3> QED BY <2>1, <3>1, <3>2
  <2>8. Len(next) = Cardinality(new) /\ Len(next) <= Len(longer)
    BY <1>3, <1>7, <2>3, <2>5, <2>6
  <2>9. ChainNames(longer, next)
    BY <1>5, <2>7, <2>8 DEF ChainNames
  <2> QED BY <1>2, <1>10, <2>4, <2>9
<1> QED BY <1>9, <1>10

(* The first artefact of a run is reused, if it has one.                   *)
LEMMA CachedIsOwn ==
    ASSUME NEW legs \in Seq(Leg), NEW n \in Nat, n = Len(legs), n # 0
    PROVE  /\ CachedFrom(legs) \in {legs[j].artefact : j \in 1..n}
           /\ CachedFrom(legs) = NoArtefact => {legs[j].artefact : j \in 1..n} = {NoArtefact}
<1>1. DOMAIN legs = 1..n
  OBVIOUS
<1>2. PICK with : with = {i \in 1..n : legs[i].artefact # NoArtefact}
  OBVIOUS
<1>3. CachedFrom(legs) = IF with = {} THEN NoArtefact ELSE legs[Min(with)].artefact
  BY <1>1, <1>2 DEF CachedFrom
<1>4. 1 \in 1..n
  OBVIOUS
<1>5. CASE with = {}
  <2>1. \A j \in 1..n : legs[j].artefact = NoArtefact
    BY <1>2, <1>5
  <2>2. {legs[j].artefact : j \in 1..n} = {NoArtefact}
    BY <1>4, <2>1
  <2> QED BY <1>3, <1>5, <2>2
<1>6. CASE with # {}
  <2>1. with \in SUBSET Nat
    BY <1>2
  <2>2. \E i \in with : \A j \in with : i <= j
    BY <1>6, <2>1, LeastIndex
  <2>3. Min(with) \in with
    BY <2>2 DEF Min
  <2>4. PICK k \in with : k = Min(with)
    BY <2>3
  <2>5. k \in 1..n /\ legs[k].artefact # NoArtefact
    BY <1>2
  <2>6. CachedFrom(legs) = legs[k].artefact
    BY <1>3, <1>6, <2>4
  <2> QED BY <2>5, <2>6
<1> QED BY <1>5, <1>6

(* A sound leg goes onto a sound report.                                   *)
LEMMA ReportGoesOn ==
    ASSUME NEW filed, NEW traces, NEW n \in Nat, ReportIsSound(filed, traces, n),
           Len(filed.legs) < Len(PromptOf), NEW e \in Leg, e.artefact \in 0..n,
           e.kind = "hit" =>
              /\ filed.legs # <<>> /\ e.artefact = CachedFrom(filed.legs)
              /\ \E t \in traces : t.by < e.probe /\ Likeness[e.about][t.about] = "high",
           e.kind = "cold" => \A i \in DOMAIN filed.legs : filed.legs[i].artefact # e.artefact
    PROVE  ReportIsSound([legs |-> Append(filed.legs, e),
                          merkleChain |-> IF e.kind = "vetoed" THEN filed.merkleChain
                                          ELSE Append(filed.merkleChain, e.about),
                          totalUsage |-> IF e.kind = "cold" THEN filed.totalUsage + 1
                                         ELSE filed.totalUsage], traces, n)
<1>1. PICK legs \in Seq(Leg) : legs = filed.legs
  BY DEF ReportIsSound, LoopReport
<1>2. PICK chain \in Seq(Subjects) : chain = filed.merkleChain
  BY DEF ReportIsSound, LoopReport
<1>3. PICK usage \in Nat : usage = filed.totalUsage
  BY DEF ReportIsSound, LoopReport
<1>4. PICK n0 \in Nat : n0 = Len(legs)
  OBVIOUS
<1>5. PICK longer : longer = Append(legs, e)
  OBVIOUS
<1>6. PICK next : next = IF e.kind = "vetoed" THEN chain ELSE Append(chain, e.about)
  OBVIOUS
<1>7. PICK more : more = IF e.kind = "cold" THEN usage + 1 ELSE usage
  OBVIOUS
<1>8. PICK r : r = [legs |-> longer, merkleChain |-> next, totalUsage |-> more]
  OBVIOUS
<1>9. /\ longer \in Seq(Leg) /\ Len(longer) = n0 + 1 /\ DOMAIN longer = 1..(n0 + 1)
      /\ DOMAIN legs = 1..n0 /\ longer[n0 + 1] = e /\ \A i \in 1..n0 : longer[i] = legs[i]
      /\ \A i \in 1..(n0 + 1) : i = n0 + 1 \/ i \in 1..n0
  BY <1>4, <1>5, LegAppended
<1>10. /\ ChainNames(legs, chain) /\ IsFiniteSet(AnsweredBy(legs))
       /\ usage = Cardinality(AnsweredBy(legs)) /\ ReusesOwn(legs) /\ HasPrecedents(legs, traces)
       /\ ArtefactsUpTo(legs, n)
  BY <1>1, <1>2, <1>3 DEF ReportIsSound
<1>11. next \in Seq(Subjects)
  <2>1. CASE e.kind = "vetoed"
    BY <1>6, <2>1
  <2>2. CASE e.kind # "vetoed"
    <3>1. e.about \in Subjects
      BY <2>2, LegsAre
    <3> QED BY <1>6, <2>2, <3>1, AppendProperties
  <2> QED BY <2>1, <2>2
<1>12. r \in LoopReport /\ r.legs = longer /\ r.merkleChain = next /\ r.totalUsage = more
  <2>1. more \in Nat
    BY <1>7
  <2> QED BY <1>8, <1>9, <1>11, <2>1 DEF LoopReport
<1>13. ChainNames(longer, next)
  BY <1>5, <1>6, <1>10, ChainGoesOn
<1>14. IsFiniteSet(AnsweredBy(longer)) /\ more = Cardinality(AnsweredBy(longer))
  <2>1. PICK old : old = AnsweredBy(legs)
    OBVIOUS
  <2>2. old = {legs[i].artefact : i \in {j \in 1..n0 : legs[j].kind = "cold"}}
    BY <1>9, <2>1 DEF AnsweredBy
  <2>3. AnsweredBy(longer) = {longer[i].artefact : i \in {j \in 1..(n0 + 1) : longer[j].kind = "cold"}}
    BY <1>9 DEF AnsweredBy
  <2>4. \A i \in 1..n0 : i \in 1..(n0 + 1)
    OBVIOUS
  <2>5. n0 + 1 \in 1..(n0 + 1)
    OBVIOUS
  <2>6. CASE e.kind = "cold"
    <3>1. AnsweredBy(longer) = old \cup {e.artefact}
      BY <1>9, <2>2, <2>3, <2>4, <2>5, <2>6
    <3>2. e.artefact \notin old
      BY <1>1, <1>9, <2>2, <2>6
    <3>3. IsFiniteSet(old \cup {e.artefact}) /\ Cardinality(old \cup {e.artefact}) = Cardinality(old) + 1
      BY <1>10, <2>1, <3>2, FS_AddElement
    <3> QED BY <1>7, <1>10, <2>1, <2>6, <3>1, <3>3
  <2>7. CASE e.kind # "cold"
    <3>1. AnsweredBy(longer) = old
      BY <1>9, <2>2, <2>3, <2>4, <2>5, <2>7
    <3> QED BY <1>7, <1>10, <2>1, <2>7, <3>1
  <2> QED BY <2>6, <2>7
<1>15. \A i \in 1..(n0 + 1) : {longer[j].artefact : j \in 1..(i - 1)} = {legs[j].artefact : j \in 1..(i - 1)}
  <2>1. \A i \in 1..(n0 + 1) : \A j \in 1..(i - 1) : j \in 1..n0
    OBVIOUS
  <2> QED BY <1>9, <2>1
<1>16. ReusesOwn(longer)
  <2>1. SUFFICES ASSUME NEW i \in 1..(n0 + 1), longer[i].kind = "hit"
                 PROVE  /\ longer[i].artefact \in {legs[j].artefact : j \in 1..(i - 1)}
                        /\ longer[i].artefact = NoArtefact =>
                              {legs[j].artefact : j \in 1..(i - 1)} = {NoArtefact}
    BY <1>9, <1>15 DEF ReusesOwn
  <2>2. CASE i \in 1..n0
    BY <1>9, <1>10, <2>1, <2>2 DEF ReusesOwn
  <2>3. CASE i = n0 + 1
    <3>1. longer[i] = e /\ e.kind = "hit" /\ i - 1 = n0
      BY <1>9, <2>1, <2>3
    <3>2. legs # <<>> /\ e.artefact = CachedFrom(legs)
      BY <1>1, <3>1
    <3>3. n0 # 0
      BY <1>4, <3>2
    <3>4. /\ CachedFrom(legs) \in {legs[j].artefact : j \in 1..n0}
          /\ CachedFrom(legs) = NoArtefact => {legs[j].artefact : j \in 1..n0} = {NoArtefact}
      BY <1>4, <3>3, CachedIsOwn
    <3> QED BY <3>1, <3>2, <3>4
  <2> QED BY <1>9, <2>2, <2>3
<1>17. HasPrecedents(longer, traces)
  <2>1. SUFFICES ASSUME NEW i \in 1..(n0 + 1), longer[i].kind = "hit"
                 PROVE  \E t \in traces : /\ t.by < longer[i].probe
                                          /\ Likeness[longer[i].about][t.about] = "high"
    BY <1>9 DEF HasPrecedents
  <2>2. CASE i \in 1..n0
    BY <1>9, <1>10, <2>1, <2>2 DEF HasPrecedents
  <2>3. CASE i = n0 + 1
    BY <1>9, <2>1, <2>3
  <2> QED BY <1>9, <2>2, <2>3
<1>18. ArtefactsUpTo(longer, n)
  BY <1>9, <1>10 DEF ArtefactsUpTo
<1>19. Len(longer) <= Len(PromptOf)
  <2>1. Len(PromptOf) \in Nat
    BY RoleAssumption
  <2> QED BY <1>1, <1>4, <1>9, <2>1
<1>20. ReportIsSound(r, traces, n)
  BY <1>12, <1>13, <1>14, <1>16, <1>17, <1>18, <1>19 DEF ReportIsSound
<1> QED BY <1>1, <1>2, <1>3, <1>5, <1>6, <1>7, <1>8, <1>20

(* One loop moves while prompts are prepared.                              *)
LEMMA OneLoopMoves ==
    ASSUME RoleIInv, NEW l \in LegLoops, NEW x, loops' = [loops EXCEPT ![l] = x],
           prepared' \in 0..MaxAsked, prepared <= prepared', memory \subseteq memory',
           memory' \subseteq Trace, \A t \in memory' : t.by <= prepared',
           LoopIsSound(x, memory', prepared')
    PROVE  RoleIInv'
<1>1. prepared \in Nat /\ prepared' \in Nat
  BY RoleAssumption DEF RoleIInv
<1>2. x \in Loop /\ loops \in [LegLoops -> Loop]
  BY DEF LoopIsSound, RoleIInv
<1>3. loops' \in [LegLoops -> Loop]
  BY <1>2
<1>4. ASSUME NEW m \in LegLoops PROVE LoopIsSound(loops'[m], memory', prepared')
  <2>1. CASE m = l
    BY <1>2, <2>1
  <2>2. CASE m # l
    <3>1. loops'[m] = loops[m]
      BY <1>2, <2>2
    <3>2. LoopIsSound(loops[m], memory, prepared)
      BY DEF RoleIInv
    <3> QED BY <1>1, <3>1, <3>2, SoundLoopsStay
  <2> QED BY <2>1, <2>2
<1> QED BY <1>3, <1>4 DEF RoleIInv

(* What a sound state says of a loop.                                      *)
LEMMA LoopIs ==
    ASSUME RoleIInv, NEW l \in LegLoops
    PROVE  /\ loops[l] \in Loop /\ LoopIsSound(loops[l], memory, prepared)
           /\ ReportIsSound(loops[l].report, memory, prepared)
           /\ loops[l].report \in LoopReport /\ Legs(l) = loops[l].report.legs
           /\ prepared \in 0..MaxAsked /\ prepared \in Nat /\ memory \subseteq Trace
           /\ \A t \in memory : t.by <= prepared
<1>1. LoopIsSound(loops[l], memory, prepared)
  BY DEF RoleIInv
<1> QED BY <1>1, RoleAssumption DEF RoleIInv, LoopIsSound, ReportIsSound, Legs

LEMMA EmptyReportIsSound ==
    \A traces, n : n \in Nat => ReportIsSound(EmptyReport, traces, n)
<1> SUFFICES ASSUME NEW traces, NEW n \in Nat PROVE ReportIsSound(EmptyReport, traces, n)
  OBVIOUS
<1>1. /\ EmptyReport.legs = <<>> /\ EmptyReport.merkleChain = <<>> /\ EmptyReport.totalUsage = 0
      /\ EmptyReport \in LoopReport
  BY EmptySeq DEF EmptyReport, LoopReport
<1>2. Len(PromptOf) \in Nat
  BY RoleAssumption
<1>3. Len(<<>>) = 0 /\ DOMAIN <<>> = {}
  OBVIOUS
<1>4. NotVetoed(<<>>) = {} /\ AnsweredBy(<<>>) = {}
  BY <1>3 DEF NotVetoed, AnsweredBy
<1>5. ReusesOwn(<<>>) /\ HasPrecedents(<<>>, traces) /\ ArtefactsUpTo(<<>>, n)
  BY <1>3 DEF ReusesOwn, HasPrecedents, ArtefactsUpTo
<1>6. IsFiniteSet({}) /\ Cardinality({}) = 0
  BY FS_EmptySet
<1>7. ChainNames(<<>>, <<>>)
  <2>3. Cardinality(NotVetoed(<<>>)) = 0
    BY <1>4, <1>6
  <2>4. Len(<<>>) = 0 /\ 0 <= 0
    BY <1>3
  <2>1. Len(<<>>) = Cardinality(NotVetoed(<<>>)) /\ Len(<<>>) <= Len(<<>>)
    BY <2>3, <2>4, Zenon
  <2>2. \A i \in NotVetoed(<<>>) : FALSE
    BY <1>4
  <2> QED BY <2>1, <2>2 DEF ChainNames
<1>8. Len(EmptyReport.legs) <= Len(PromptOf)
  BY <1>1, <1>2, <1>3
<1> QED BY <1>1, <1>4, <1>5, <1>6, <1>7, <1>8 DEF ReportIsSound

LEMMA StartAndReportKeep ==
    ASSUME RoleIInv, NEW l \in LegLoops, StartLoop(l) \/ SubAgentFails(l) \/ Report(l)
    PROVE  RoleIInv'
<1>1. /\ loops[l] \in Loop /\ ReportIsSound(loops[l].report, memory, prepared)
      /\ loops[l].report \in LoopReport
      /\ prepared \in 0..MaxAsked /\ prepared \in Nat /\ memory \subseteq Trace
      /\ \A t \in memory : t.by <= prepared
  BY LoopIs
<1>2. UNCHANGED <<memory, prepared>>
  BY DEF StartLoop, SubAgentFails, Report
<1>3. ReportIsSound(EmptyReport, memory, prepared)
  BY <1>1, EmptyReportIsSound
<1>4. ASSUME NEW at \in {"idle", "deciding", "reported"}, NEW r, ReportIsSound(r, memory, prepared),
             NEW x, x = [at |-> at, report |-> r], loops' = [loops EXCEPT ![l] = x]
      PROVE  RoleIInv'
  <2>1. x \in Loop /\ x.at # "asked" /\ x.report = r
    BY <1>4 DEF Loop, ReportIsSound
  <2>2. LoopIsSound(x, memory', prepared')
    BY <1>2, <1>4, <2>1 DEF LoopIsSound
  <2>3. /\ prepared' \in 0..MaxAsked /\ prepared <= prepared' /\ memory \subseteq memory'
        /\ memory' \subseteq Trace /\ \A t \in memory' : t.by <= prepared'
    BY <1>1, <1>2
  <2> QED BY <1>4, <2>2, <2>3, OneLoopMoves
<1>5. CASE StartLoop(l)
  <2>1. loops' = [loops EXCEPT ![l] = [at |-> "deciding", report |-> EmptyReport]]
    BY <1>5 DEF StartLoop, ReportAtStart
  <2> QED BY <1>3, <1>4, <2>1
<1>6. CASE SubAgentFails(l)
  <2>1. loops' = [loops EXCEPT ![l] = [at |-> "idle", report |-> EmptyReport]]
    BY <1>6 DEF SubAgentFails, NoLoop
  <2> QED BY <1>3, <1>4, <2>1
<1>7. CASE Report(l)
  <2>1. loops[l].at = "deciding" /\ loops' = [loops EXCEPT ![l].at = "reported"]
    BY <1>7 DEF Report
  <2>2. loops[l] \in [at : {"idle", "deciding", "reported"}, report : LoopReport]
    BY <1>1, <2>1 DEF Loop
  <2>3. [loops[l] EXCEPT !.at = "reported"] = [at |-> "reported", report |-> loops[l].report]
    BY <2>2
  <2>4. loops' = [loops EXCEPT ![l] = [at |-> "reported", report |-> loops[l].report]]
    BY <2>1, <2>3
  <2> QED BY <1>1, <1>4, <2>4
<1> QED BY <1>5, <1>6, <1>7

(* A leg goes onto the report of a loop that decides.                      *)
LEMMA DecidedLegKeeps ==
    ASSUME RoleIInv, NEW l \in LegLoops, NEW e \in Leg,
           Len(Legs(l)) < Len(PromptOf),
           prepared' \in 0..MaxAsked, prepared <= prepared', memory \subseteq memory',
           memory' \subseteq Trace, \A t \in memory' : t.by <= prepared',
           e.artefact \in 0..prepared',
           e.kind = "hit" =>
              /\ Legs(l) # <<>> /\ e.artefact = CachedFrom(Legs(l))
              /\ \E t \in memory' : t.by < e.probe /\ Likeness[e.about][t.about] = "high",
           e.kind = "cold" => \A i \in DOMAIN Legs(l) : Legs(l)[i].artefact # e.artefact,
           loops' = [loops EXCEPT ![l] = [at |-> "deciding", report |->
                        [legs |-> Append(Legs(l), e),
                         merkleChain |-> IF e.kind = "vetoed" THEN loops[l].report.merkleChain
                                         ELSE Append(loops[l].report.merkleChain, e.about),
                         totalUsage |-> IF e.kind = "cold" THEN loops[l].report.totalUsage + 1
                                        ELSE loops[l].report.totalUsage]]]
    PROVE  RoleIInv'
<1>1. /\ LoopIsSound(loops[l], memory, prepared) /\ Legs(l) = loops[l].report.legs
      /\ prepared \in Nat
  BY LoopIs
<1>2. prepared' \in Nat
  BY RoleAssumption
<1>3. PICK old : old = loops[l].report
  OBVIOUS
<1>4. LoopIsSound(loops[l], memory', prepared')
  BY <1>1, <1>2, SoundLoopsStay
<1>5. ReportIsSound(old, memory', prepared')
  BY <1>3, <1>4 DEF LoopIsSound
<1>6. PICK r : r = [legs |-> Append(old.legs, e),
                    merkleChain |-> IF e.kind = "vetoed" THEN old.merkleChain
                                    ELSE Append(old.merkleChain, e.about),
                    totalUsage |-> IF e.kind = "cold" THEN old.totalUsage + 1
                                   ELSE old.totalUsage]
  OBVIOUS
<1>7. ReportIsSound(r, memory', prepared')
  BY <1>1, <1>2, <1>3, <1>5, <1>6, ReportGoesOn
<1>8. PICK x : x = [at |-> "deciding", report |-> r]
  OBVIOUS
<1>9. x \in Loop /\ x.at # "asked" /\ x.report = r
  BY <1>7, <1>8 DEF Loop, ReportIsSound
<1>10. LoopIsSound(x, memory', prepared')
  BY <1>7, <1>9 DEF LoopIsSound
<1>11. loops' = [loops EXCEPT ![l] = x]
  BY <1>1, <1>3, <1>6, <1>8
<1> QED BY <1>10, <1>11, OneLoopMoves

LEMMA VetoLegKeeps ==
    ASSUME RoleIInv, NEW l \in LegLoops, VetoLeg(l) PROVE RoleIInv'
<1>1. /\ loops[l] \in Loop /\ loops[l].report \in LoopReport /\ Legs(l) = loops[l].report.legs
      /\ prepared \in 0..MaxAsked /\ prepared \in Nat /\ memory \subseteq Trace
      /\ \A t \in memory : t.by <= prepared
  BY LoopIs
<1>2. loops[l].at = "deciding" /\ Len(Legs(l)) < Len(PromptOf) /\ UNCHANGED <<memory, prepared>>
  BY DEF VetoLeg, AtALeg
<1>3. PICK e : e = [kind |-> "vetoed", artefact |-> NoArtefact]
  OBVIOUS
<1>4. e \in Leg /\ e.kind = "vetoed" /\ e.artefact \in 0..prepared
  BY <1>1, <1>3 DEF Leg, NoArtefact
<1>5. loops' = [loops EXCEPT ![l].report.legs = Append(loops[l].report.legs, e)]
  BY <1>3 DEF VetoLeg
<1>6. PICK x : x = [at |-> "deciding", report |-> [legs |-> Append(Legs(l), e),
                    merkleChain |-> loops[l].report.merkleChain,
                    totalUsage |-> loops[l].report.totalUsage]]
  OBVIOUS
<1>7. [loops[l] EXCEPT !.report.legs = Append(loops[l].report.legs, e)] = x
  <2>1. loops[l] \in [at : {"idle", "deciding", "reported"}, report : LoopReport]
    BY <1>1, <1>2 DEF Loop
  <2>2. PICK q : q = loops[l]
    OBVIOUS
  <2>3. PICK old \in LoopReport : old = q.report
    BY <1>1, <2>2
  <2>4. q = [at |-> "deciding", report |-> old]
    BY <1>2, <2>1, <2>2, <2>3
  <2>5. old = [legs |-> old.legs, merkleChain |-> old.merkleChain, totalUsage |-> old.totalUsage]
    BY DEF LoopReport
  <2>6. PICK longer : longer = Append(old.legs, e)
    OBVIOUS
  <2>7. [old EXCEPT !.legs = longer] =
            [legs |-> longer, merkleChain |-> old.merkleChain, totalUsage |-> old.totalUsage]
    BY <2>5
  <2>8. [q EXCEPT !.report.legs = longer] = [at |-> "deciding", report |-> [old EXCEPT !.legs = longer]]
    BY <2>3, <2>4
  <2>9. x = [at |-> "deciding", report |-> [legs |-> longer, merkleChain |-> old.merkleChain,
                                            totalUsage |-> old.totalUsage]]
    BY <1>1, <1>6, <2>2, <2>3, <2>6
  <2> QED BY <2>2, <2>3, <2>6, <2>7, <2>8, <2>9
<1>8. loops' = [loops EXCEPT ![l] = x]
  BY <1>5, <1>7
<1>9. /\ prepared' \in 0..MaxAsked /\ prepared <= prepared' /\ memory \subseteq memory'
      /\ memory' \subseteq Trace /\ \A t \in memory' : t.by <= prepared'
  BY <1>1, <1>2
<1>10. x = [at |-> "deciding", report |->
               [legs |-> Append(Legs(l), e),
                merkleChain |-> IF e.kind = "vetoed" THEN loops[l].report.merkleChain
                                ELSE Append(loops[l].report.merkleChain, e.about),
                totalUsage |-> IF e.kind = "cold" THEN loops[l].report.totalUsage + 1
                               ELSE loops[l].report.totalUsage]]
  BY <1>4, <1>6
<1>11. e.artefact \in 0..prepared' /\ e.kind # "hit" /\ e.kind # "cold"
  BY <1>2, <1>4
<1> QED BY <1>2, <1>4, <1>8, <1>9, <1>10, <1>11, DecidedLegKeeps

(* What the operator may ask about is a subject.                           *)
LEMMA AskedAreSubjects ==
    ASSUME RoleIInv, NEW l \in LegLoops, AtALeg(l)
    PROVE  MayAskAbout(l) \subseteq Subjects
<1>1. Legs(l) \in Seq(Leg)
  BY LoopIs DEF LoopReport
<1>2. PICK n \in Nat : n = Len(Legs(l))
  BY <1>1
<1>3. PICK m \in Nat : m = Len(PromptOf)
  BY RoleAssumption
<1>4. n + 1 \in 1..m
  BY <1>2, <1>3 DEF AtALeg
<1>5. PromptOf[n + 1] \in Subjects
  BY <1>3, <1>4, RoleAssumption, ElementOfSeq
<1> QED BY <1>2, <1>5, RoleAssumption DEF MayAskAbout

LEMMA HitLegKeeps ==
    ASSUME RoleIInv, NEW l \in LegLoops, AtALeg(l), NEW x \in MayAskAbout(l), HitLeg(l, x)
    PROVE  RoleIInv'
<1>1. /\ loops[l] \in Loop /\ loops[l].report \in LoopReport /\ Legs(l) = loops[l].report.legs
      /\ prepared \in 0..MaxAsked /\ prepared \in Nat /\ memory \subseteq Trace
      /\ \A t \in memory : t.by <= prepared
      /\ ReportIsSound(loops[l].report, memory, prepared)
  BY LoopIs
<1>2. /\ loops[l].at = "deciding" /\ Len(Legs(l)) < Len(PromptOf)
      /\ prepared < MaxAsked /\ prepared' = prepared + 1 /\ IsHit(l, x)
      /\ memory' = memory \cup {[about |-> x, by |-> prepared + 1]}
  BY DEF AtALeg, HitLeg, Prepare
<1>3. x \in Subjects
  BY AskedAreSubjects
<1>4. /\ prepared' \in 0..MaxAsked /\ prepared <= prepared' /\ memory \subseteq memory'
      /\ memory' \subseteq Trace /\ \A t \in memory' : t.by <= prepared'
  <2>1. PICK new : new = [about |-> x, by |-> prepared + 1]
    OBVIOUS
  <2>2. new \in Trace /\ new.by = prepared + 1
    BY <1>1, <1>3, <2>1 DEF Trace
  <2>3. memory' = memory \cup {new}
    BY <1>2, <2>1
  <2>4. \A t \in memory : t.by \in Nat
    BY <1>1 DEF Trace
  <2>5. \A t \in memory' : t.by <= prepared + 1
    BY <1>1, <2>2, <2>3, <2>4
  <2>6. prepared' \in 0..MaxAsked /\ prepared <= prepared'
    BY <1>1, <1>2, RoleAssumption
  <2> QED BY <1>1, <1>2, <2>2, <2>3, <2>5, <2>6
<1>5. PICK e : e = [kind |-> "hit", about |-> x, probe |-> prepared + 1, artefact |-> CachedFrom(Legs(l))]
  OBVIOUS
<1>6. PICK legs \in Seq(Leg) : legs = Legs(l)
  BY <1>1 DEF LoopReport
<1>7. PICK n \in Nat : n = Len(legs)
  OBVIOUS
<1>8. n # 0 /\ legs # <<>>
  BY <1>2, <1>6, <1>7 DEF IsHit
<1>9. CachedFrom(legs) \in 0..prepared
  <2>1. CachedFrom(legs) \in {legs[j].artefact : j \in 1..n}
    BY <1>7, <1>8, CachedIsOwn
  <2>2. ArtefactsUpTo(legs, prepared)
    BY <1>1, <1>6 DEF ReportIsSound
  <2>3. DOMAIN legs = 1..n
    BY <1>7
  <2> QED BY <2>1, <2>2, <2>3 DEF ArtefactsUpTo
<1>10. e \in Leg /\ e.kind = "hit" /\ e.artefact = CachedFrom(Legs(l)) /\ e.about = x
       /\ e.probe = prepared + 1
  BY <1>1, <1>3, <1>5, <1>6, <1>9 DEF Leg
<1>11. e.artefact \in 0..prepared'
  BY <1>1, <1>2, <1>6, <1>9, <1>10
<1>12. \E t \in memory' : t.by < e.probe /\ Likeness[e.about][t.about] = "high"
  <2>1. MatchesOf(x, "high") # {}
    BY <1>2 DEF IsHit, Felt, Resonance
  <2>2. PICK t \in memory : Likeness[x][t.about] = "high"
    BY <2>1 DEF MatchesOf
  <2>3. t.by \in Nat /\ t.by <= prepared
    BY <1>1 DEF Trace
  <2>4. t.by < prepared + 1
    BY <1>1, <2>3
  <2> QED BY <1>4, <1>10, <2>2, <2>4
<1>13. PICK new : new = [at |-> "deciding", report |-> [legs |-> Append(Legs(l), e),
                    merkleChain |-> Append(loops[l].report.merkleChain, x),
                    totalUsage |-> loops[l].report.totalUsage]]
  OBVIOUS
<1>14. loops' = [loops EXCEPT ![l] = new]
  <2>1. PICK r : r = Reuse(loops[l].report, x, prepared + 1)
    OBVIOUS
  <2>2. loops' = [loops EXCEPT ![l].report = r]
    BY <2>1 DEF HitLeg
  <2>3. r = new.report
    BY <1>1, <1>5, <1>13, <2>1 DEF Reuse
  <2>4. loops[l] \in [at : {"idle", "deciding", "reported"}, report : LoopReport]
    BY <1>1, <1>2 DEF Loop
  <2>6. loops[l] = [at |-> "deciding", report |-> loops[l].report]
    BY <1>2, <2>4
  <2>7. [loops[l] EXCEPT !.report = r] = [at |-> "deciding", report |-> r]
    BY <2>6
  <2>8. new = [at |-> "deciding", report |-> new.report]
    BY <1>13
  <2>5. [loops[l] EXCEPT !.report = r] = new
    BY <2>3, <2>7, <2>8
  <2> QED BY <2>2, <2>5
<1>15. new = [at |-> "deciding", report |->
               [legs |-> Append(Legs(l), e),
                merkleChain |-> IF e.kind = "vetoed" THEN loops[l].report.merkleChain
                                ELSE Append(loops[l].report.merkleChain, e.about),
                totalUsage |-> IF e.kind = "cold" THEN loops[l].report.totalUsage + 1
                               ELSE loops[l].report.totalUsage]]
  <2>1. e.kind # "vetoed" /\ e.kind # "cold"
    BY <1>10
  <2>2. Append(loops[l].report.merkleChain, x) = Append(loops[l].report.merkleChain, e.about)
    BY <1>10
  <2> QED BY <1>13, <2>1, <2>2
<1>16. Legs(l) # <<>> /\ e.artefact = CachedFrom(Legs(l)) /\ e.kind # "cold"
  BY <1>6, <1>8, <1>10
<1> QED BY <1>2, <1>4, <1>10, <1>11, <1>12, <1>14, <1>15, <1>16, DecidedLegKeeps

LEMMA AskSubAgentKeeps ==
    ASSUME RoleIInv, NEW l \in LegLoops, AtALeg(l), NEW x \in MayAskAbout(l), AskSubAgent(l, x)
    PROVE  RoleIInv'
<1>1. /\ loops[l] \in Loop /\ loops[l].report \in LoopReport /\ Legs(l) = loops[l].report.legs
      /\ prepared \in 0..MaxAsked /\ prepared \in Nat /\ memory \subseteq Trace
      /\ \A t \in memory : t.by <= prepared
      /\ LoopIsSound(loops[l], memory, prepared)
  BY LoopIs
<1>2. /\ Len(Legs(l)) < Len(PromptOf) /\ prepared + 1 < MaxAsked /\ prepared' = prepared + 2
      /\ memory' = memory \cup {[about |-> x, by |-> prepared + 1], [about |-> x, by |-> prepared + 2]}
  BY DEF AtALeg, AskSubAgent
<1>3. x \in Subjects
  BY AskedAreSubjects
<1>4. /\ prepared' \in 0..MaxAsked /\ prepared <= prepared' /\ memory \subseteq memory'
      /\ memory' \subseteq Trace /\ \A t \in memory' : t.by <= prepared'
  <2>1. PICK probe : probe = [about |-> x, by |-> prepared + 1]
    OBVIOUS
  <2>2. PICK ask : ask = [about |-> x, by |-> prepared + 2]
    OBVIOUS
  <2>3. probe \in Trace /\ ask \in Trace /\ probe.by = prepared + 1 /\ ask.by = prepared + 2
    BY <1>1, <1>3, <2>1, <2>2 DEF Trace
  <2>4. memory' = memory \cup {probe, ask}
    BY <1>2, <2>1, <2>2
  <2>5. \A t \in memory : t.by \in Nat
    BY <1>1 DEF Trace
  <2>6. \A t \in memory' : t.by <= prepared + 2
    BY <1>1, <2>3, <2>4, <2>5
  <2>7. prepared' \in 0..MaxAsked /\ prepared <= prepared'
    BY <1>1, <1>2, RoleAssumption
  <2> QED BY <1>1, <1>2, <2>3, <2>4, <2>6, <2>7
<1>5. PICK new : new = [at |-> "asked", about |-> x, probe |-> prepared + 1, report |-> loops[l].report]
  OBVIOUS
<1>6. loops' = [loops EXCEPT ![l] = new]
  BY <1>5 DEF AskSubAgent
<1>7. /\ new \in Loop /\ new.at = "asked" /\ new.probe = prepared + 1
      /\ new.report = loops[l].report
  BY <1>1, <1>3, <1>5 DEF Loop
<1>8. ReportIsSound(loops[l].report, memory', prepared')
  <2>1. prepared' \in Nat
    BY <1>1, <1>2
  <2>2. LoopIsSound(loops[l], memory', prepared')
    BY <1>1, <1>4, <2>1, SoundLoopsStay
  <2> QED BY <2>2 DEF LoopIsSound
<1>9. ArtefactsUpTo(loops[l].report.legs, prepared + 1)
  <2>1. ArtefactsUpTo(loops[l].report.legs, prepared)
    BY <1>1 DEF LoopIsSound, ReportIsSound
  <2> QED BY <1>1, <2>1 DEF ArtefactsUpTo
<1>10. new.probe + 1 <= prepared'
  BY <1>1, <1>2, <1>7
<1>11. LoopIsSound(new, memory', prepared')
  BY <1>1, <1>2, <1>7, <1>8, <1>9, <1>10 DEF LoopIsSound
<1> QED BY <1>4, <1>6, <1>11, OneLoopMoves

LEMMA SubAgentAnswersKeeps ==
    ASSUME RoleIInv, NEW l \in LegLoops, SubAgentAnswers(l) PROVE RoleIInv'
<1>1. /\ loops[l] \in Loop /\ loops[l].report \in LoopReport /\ Legs(l) = loops[l].report.legs
      /\ prepared \in 0..MaxAsked /\ prepared \in Nat /\ memory \subseteq Trace
      /\ \A t \in memory : t.by <= prepared
      /\ LoopIsSound(loops[l], memory, prepared)
  BY LoopIs
<1>2. loops[l].at = "asked" /\ UNCHANGED <<memory, prepared>>
  BY DEF SubAgentAnswers
<1>3. PICK x \in Subjects : x = loops[l].about
  BY <1>1, <1>2, LoopsAre
<1>4. PICK probe \in Nat : probe = loops[l].probe
  BY <1>1, <1>2, LoopsAre
<1>5. /\ Len(Legs(l)) < Len(PromptOf) /\ probe + 1 <= prepared
      /\ ArtefactsUpTo(Legs(l), probe)
  BY <1>1, <1>2, <1>4 DEF LoopIsSound
<1>6. PICK e : e = [kind |-> "cold", about |-> x, probe |-> probe, artefact |-> probe + 1]
  OBVIOUS
<1>7. e \in Leg /\ e.kind = "cold" /\ e.about = x /\ e.artefact = probe + 1
  BY <1>6 DEF Leg
<1>8. e.artefact \in 0..prepared'
  BY <1>1, <1>2, <1>5, <1>7
<1>9. \A i \in DOMAIN Legs(l) : Legs(l)[i].artefact # e.artefact
  <2>1. probe + 1 \notin 0..probe
    OBVIOUS
  <2> QED BY <1>5, <1>7, <2>1 DEF ArtefactsUpTo
<1>10. PICK new : new = [at |-> "deciding", report |-> [legs |-> Append(Legs(l), e),
                    merkleChain |-> Append(loops[l].report.merkleChain, x),
                    totalUsage |-> loops[l].report.totalUsage + 1]]
  OBVIOUS
<1>11. loops' = [loops EXCEPT ![l] = new]
  BY <1>1, <1>3, <1>4, <1>6, <1>10 DEF SubAgentAnswers
<1>12. new = [at |-> "deciding", report |->
               [legs |-> Append(Legs(l), e),
                merkleChain |-> IF e.kind = "vetoed" THEN loops[l].report.merkleChain
                                ELSE Append(loops[l].report.merkleChain, e.about),
                totalUsage |-> IF e.kind = "cold" THEN loops[l].report.totalUsage + 1
                               ELSE loops[l].report.totalUsage]]
  <2>1. e.kind # "vetoed" /\ e.kind = "cold"
    BY <1>7
  <2>2. Append(loops[l].report.merkleChain, x) = Append(loops[l].report.merkleChain, e.about)
    BY <1>7
  <2> QED BY <1>10, <2>1, <2>2
<1>13. /\ prepared' \in 0..MaxAsked /\ prepared <= prepared' /\ memory \subseteq memory'
      /\ memory' \subseteq Trace /\ \A t \in memory' : t.by <= prepared'
  BY <1>1, <1>2
<1>14. e.kind # "hit"
  BY <1>7
<1> QED BY <1>5, <1>7, <1>8, <1>9, <1>11, <1>12, <1>13, <1>14, DecidedLegKeeps

LEMMA RoleStepKeeps == RoleIInv /\ [RoleNext]_roleVars => RoleIInv'
<1> SUFFICES ASSUME RoleIInv, [RoleNext]_roleVars PROVE RoleIInv'
  OBVIOUS
<1>1. CASE UNCHANGED roleVars
  <2>1. UNCHANGED <<memory, loops, prepared>>
    BY <1>1 DEF roleVars
  <2> QED BY <2>1 DEF RoleIInv
<1>2. ASSUME NEW l \in LegLoops, StartLoop(l) \/ SubAgentFails(l) \/ Report(l) PROVE RoleIInv'
  BY <1>2, StartAndReportKeep
<1>3. ASSUME NEW l \in LegLoops, VetoLeg(l) PROVE RoleIInv'
  BY <1>3, VetoLegKeeps
<1>4. ASSUME NEW l \in LegLoops, AtALeg(l), NEW x \in MayAskAbout(l), HitLeg(l, x) PROVE RoleIInv'
  BY <1>4, HitLegKeeps
<1>5. ASSUME NEW l \in LegLoops, AtALeg(l), NEW x \in MayAskAbout(l), AskSubAgent(l, x) PROVE RoleIInv'
  BY <1>5, AskSubAgentKeeps
<1>6. ASSUME NEW l \in LegLoops, SubAgentAnswers(l) PROVE RoleIInv'
  BY <1>6, SubAgentAnswersKeeps
<1> QED BY <1>1, <1>2, <1>3, <1>4, <1>5, <1>6 DEF RoleNext

LEMMA RoleStarts == RoleInit => RoleIInv
<1> SUFFICES ASSUME RoleInit PROVE RoleIInv
  OBVIOUS
<1>1. memory = {} /\ prepared = 0 /\ loops = [l \in LegLoops |-> NoLoop]
  BY DEF RoleInit
<1>2. NoLoop \in Loop /\ NoLoop.at # "asked" /\ NoLoop.report = EmptyReport
  BY EmptySeq DEF NoLoop, EmptyReport, Loop, LoopReport
<1>3. ReportIsSound(EmptyReport, memory, prepared)
  BY <1>1, EmptyReportIsSound
<1>4. LoopIsSound(NoLoop, memory, prepared)
  BY <1>2, <1>3 DEF LoopIsSound
<1>5. prepared \in 0..MaxAsked
  BY <1>1, RoleAssumption
<1> QED BY <1>1, <1>2, <1>4, <1>5 DEF RoleIInv

LEMMA RoleIInvImplies == RoleIInv => RoleInv
<1> SUFFICES ASSUME RoleIInv PROVE RoleInv
  OBVIOUS
<1>1. ASSUME NEW l \in LegLoops
      PROVE  /\ loops[l] \in Loop /\ ReportIsSound(loops[l].report, memory, prepared)
             /\ Legs(l) = loops[l].report.legs /\ Legs(l) \in Seq(Leg)
             /\ ChainNames(Legs(l), loops[l].report.merkleChain)
             /\ loops[l].report.totalUsage = Cardinality(AnsweredBy(Legs(l)))
             /\ ReusesOwn(Legs(l)) /\ HasPrecedents(Legs(l), memory) /\ ArtefactsUpTo(Legs(l), prepared)
  BY LoopIs DEF ReportIsSound, LoopReport
<1>2. RoleTypeOK
  <2>1. MemoryTypeOK /\ prepared \in 0..MaxAsked
    BY DEF RoleIInv, MemoryTypeOK, Trace
  <2>2. ASSUME NEW l \in LegLoops
        PROVE  /\ loops[l].at \in {"idle", "deciding", "asked", "reported"}
               /\ Len(Legs(l)) <= Len(PromptOf)
               /\ Len(loops[l].report.merkleChain) <= Len(Legs(l))
               /\ \A i \in DOMAIN Legs(l) : Legs(l)[i].artefact \in 0..MaxAsked
    <3>1. loops[l].at \in {"idle", "deciding", "asked", "reported"}
      BY <1>1, LoopsAre
    <3>2. Len(Legs(l)) <= Len(PromptOf) /\ Len(loops[l].report.merkleChain) <= Len(Legs(l))
      BY <1>1 DEF ReportIsSound, ChainNames
    <3>3. \A k \in 0..prepared : k \in 0..MaxAsked
      BY <2>1, RoleAssumption
    <3>4. \A i \in DOMAIN Legs(l) : Legs(l)[i].artefact \in 0..MaxAsked
      BY <1>1, <3>3 DEF ArtefactsUpTo
    <3> QED BY <3>1, <3>2, <3>4
  <2> QED BY <2>1, <2>2 DEF RoleTypeOK
<1>3. ReportsAddUp
  <2>1. SUFFICES ASSUME NEW l \in LegLoops
                 PROVE  LET done == DOMAIN Legs(l) \ LegsOf(l, "vetoed")
                            place(i) == Cardinality({j \in done : j <= i})
                            chain == loops[l].report.merkleChain
                        IN  /\ Len(chain) = Cardinality(done)
                            /\ \A i \in done : chain[place(i)] = Legs(l)[i].about
                            /\ loops[l].report.totalUsage =
                                  Cardinality({Legs(l)[i].artefact : i \in LegsOf(l, "cold")})
    BY DEF ReportsAddUp
  <2>2. DOMAIN Legs(l) \ LegsOf(l, "vetoed") = NotVetoed(Legs(l))
    BY DEF LegsOf, NotVetoed
  <2>3. {Legs(l)[i].artefact : i \in LegsOf(l, "cold")} = AnsweredBy(Legs(l))
    BY DEF LegsOf, AnsweredBy
  <2> QED BY <1>1, <2>2, <2>3 DEF ChainNames
<1>4. HitsHavePrecedent
  BY <1>1 DEF HitsHavePrecedent, HasPrecedents, LegsOf
<1>5. HitsReuseTheRun
  BY <1>1 DEF HitsReuseTheRun, ReusesOwn, LegsOf
<1> QED BY <1>2, <1>3, <1>4, <1>5 DEF RoleInv

(* However loops over one adapter overlap and are vetoed: a report's chain *)
(* and usage are of its own legs, and a leg that is not dispatched has a   *)
(* precedent older than its own probe and reuses an artefact of its own    *)
(* run (runResearcherCoderReviewer).                                       *)
THEOREM ReportsAreOfTheRun == RoleSpec => []RoleInv
<1>1. RoleInit => RoleIInv
  BY RoleStarts
<1>2. RoleIInv /\ [RoleNext]_roleVars => RoleIInv'
  BY RoleStepKeeps
<1>3. RoleIInv => RoleInv
  BY RoleIInvImplies
<1> QED BY <1>1, <1>2, <1>3, PTL DEF RoleSpec

-----------------------------------------------------------------------------
(* The components in one system. *)

AccelerationIInv == HardwareIInv /\ HotPathIInv
VerdictIInv == RoutingTypeOK /\ EfficacyIInv

(* What alerts and leg loops are while nobody uses them.                   *)
IdleAlerts ==
    targets \subseteq {"slack", "linear"} /\ alerts = <<>> /\ messages = {} /\ issues = <<>>
IdleRoles == loops = [l \in LegLoops |-> NoLoop] /\ prepared = 0

(* They share the adapter's memory, so at most one of them runs.           *)
AdapterIInv ==
    /\ IF focus = "alerts" THEN AlertIInv ELSE IdleAlerts
    /\ IF focus = "roles" THEN RoleIInv ELSE IdleRoles
    /\ focus \notin {"alerts", "roles"} => memory = {}

(* A step of the system is for each of these components a step of its own  *)
(* or none.                                                                *)
LEMMA EngineSteps ==
    ASSUME [EngineNext]_engineVars
    PROVE  /\ [HardwareNext]_hardwareVars /\ [HotPathNext]_hotPathVars
           /\ [RoutingNext]_routingVars /\ [EfficacyNext]_efficacyVars
           /\ UNCHANGED focus
           /\ IF focus = "alerts" THEN [AlertNext]_alertVars
              ELSE UNCHANGED <<targets, alerts, messages, issues>>
           /\ IF focus = "roles" THEN [RoleNext]_roleVars ELSE UNCHANGED <<loops, prepared>>
           /\ focus \notin {"alerts", "roles"} => UNCHANGED memory
<1>1. CASE EngineNext
  BY <1>1 DEF EngineNext
<1>2. CASE UNCHANGED engineVars
  BY <1>2 DEF engineVars, alertVars, roleVars
<1> QED BY <1>1, <1>2

(* Alerts nobody dispatched break no promise.                              *)
LEMMA IdleAlertsHold == IdleAlerts /\ MemoryTypeOK => AlertInv
BY DEF IdleAlerts, AlertInv, AlertTypeOK, AnchorsMatchIssues, AnswersAreComplete,
       NovelAlertsStayOffSlack

(* Loops nobody started report nothing.                                    *)
LEMMA IdleRolesHold == IdleRoles /\ MemoryTypeOK => RoleInv
<1> SUFFICES ASSUME IdleRoles, MemoryTypeOK PROVE RoleInv
  OBVIOUS
<1>1. ASSUME NEW l \in LegLoops
      PROVE  /\ loops[l].at = "idle" /\ Legs(l) = <<>>
             /\ loops[l].report.merkleChain = <<>> /\ loops[l].report.totalUsage = 0
  BY DEF IdleRoles, NoLoop, EmptyReport, Legs
<1>2. ASSUME NEW l \in LegLoops, NEW kind
      PROVE  DOMAIN Legs(l) = {} /\ LegsOf(l, kind) = {} /\ Len(Legs(l)) = 0
  BY <1>1 DEF LegsOf
<1>3. prepared \in 0..MaxAsked /\ Len(PromptOf) \in Nat
  BY RoleAssumption DEF IdleRoles
<1>4. ASSUME NEW l \in LegLoops
      PROVE  Len(Legs(l)) <= Len(PromptOf) /\ Len(loops[l].report.merkleChain) <= Len(Legs(l))
  BY <1>1, <1>3
<1>5. RoleTypeOK
  BY <1>1, <1>2, <1>3, <1>4 DEF RoleTypeOK
<1>6. ReportsAddUp
  <2> SUFFICES ASSUME NEW l \in LegLoops
               PROVE  LET done == DOMAIN Legs(l) \ LegsOf(l, "vetoed")
                          place(i) == Cardinality({j \in done : j <= i})
                          chain == loops[l].report.merkleChain
                      IN  /\ Len(chain) = Cardinality(done)
                          /\ \A i \in done : chain[place(i)] = Legs(l)[i].about
                          /\ loops[l].report.totalUsage =
                                Cardinality({Legs(l)[i].artefact : i \in LegsOf(l, "cold")})
    BY DEF ReportsAddUp
  <2>1. DOMAIN Legs(l) \ LegsOf(l, "vetoed") = {}
    BY <1>2
  <2>2. {Legs(l)[i].artefact : i \in LegsOf(l, "cold")} = {}
    BY <1>2
  <2>3. Cardinality({}) = 0
    BY FS_EmptySet
  <2>4. Len(loops[l].report.merkleChain) = 0
    BY <1>1
  <2> QED BY <1>1, <2>1, <2>2, <2>3, <2>4, ZenonT(30)
<1>7. HitsHavePrecedent /\ HitsReuseTheRun
  BY <1>2 DEF HitsHavePrecedent, HitsReuseTheRun
<1> QED BY <1>5, <1>6, <1>7 DEF RoleInv

(* Both halves of the GPU path keep their promises when they are used in   *)
(* one system (CUDAHardwareLayer, HotPathRouter).                          *)
THEOREM AccelerationIsSound == EngineSpec => []AccelerationInv
<1>1. EngineInit => AccelerationIInv
  BY HardwareStarts, HotPathStarts DEF EngineInit, AccelerationIInv
<1>2. AccelerationIInv /\ [EngineNext]_engineVars => AccelerationIInv'
  BY EngineSteps, HardwareStepKeeps, HotPathStepKeeps DEF AccelerationIInv
<1>3. AccelerationIInv => AccelerationInv
  BY HardwareIInvImplies, HotPathIInvImplies DEF AccelerationIInv, AccelerationInv
<1> QED BY <1>1, <1>2, <1>3, PTL DEF EngineSpec

(* Who answers a prompt, and what a run supports, follows the rule in      *)
(* force (chooseProviderAcrossGrokAndQwen, runEfficacyProgram).            *)
THEOREM VerdictsFollowTheRule == EngineSpec => []VerdictInv
<1>1. EngineInit => VerdictIInv
  BY RoutingStarts, EfficacyStarts DEF EngineInit, VerdictIInv
<1>2. VerdictIInv /\ [EngineNext]_engineVars => VerdictIInv'
  BY EngineSteps, RoutingStepKeeps, EfficacyStepKeeps DEF VerdictIInv
<1>3. VerdictIInv => VerdictInv
  BY RoutingIInvImplies, EfficacyIInvImplies DEF VerdictIInv, VerdictInv
<1> QED BY <1>1, <1>2, <1>3, PTL DEF EngineSpec

LEMMA AdapterStarts == EngineInit => AdapterIInv
<1> SUFFICES ASSUME EngineInit PROVE AdapterIInv
  OBVIOUS
<1>1. AlertInit /\ RoleInit /\ AlertIInv /\ RoleIInv
  BY AlertStarts, RoleStarts DEF EngineInit
<1>2. IdleAlerts /\ IdleRoles /\ memory = {}
  BY <1>1 DEF AlertInit, RoleInit, IdleAlerts, IdleRoles
<1> QED BY <1>1, <1>2 DEF AdapterIInv

LEMMA AdapterStepKeeps == AdapterIInv /\ [EngineNext]_engineVars => AdapterIInv'
<1> SUFFICES ASSUME AdapterIInv, [EngineNext]_engineVars PROVE AdapterIInv'
  OBVIOUS
<1>1. /\ UNCHANGED focus /\ (focus \notin {"alerts", "roles"} => UNCHANGED memory)
      /\ IF focus = "alerts" THEN [AlertNext]_alertVars
         ELSE UNCHANGED <<targets, alerts, messages, issues>>
      /\ IF focus = "roles" THEN [RoleNext]_roleVars ELSE UNCHANGED <<loops, prepared>>
  BY EngineSteps
<1>2. ASSUME focus = "alerts" PROVE AlertIInv'
  BY <1>1, <1>2, AlertStepKeeps DEF AdapterIInv
<1>3. ASSUME focus = "roles" PROVE RoleIInv'
  BY <1>1, <1>3, RoleStepKeeps DEF AdapterIInv
<1>4. ASSUME focus # "alerts" PROVE IdleAlerts'
  BY <1>1, <1>4 DEF AdapterIInv, IdleAlerts
<1>5. ASSUME focus # "roles" PROVE IdleRoles'
  BY <1>1, <1>5 DEF AdapterIInv, IdleRoles
<1>6. focus' \notin {"alerts", "roles"} => memory' = {}
  BY <1>1 DEF AdapterIInv
<1> QED BY <1>1, <1>2, <1>3, <1>4, <1>5, <1>6 DEF AdapterIInv

LEMMA AdapterIInvImplies == AdapterIInv => AdapterInv
<1> SUFFICES ASSUME AdapterIInv PROVE AdapterInv
  OBVIOUS
<1>1. CASE focus = "alerts"
  <2>1. AlertInv /\ IdleRoles
    BY <1>1, AlertIInvImplies DEF AdapterIInv
  <2>2. MemoryTypeOK
    BY <2>1 DEF AlertInv, AlertTypeOK
  <2> QED BY <2>1, <2>2, IdleRolesHold DEF AdapterInv
<1>2. CASE focus = "roles"
  <2>1. RoleInv /\ IdleAlerts
    BY <1>2, RoleIInvImplies DEF AdapterIInv
  <2>2. MemoryTypeOK
    BY <2>1 DEF RoleInv, RoleTypeOK
  <2> QED BY <2>1, <2>2, IdleAlertsHold DEF AdapterInv
<1>3. CASE focus \notin {"alerts", "roles"}
  <2>1. IdleAlerts /\ IdleRoles /\ memory = {}
    BY <1>3 DEF AdapterIInv
  <2>2. MemoryTypeOK
    BY <2>1 DEF MemoryTypeOK
  <2> QED BY <2>1, <2>2, IdleAlertsHold, IdleRolesHold DEF AdapterInv
<1> QED BY <1>1, <1>2, <1>3

(* Whichever of the two uses the adapter, and whatever its memory holds:   *)
(* alerts are dispatched in full, each to its own issue, and reports are   *)
(* of their own run (BaseAdapter, LinearSlackOrchestratorAdapter,          *)
(* runResearcherCoderReviewer).                                            *)
THEOREM AdaptersKeepTheirWord == EngineSpec => []AdapterInv
<1>1. EngineInit => AdapterIInv
  BY AdapterStarts
<1>2. AdapterIInv /\ [EngineNext]_engineVars => AdapterIInv'
  BY AdapterStepKeeps
<1>3. AdapterIInv => AdapterInv
  BY AdapterIInvImplies
<1> QED BY <1>1, <1>2, <1>3, PTL DEF EngineSpec

-----------------------------------------------------------------------------
(* Values computed step by step. *)

(* What holds at 0 and passes from each number to the next holds of every  *)
(* number up to the last.                                                  *)
LEMMA CountingUp ==
    ASSUME NEW last \in Nat, NEW good, 0 \in good,
           \A n \in 1..last : n - 1 \in good => n \in good
    PROVE  \A n \in 0..last : n \in good
<1> SUFFICES ASSUME NEW bad \in 0..last, bad \notin good
             PROVE  FALSE
    OBVIOUS
<1> DEFINE bads == {n \in 0..last : n \notin good}
<1>1. bads \subseteq Nat /\ bads # {}
    OBVIOUS
<1>2. PICK least \in bads : \A n \in bads : least <= n
    BY <1>1, LeastIndex
<1>3. least \in 1..last
    OBVIOUS
<1>4. least - 1 \in 0..last /\ ~(least <= least - 1)
    BY <1>3
<1>5. least - 1 \in good
    BY <1>2, <1>4
<1> QED
    BY <1>2, <1>3, <1>5

(* Steps that lead from values to values; the values on the way from the   *)
(* first one.                                                              *)
StepsStay(values, last, move) ==
    \A n \in 1..last : \A v \in values : move[n][v] \in values
IsTheWay(on, values, first, last, move) ==
    /\ on \in [0..last -> values] /\ on[0] = first
    /\ \A n \in 1..last : on[n] = move[n][on[n - 1]]

(* A value computed in steps from a first one, each from the one before:   *)
(* there is a function of all the values on the way.                       *)
LEMMA StepsAreAFunction ==
    ASSUME NEW values, NEW first \in values, NEW last \in Nat, NEW move,
           StepsStay(values, last, move)
    PROVE  \E on : IsTheWay(on, values, first, last, move)
<1> DEFINE Follows(on, upto) ==
              \A n \in 0..upto : on[n] = (IF n = 0 THEN first ELSE move[n][on[n - 1]])
           good == {upto \in 0..last : \E on \in [0..last -> values] : Follows(on, upto)}
<1>1. 0 \in good
  <2> DEFINE start == [n \in 0..last |-> first]
  <2>1. start \in [0..last -> values]
      OBVIOUS
  <2>2. Follows(start, 0)
      OBVIOUS
  <2> HIDE DEF start
  <2>3. 0 \in 0..last
      OBVIOUS
  <2> QED
      BY <2>1, <2>2, <2>3
<1>2. ASSUME NEW upto \in 1..last, upto - 1 \in good
      PROVE  upto \in good
  <2>1. PICK on \in [0..last -> values] : Follows(on, upto - 1)
      BY <1>2
  <2> DEFINE next == [on EXCEPT ![upto] = move[upto][on[upto - 1]]]
  <2>2. on[upto - 1] \in values
      OBVIOUS
  <2>3. move[upto][on[upto - 1]] \in values
      BY <2>2 DEF StepsStay
  <2>4. next \in [0..last -> values]
      BY <2>3
  <2>5. ASSUME NEW n \in 0..upto
        PROVE  next[n] = (IF n = 0 THEN first ELSE move[n][next[n - 1]])
    <3>1. CASE n = upto
        BY <3>1
    <3>2. CASE n # upto
      <4>1. n \in 0..(upto - 1) /\ next[n] = on[n]
          BY <3>2
      <4>2. n # 0 => next[n - 1] = on[n - 1]
          BY <3>2
      <4> QED
          BY <2>1, <4>1, <4>2
    <3> QED
        BY <3>1, <3>2
  <2> HIDE DEF next
  <2>6. Follows(next, upto)
      BY <2>5
  <2> QED
      BY <2>4, <2>6
<1> HIDE DEF good
<1>3. last \in good
    BY <1>1, <1>2, CountingUp
<1>4. PICK on \in [0..last -> values] : Follows(on, last)
    BY <1>3 DEF good
<1>5. \A n \in 0..last : on[n] = (IF n = 0 THEN first ELSE move[n][on[n - 1]])
    BY <1>4
<1>6. on[0] = first
    BY <1>5
<1>7. \A n \in 1..last : on[n] = move[n][on[n - 1]]
    BY <1>5
<1> QED
    BY <1>6, <1>7 DEF IsTheWay

-----------------------------------------------------------------------------
(* Organelle merges. *)

Offered == [tensor : Tensor, strong : BOOLEAN]
HostTrace == [tensor : Tensor \ {"unsealable"}, merge : Nat, place : Nat, skips : BOOLEAN]
MergeRecord == [offer : Seq(Offered), way : Ways,
                told : [outcome : {"answered", "rejected"}, traces : Nat, etch : BOOLEAN]]
Merging == [held : Seq(HostTrace), places : Seq(Nat), broken : BOOLEAN]

(* A trace the answer wanted in and that can be sealed.                    *)
BelongsIn(way, item) ==
    Sealable(item) /\ (IF way.by = "adapter" THEN way.traces
                       ELSE item.strong /\ way.strategy # "skip")

SkippersSound(traces) ==
    \A i, j \in DOMAIN traces :
        i < j /\ traces[j].skips => ~Resembles(traces[j], <<traces[i]>>)

(* After n traces of an answer: the host holds no more than it may, no     *)
(* trace came in that was to be skipped, and unless the merge has broken   *)
(* off every wanted trace up to n is in.                                   *)
MergedUpTo(way, offer, n, at) ==
    /\ Len(at.held) <= HostCapacity
    /\ SkippersSound(at.held)
    /\ ~at.broken => \A k \in 1..n : BelongsIn(way, offer[k]) =>
                          \E i \in DOMAIN at.places : at.places[i] = k

(* The ring keeps its bound and stays sound when a trace joins that, if it *)
(* skips, resembles none of it.                                            *)
LEMMA RingTakesIn ==
    ASSUME NEW traces \in Seq(HostTrace), Len(traces) <= HostCapacity, SkippersSound(traces),
           NEW x \in HostTrace, x.skips => ~Resembles(x, traces)
    PROVE  /\ InHost(traces, x) \in Seq(HostTrace)
           /\ Len(InHost(traces, x)) <= HostCapacity
           /\ SkippersSound(InHost(traces, x))
<1> DEFINE drop == IF Len(traces) = HostCapacity THEN 1 ELSE 0
           ring == InHost(traces, x)
           size == Len(traces) + 1 - drop
<1>1. HostCapacity \in Nat \ {0} /\ Len(traces) \in Nat
    BY OrganelleAssumption
<1>2. /\ ring \in Seq(HostTrace) /\ Len(ring) = size /\ size \in 1..HostCapacity
      /\ ring[size] = x
      /\ \A i \in 1..(size - 1) : ring[i] = traces[i + drop]
  <2>1. CASE Len(traces) = HostCapacity
    <3>1. traces # <<>>
        BY <1>1, <2>1
    <3>2. /\ Tail(traces) \in Seq(HostTrace) /\ Len(Tail(traces)) = Len(traces) - 1
          /\ \A i \in 1..(Len(traces) - 1) : Tail(traces)[i] = traces[i + 1]
        BY <3>1, HeadTailProperties
    <3>3. ring = Append(Tail(traces), x)
        BY <2>1 DEF InHost
    <3>4. /\ ring \in Seq(HostTrace) /\ Len(ring) = Len(traces) /\ ring[Len(traces)] = x
          /\ \A i \in 1..(Len(traces) - 1) : ring[i] = Tail(traces)[i]
        BY <1>1, <3>2, <3>3, AppendProperties
    <3> QED
        BY <1>1, <2>1, <3>2, <3>4
  <2>2. CASE Len(traces) # HostCapacity
    <3>1. ring = Append(traces, x)
        BY <2>2 DEF InHost
    <3>2. /\ ring \in Seq(HostTrace) /\ Len(ring) = Len(traces) + 1 /\ ring[Len(traces) + 1] = x
          /\ \A i \in 1..Len(traces) : ring[i] = traces[i]
        BY <3>1, AppendProperties
    <3> QED
        BY <1>1, <2>2, <3>2
  <2> QED
      BY <2>1, <2>2
<1>3. drop \in {0, 1} /\ size = Len(traces) + 1 - drop
    OBVIOUS
<1>4. DOMAIN ring = 1..size /\ DOMAIN traces = 1..Len(traces)
    BY <1>2
<1> HIDE DEF drop, size, ring
<1>5. ASSUME NEW i \in 1..size, NEW j \in 1..size, i < j, ring[j].skips
      PROVE  ~Resembles(ring[j], <<ring[i]>>)
  <2>1. i \in 1..(size - 1) /\ i + drop \in 1..Len(traces)
      BY <1>1, <1>2, <1>3, <1>5
  <2>2. CASE j = size
    <3>1. ~Resembles(x, traces)
        BY <1>2, <1>5, <2>2
    <3>2. ring[i].tensor = traces[i + drop].tensor
        BY <1>2, <2>1
    <3> QED
        BY <1>2, <1>4, <2>1, <2>2, <3>1, <3>2 DEF Resembles
  <2>3. CASE j # size
    <3>1. j \in 1..(size - 1)
        BY <1>2, <2>3
    <3>2. j + drop \in 1..Len(traces)
        BY <1>1, <1>3, <3>1
    <3>3. i + drop < j + drop
        BY <1>3, <1>5, <2>1, <3>1
    <3>4. ring[i] = traces[i + drop] /\ ring[j] = traces[j + drop]
        BY <1>2, <2>1, <3>1
    <3> QED
        BY <1>4, <1>5, <2>1, <3>2, <3>3, <3>4 DEF SkippersSound
  <2> QED
      BY <2>2, <2>3
<1>6. SkippersSound(ring)
    BY <1>4, <1>5 DEF SkippersSound
<1>7. Len(ring) <= HostCapacity
    BY <1>1, <1>2
<1> QED
    BY <1>2, <1>6, <1>7 DEF ring

(* The merge of one trace of an answer.                                    *)
LEMMA TakingInKeeps ==
    ASSUME merges \in Seq(MergeRecord),
           NEW way \in Ways, way.by = "adapter" => way.traces, NEW offer \in Seq(Offered),
           NEW n \in 1..Len(offer), NEW at \in Merging,
           MergedUpTo(way, offer, n - 1, at)
    PROVE  /\ TakeIn(way, offer, n, at) \in Merging
           /\ MergedUpTo(way, offer, n, TakeIn(way, offer, n, at))
<1> DEFINE skips == way.by = "utility" /\ way.strategy = "skip"
           x == [tensor |-> offer[n].tensor, merge |-> Len(merges) + 1, place |-> n, skips |-> skips]
           then == TakeIn(way, offer, n, at)
<1>1. offer[n] \in Offered /\ n \in Nat /\ n >= 1 /\ Len(merges) \in Nat
    OBVIOUS
<1>2. CASE at.broken
  <2>1. then = at
      BY <1>2 DEF TakeIn
  <2> QED
      BY <1>2, <2>1 DEF MergedUpTo
<1>3. CASE ~at.broken /\ ~Passes(offer[n], way, at)
  <2>1. then = at
      BY <1>3 DEF TakeIn
  <2>2. ~BelongsIn(way, offer[n])
      BY <1>3 DEF Passes, BelongsIn, Ways
  <2>3. \A k \in 1..n : k = n \/ k \in 1..(n - 1)
      BY <1>1
  <2> QED
      BY <1>3, <2>1, <2>2, <2>3 DEF MergedUpTo
<1>4. CASE ~at.broken /\ Passes(offer[n], way, at) /\ ~Sealable(offer[n])
  <2>1. then = [at EXCEPT !.broken = ~Tolerant(way)]
      BY <1>4 DEF TakeIn
  <2>2. /\ then.held = at.held /\ then.places = at.places /\ then.broken \in BOOLEAN
        /\ then \in Merging
      BY <2>1 DEF Merging, Tolerant
  <2>3. ~BelongsIn(way, offer[n])
      BY <1>4 DEF BelongsIn
  <2>4. \A k \in 1..n : k = n \/ k \in 1..(n - 1)
      BY <1>1
  <2> QED
      BY <1>4, <2>2, <2>3, <2>4 DEF MergedUpTo
<1>5. CASE ~at.broken /\ Passes(offer[n], way, at) /\ Sealable(offer[n])
  <2>1. then = [at EXCEPT !.held = InHost(at.held, x), !.places = Append(at.places, n)]
      BY <1>5 DEF TakeIn
  <2>2. x \in HostTrace
      BY <1>1, <1>5 DEF HostTrace, Offered, Sealable
  <2>3. x.skips => ~Resembles(x, at.held)
      BY <1>5 DEF Passes, KnownTo, Resembles
  <2> HIDE DEF x
  <2>4. at.held \in Seq(HostTrace) /\ at.places \in Seq(Nat)
      BY DEF Merging
  <2>5. /\ InHost(at.held, x) \in Seq(HostTrace) /\ Len(InHost(at.held, x)) <= HostCapacity
        /\ SkippersSound(InHost(at.held, x))
      BY <2>2, <2>3, <2>4, RingTakesIn DEF MergedUpTo
  <2>6. /\ Append(at.places, n) \in Seq(Nat)
        /\ DOMAIN Append(at.places, n) = 1..(Len(at.places) + 1)
        /\ Append(at.places, n)[Len(at.places) + 1] = n
        /\ \A i \in 1..Len(at.places) : Append(at.places, n)[i] = at.places[i]
        /\ DOMAIN at.places = 1..Len(at.places) /\ Len(at.places) \in Nat
      BY <1>1, <2>4, AppendProperties
  <2>7. /\ then \in Merging /\ then.held = InHost(at.held, x)
        /\ then.places = Append(at.places, n)
      BY <2>1, <2>5, <2>6 DEF Merging
  <2> HIDE DEF then
  <2>8. ASSUME NEW k \in 1..n, BelongsIn(way, offer[k])
        PROVE  \E i \in DOMAIN then.places : then.places[i] = k
    <3>1. CASE k = n
        BY <2>6, <2>7, <3>1
    <3>2. CASE k # n
      <4>1. k \in 1..(n - 1)
          BY <1>1, <3>2
      <4>2. PICK i \in DOMAIN at.places : at.places[i] = k
          BY <1>5, <2>8, <4>1 DEF MergedUpTo
      <4> QED
          BY <2>6, <2>7, <4>2
    <3> QED
        BY <3>1, <3>2
  <2>9. Len(then.held) <= HostCapacity /\ SkippersSound(then.held)
      BY <2>5, <2>7
  <2>10. MergedUpTo(way, offer, n, then)
      BY <2>8, <2>9 DEF MergedUpTo
  <2> QED
      BY <2>7, <2>10 DEF then
<1> QED
    BY <1>2, <1>3, <1>4, <1>5

(* The merge of a whole answer, trace by trace.                            *)
LEMMA AnswersAreTakenIn ==
    ASSUME merges \in Seq(MergeRecord), held \in Seq(HostTrace), Len(held) <= HostCapacity,
           SkippersSound(held), NEW way \in Ways, NEW offer \in Seq(Offered)
    PROVE  /\ TakenIn(way, offer) \in Merging
           /\ Len(TakenIn(way, offer).held) <= HostCapacity
           /\ SkippersSound(TakenIn(way, offer).held)
           /\ ~TakenIn(way, offer).broken => \A k \in DOMAIN offer : BelongsIn(way, offer[k]) =>
                  \E i \in DOMAIN TakenIn(way, offer).places : TakenIn(way, offer).places[i] = k
<1> DEFINE start == [held |-> held, places |-> <<>>, broken |-> FALSE]
           Follows(on) == on = [n \in 0..Len(offer) |->
                IF n = 0 THEN start ELSE TakeIn(way, offer, n, on[n - 1])]
           after == CHOOSE on : Follows(on)
<1>1. start \in Merging /\ start.held = held /\ start.places = <<>>
    BY DEF Merging
<1>2. MergedUpTo(way, offer, 0, start)
    BY <1>1 DEF MergedUpTo
<1>3. DOMAIN offer = 1..Len(offer) /\ Len(offer) \in Nat
    OBVIOUS
<1>4. CASE way.by = "adapter" /\ ~way.traces
  <2>1. TakenIn(way, offer) = start
      BY <1>4 DEF TakenIn
  <2>2. \A k \in DOMAIN offer : ~BelongsIn(way, offer[k])
      BY <1>4 DEF BelongsIn
  <2> HIDE DEF start
  <2> QED
      BY <1>1, <2>1, <2>2
<1>5. CASE way.by = "adapter" => way.traces
  <2>1. TakenIn(way, offer) = after[Len(offer)]
      BY <1>5 DEF TakenIn
  <2> DEFINE moved == [n \in 1..Len(offer) |-> [at \in Merging |->
                 IF MergedUpTo(way, offer, n - 1, at) THEN TakeIn(way, offer, n, at) ELSE start]]
  <2> HIDE DEF start
  <2>2. \A n \in 1..Len(offer) : \A at \in Merging : moved[n][at] \in Merging
    <3>1. ASSUME NEW n \in 1..Len(offer), NEW at \in Merging,
                 MergedUpTo(way, offer, n - 1, at)
          PROVE  TakeIn(way, offer, n, at) \in Merging
        BY <1>5, <3>1, TakingInKeeps
    <3> QED
        BY <1>1, <3>1
  <2>3. \A n \in 1..Len(offer), at \in Merging :
            moved[n][at] = IF MergedUpTo(way, offer, n - 1, at)
                               THEN TakeIn(way, offer, n, at) ELSE start
      OBVIOUS
  <2> HIDE DEF moved
  <2>a. StepsStay(Merging, Len(offer), moved)
      BY <2>2 DEF StepsStay
  <2>4. PICK on : IsTheWay(on, Merging, start, Len(offer), moved)
      BY <1>1, <1>3, <2>a, StepsAreAFunction
  <2>b. /\ on \in [0..Len(offer) -> Merging] /\ on[0] = start
        /\ \A n \in 1..Len(offer) : on[n] = moved[n][on[n - 1]]
      BY <2>4 DEF IsTheWay
  <2> DEFINE good == {n \in 0..Len(offer) : MergedUpTo(way, offer, n, on[n])}
  <2>5. 0 \in good
      BY <1>2, <1>3, <2>b
  <2>6. ASSUME NEW n \in 1..Len(offer), n - 1 \in good
        PROVE  n \in good /\ on[n] = TakeIn(way, offer, n, on[n - 1])
    <3>1. n \in 0..Len(offer) /\ n - 1 \in 0..Len(offer) /\ n # 0
        OBVIOUS
    <3>2. on[n - 1] \in Merging /\ MergedUpTo(way, offer, n - 1, on[n - 1])
        BY <2>b, <2>6, <3>1
    <3>3. on[n] = moved[n][on[n - 1]]
        BY <2>b, <3>1
    <3>4. on[n] = TakeIn(way, offer, n, on[n - 1])
        BY <2>3, <3>2, <3>3
    <3>5. MergedUpTo(way, offer, n, on[n])
        BY <1>5, <3>2, <3>4, TakingInKeeps
    <3> QED
        BY <3>1, <3>4, <3>5
  <2>7. \A n \in 0..Len(offer) : n \in good
    <3> HIDE DEF good
    <3> QED
        BY <1>3, <2>5, <2>6, CountingUp
  <2>8. Follows(on)
    <3>1. \A n \in 0..Len(offer) :
              on[n] = IF n = 0 THEN start ELSE TakeIn(way, offer, n, on[n - 1])
      <4> SUFFICES ASSUME NEW n \in 0..Len(offer)
                   PROVE  on[n] = IF n = 0 THEN start ELSE TakeIn(way, offer, n, on[n - 1])
          OBVIOUS
      <4>1. CASE n = 0
          BY <2>b, <4>1
      <4>2. CASE n # 0
        <5>1. n \in 1..Len(offer) /\ n - 1 \in good
            BY <1>3, <2>7, <4>2
        <5> QED
            BY <2>6, <4>2, <5>1
      <4> QED
          BY <4>1, <4>2
    <3>2. on = [n \in 0..Len(offer) |-> on[n]]
        BY <2>b
    <3> HIDE DEF good
    <3> QED
        BY <3>1, <3>2
  <2> HIDE DEF good
  <2>9. Follows(after)
      BY <2>8
  <2> HIDE DEF after
  <2>10. \A n \in 0..Len(offer) :
            after[n] = IF n = 0 THEN start ELSE TakeIn(way, offer, n, after[n - 1])
      BY <2>9
  <2> DEFINE same == {n \in 0..Len(offer) : after[n] = on[n]}
  <2>11. 0 \in same
      BY <1>3, <2>8, <2>10
  <2>12. ASSUME NEW n \in 1..Len(offer), n - 1 \in same
         PROVE  n \in same
    <3>1. n \in 0..Len(offer) /\ n # 0 /\ n - 1 \in 0..Len(offer)
        BY <1>3
    <3>2. after[n] = TakeIn(way, offer, n, after[n - 1])
        BY <2>10, <3>1
    <3>3. on[n] = TakeIn(way, offer, n, on[n - 1])
        BY <2>8, <3>1
    <3>4. after[n - 1] = on[n - 1]
        BY <2>12
    <3> QED
        BY <3>1, <3>2, <3>3, <3>4
  <2>13. \A n \in 0..Len(offer) : n \in same
    <3> HIDE DEF same
    <3> QED
        BY <1>3, <2>11, <2>12, CountingUp
  <2>14. Len(offer) \in 0..Len(offer)
      BY <1>3
  <2>15. after[Len(offer)] = on[Len(offer)]
      BY <2>13, <2>14
  <2>16. on[Len(offer)] \in Merging /\ MergedUpTo(way, offer, Len(offer), on[Len(offer)])
      BY <2>b, <2>7, <2>14 DEF good
  <2> QED
      BY <1>3, <2>1, <2>15, <2>16 DEF MergedUpTo
<1> QED
    BY <1>4, <1>5

(* Requests to the ledger are about answers that were merged, no two of    *)
(* them about the same from the same side, and an etch is heard of exactly *)
(* when it was committed and forwards.                                     *)
LedgerHears ==
    /\ told \in Seq([about : Nat, from : {"etch", "adapter"}])
    /\ \A i \in DOMAIN told : told[i].about \in 1..Len(merges)
    /\ \A i, j \in DOMAIN told : told[i] = told[j] => i = j
    /\ \A m \in 1..Len(merges) :
          (\E i \in DOMAIN told : told[i] = [about |-> m, from |-> "etch"])
              <=> m \in etched /\ wiring.etchForwards

OrganelleIInv ==
    /\ wiring \in Wiring /\ merges \in Seq(MergeRecord)
    /\ held \in Seq(HostTrace) /\ Len(held) <= HostCapacity /\ SkippersSound(held)
    /\ laid \in Seq(Seq(Nat)) /\ Len(laid) = Len(merges)
    /\ etched \subseteq 1..Len(merges)
    /\ CallersKnowWhatCameIn /\ EtchClosesTheAnswer /\ LedgerHears

(* One more answer: what its caller is told and which etch it has.         *)
LEMMA OneMoreAnswer ==
    ASSUME OrganelleIInv, NEW one \in MergeRecord, NEW places \in Seq(Nat), NEW closed \in BOOLEAN,
           merges' = Append(merges, one), laid' = Append(laid, places),
           etched' = IF closed THEN etched \cup {Len(merges) + 1} ELSE etched,
           IF one.told.outcome = "answered"
           THEN one.told.traces = Len(places) /\ one.told.etch = closed
           ELSE ~closed,
           closed => \A k \in DOMAIN one.offer : BelongsIn(one.way, one.offer[k]) =>
                         \E i \in DOMAIN places : places[i] = k
    PROVE  /\ merges' \in Seq(MergeRecord) /\ Len(merges') = Len(merges) + 1
           /\ laid' \in Seq(Seq(Nat)) /\ Len(laid') = Len(merges')
           /\ etched' \subseteq 1..Len(merges')
           /\ CallersKnowWhatCameIn' /\ EtchClosesTheAnswer'
<1> DEFINE last == Len(merges) + 1
<1>1. /\ merges \in Seq(MergeRecord) /\ laid \in Seq(Seq(Nat)) /\ Len(laid) = Len(merges)
      /\ etched \subseteq 1..Len(merges) /\ Len(merges) \in Nat
    BY DEF OrganelleIInv
<1>2. /\ merges' \in Seq(MergeRecord) /\ Len(merges') = last /\ merges'[last] = one
      /\ \A m \in 1..Len(merges) : merges'[m] = merges[m]
      /\ DOMAIN merges' = 1..last /\ DOMAIN merges = 1..Len(merges)
    BY <1>1, AppendProperties
<1>3. /\ laid' \in Seq(Seq(Nat)) /\ Len(laid') = last /\ laid'[last] = places
      /\ \A m \in 1..Len(merges) : laid'[m] = laid[m]
    BY <1>1, AppendProperties
<1>4. /\ \A m \in 1..Len(merges) : m \in etched' <=> m \in etched
      /\ last \in etched' <=> closed
      /\ etched' \subseteq 1..last
  <2>1. last \notin etched /\ last \in 1..last /\ last \notin 1..Len(merges)
      BY <1>1
  <2>2. \A m \in 1..Len(merges) : m \in 1..last
      BY <1>1
  <2> HIDE DEF last
  <2>3. etched' = IF closed THEN etched \cup {last} ELSE etched
      BY DEF last
  <2> QED
      BY <1>1, <2>1, <2>2, <2>3
<1>5. \A m \in 1..last : m \in 1..Len(merges) \/ m = last
    BY <1>1
<1> HIDE DEF last
<1>6. CallersKnowWhatCameIn'
  <2> SUFFICES ASSUME NEW m \in 1..last
               PROVE  IF merges'[m].told.outcome = "answered"
                      THEN merges'[m].told.traces = Len(laid'[m])
                           /\ (merges'[m].told.etch <=> m \in etched')
                      ELSE m \notin etched'
      BY <1>2 DEF CallersKnowWhatCameIn
  <2>1. CASE m \in 1..Len(merges)
      BY <1>2, <1>3, <1>4, <2>1 DEF OrganelleIInv, CallersKnowWhatCameIn
  <2>2. CASE m = last
      BY <1>2, <1>3, <1>4, <2>2
  <2> QED
      BY <1>5, <2>1, <2>2
<1>7. EtchClosesTheAnswer'
  <2> SUFFICES ASSUME NEW m \in etched', NEW n \in DOMAIN merges'[m].offer,
                      BelongsIn(merges'[m].way, merges'[m].offer[n])
               PROVE  \E i \in DOMAIN laid'[m] : laid'[m][i] = n
      BY DEF EtchClosesTheAnswer, BelongsIn
  <2>1. CASE m \in 1..Len(merges)
    <3>1. m \in etched /\ merges'[m] = merges[m] /\ laid'[m] = laid[m]
        BY <1>2, <1>3, <1>4, <2>1
    <3> QED
        BY <3>1 DEF OrganelleIInv, EtchClosesTheAnswer, BelongsIn
  <2>2. CASE m = last
    <3>1. closed /\ merges'[m] = one /\ laid'[m] = places
        BY <1>2, <1>3, <1>4, <2>2
    <3> QED
        BY <3>1
  <2> QED
      BY <1>4, <1>5, <2>1, <2>2
<1> QED
    BY <1>2, <1>3, <1>4, <1>6, <1>7 DEF last

(* What the ledger hears of one more answer, committed or not: the etch    *)
(* speaks when it was and forwards, the adapter may speak as well.         *)
LEMMA LedgerHearsOneMore ==
    ASSUME OrganelleIInv, Len(merges') = Len(merges) + 1, NEW closed \in BOOLEAN,
           NEW forwards \in BOOLEAN,
           etched' = IF closed THEN etched \cup {Len(merges) + 1} ELSE etched,
           wiring' = wiring,
           told' = told \o
               ((IF closed /\ wiring.etchForwards
                 THEN <<[about |-> Len(merges) + 1, from |-> "etch"]>> ELSE <<>>)
                \o (IF forwards THEN <<[about |-> Len(merges) + 1, from |-> "adapter"]>> ELSE <<>>))
    PROVE  LedgerHears'
<1> DEFINE Request == [about : Nat, from : {"etch", "adapter"}]
           last == Len(merges) + 1
           etch == [about |-> last, from |-> "etch"]
           adapter == [about |-> last, from |-> "adapter"]
           one == IF closed /\ wiring.etchForwards THEN <<etch>> ELSE <<>>
           two == IF forwards THEN <<adapter>> ELSE <<>>
           more == one \o two
           heard == Len(told)
<1>1. /\ merges \in Seq(MergeRecord) /\ Len(merges) \in Nat /\ told \in Seq(Request)
      /\ heard \in Nat /\ DOMAIN told = 1..heard /\ etched \subseteq 1..Len(merges)
    BY DEF OrganelleIInv, LedgerHears
<1>2. etch \in Request /\ adapter \in Request /\ etch # adapter
    BY <1>1
<1> HIDE DEF etch, adapter
<1>3. /\ one \in Seq(Request) /\ Len(one) = (IF closed /\ wiring.etchForwards THEN 1 ELSE 0)
      /\ two \in Seq(Request) /\ Len(two) = (IF forwards THEN 1 ELSE 0)
      /\ closed /\ wiring.etchForwards => one[1] = etch
      /\ forwards => two[1] = adapter
  <2>1. /\ <<etch>> \in Seq(Request) /\ Len(<<etch>>) = 1 /\ <<etch>>[1] = etch
        /\ <<adapter>> \in Seq(Request) /\ Len(<<adapter>>) = 1 /\ <<adapter>>[1] = adapter
        /\ <<>> \in Seq(Request) /\ Len(<<>>) = 0
    <3> HIDE DEF Request
    <3> QED
        BY <1>2
  <2>2. /\ closed /\ wiring.etchForwards => one = <<etch>>
        /\ ~(closed /\ wiring.etchForwards) => one = <<>>
        /\ forwards => two = <<adapter>>
        /\ ~forwards => two = <<>>
      OBVIOUS
  <2> HIDE DEF one, two, Request
  <2>3. /\ one \in Seq(Request) /\ Len(one) = (IF closed /\ wiring.etchForwards THEN 1 ELSE 0)
        /\ closed /\ wiring.etchForwards => one[1] = etch
    <3>1. CASE closed /\ wiring.etchForwards
        BY <2>1, <2>2, <3>1
    <3>2. CASE ~(closed /\ wiring.etchForwards)
        BY <2>1, <2>2, <3>2
    <3> QED
        BY <3>1, <3>2
  <2>4. /\ two \in Seq(Request) /\ Len(two) = (IF forwards THEN 1 ELSE 0)
        /\ forwards => two[1] = adapter
    <3>1. CASE forwards
        BY <2>1, <2>2, <3>1
    <3>2. CASE ~forwards
        BY <2>1, <2>2, <3>2
    <3> QED
        BY <3>1, <3>2
  <2> QED
      BY <2>3, <2>4
<1>4. /\ more \in Seq(Request)
      /\ \A k \in 1..Len(more) : more[k] \in {etch, adapter}
      /\ \A k, l \in 1..Len(more) : more[k] = more[l] => k = l
      /\ (\E k \in 1..Len(more) : more[k] = etch) <=> closed /\ wiring.etchForwards
  <2> HIDE DEF one, two, Request
  <2>1. /\ more \in Seq(Request) /\ Len(more) = Len(one) + Len(two)
        /\ \A k \in 1..(Len(one) + Len(two)) :
               more[k] = (IF k <= Len(one) THEN one[k] ELSE two[k - Len(one)])
      BY <1>3, ConcatProperties
  <2> HIDE DEF more
  <2>2. CASE closed /\ wiring.etchForwards /\ forwards
    <3>1. Len(one) = 1 /\ Len(two) = 1 /\ Len(more) = 2
        BY <1>3, <2>1, <2>2
    <3>2. more[1] = etch /\ more[2] = adapter
        BY <1>3, <2>1, <2>2, <3>1
    <3> QED
        BY <1>2, <2>1, <2>2, <3>1, <3>2
  <2>3. CASE closed /\ wiring.etchForwards /\ ~forwards
    <3>1. Len(one) = 1 /\ Len(two) = 0 /\ Len(more) = 1
        BY <1>3, <2>1, <2>3
    <3>2. more[1] = etch
        BY <1>3, <2>1, <2>3, <3>1
    <3> QED
        BY <1>2, <2>1, <2>3, <3>1, <3>2
  <2>4. CASE ~(closed /\ wiring.etchForwards) /\ forwards
    <3>1. Len(one) = 0 /\ Len(two) = 1 /\ Len(more) = 1
        BY <1>3, <2>1, <2>4
    <3>2. more[1] = adapter
        BY <1>3, <2>1, <2>4, <3>1
    <3> QED
        BY <1>2, <2>1, <2>4, <3>1, <3>2
  <2>5. CASE ~(closed /\ wiring.etchForwards) /\ ~forwards
    <3>1. Len(more) = 0
        BY <1>3, <2>1, <2>5
    <3> QED
        BY <2>1, <2>5, <3>1
  <2> QED
      BY <2>2, <2>3, <2>4, <2>5
<1>5. told' = told \o more
    BY DEF etch, adapter
<1> HIDE DEF more, one, two, Request
<1>6. /\ told' \in Seq(Request) /\ Len(told') = heard + Len(more) /\ Len(more) \in Nat
      /\ \A i \in 1..(heard + Len(more)) :
             told'[i] = (IF i <= heard THEN told[i] ELSE more[i - heard])
  <2> HIDE DEF heard
  <2>1. told \in Seq(Request) /\ more \in Seq(Request)
      BY <1>1, <1>4
  <2>2. heard = Len(told) /\ Len(more) \in Nat
      BY <1>4 DEF heard
  <2>3. /\ told \o more \in Seq(Request) /\ Len(told \o more) = heard + Len(more)
        /\ \A i \in 1..(heard + Len(more)) :
               (told \o more)[i] = (IF i <= heard THEN told[i] ELSE more[i - heard])
      BY <2>1, <2>2, ConcatProperties
  <2> QED
      BY <1>5, <2>2, <2>3
<1>7. DOMAIN told' = 1..(heard + Len(more))
    BY <1>6
<1>8. ASSUME NEW i \in 1..(heard + Len(more))
      PROVE  \/ i \in 1..heard /\ told'[i] = told[i] /\ told'[i].about \in 1..Len(merges)
             \/ /\ i - heard \in 1..Len(more) /\ told'[i] = more[i - heard]
                /\ told'[i] \in {etch, adapter}
  <2>1. CASE i <= heard
    <3>1. i \in 1..heard /\ told'[i] = told[i]
        BY <1>1, <1>6, <2>1
    <3> QED
        BY <1>1, <3>1 DEF OrganelleIInv, LedgerHears
  <2>2. CASE ~(i <= heard)
    <3>1. i - heard \in 1..Len(more)
        BY <1>1, <1>6, <2>2
    <3>2. told'[i] = more[i - heard]
        BY <1>1, <1>6, <2>2
    <3> QED
        BY <1>4, <3>1, <3>2
  <2> QED
      BY <2>1, <2>2
<1>9. \A r \in {etch, adapter} : r.about = last /\ last \notin 1..Len(merges)
    BY <1>1 DEF etch, adapter
<1>10. \A i \in DOMAIN told' : told'[i].about \in 1..last
  <2>1. \A a : a \in 1..Len(merges) \/ a = last => a \in 1..last
      BY <1>1
  <2> QED
      BY <1>7, <1>8, <1>9, <2>1
<1>11. ASSUME NEW i \in DOMAIN told', NEW j \in DOMAIN told', told'[i] = told'[j]
       PROVE  i = j
  <2>1. CASE i \in 1..heard /\ told'[i] = told[i] /\ told'[i].about \in 1..Len(merges)
    <3>0. told'[j] \notin {etch, adapter}
        BY <1>9, <1>11, <2>1
    <3>1. j \in 1..heard /\ told'[j] = told[j]
        BY <1>7, <1>8, <3>0
    <3> QED
        BY <1>1, <1>11, <2>1, <3>1 DEF OrganelleIInv, LedgerHears
  <2>2. CASE i - heard \in 1..Len(more) /\ told'[i] = more[i - heard] /\ told'[i] \in {etch, adapter}
    <3>0. told'[j].about \notin 1..Len(merges)
        BY <1>9, <1>11, <2>2
    <3>1. j - heard \in 1..Len(more) /\ told'[j] = more[j - heard]
        BY <1>7, <1>8, <3>0
    <3>2. i - heard = j - heard
        BY <1>4, <1>11, <2>2, <3>1
    <3> QED
        BY <1>1, <1>7, <3>2
  <2> QED
      BY <1>7, <1>8, <2>1, <2>2
<1>12. ASSUME NEW m \in 1..last
       PROVE  (\E i \in DOMAIN told' : told'[i] = [about |-> m, from |-> "etch"])
                  <=> m \in etched' /\ wiring.etchForwards
  <2>1. CASE m \in 1..Len(merges)
    <3>1. m # last /\ (m \in etched' <=> m \in etched)
        BY <1>1, <2>1
    <3>2. \A i \in 1..(heard + Len(more)) : told'[i] = [about |-> m, from |-> "etch"]
              => i \in 1..heard /\ told'[i] = told[i]
      <4> SUFFICES ASSUME NEW i \in 1..(heard + Len(more)),
                          told'[i] = [about |-> m, from |-> "etch"]
                   PROVE  i \in 1..heard /\ told'[i] = told[i]
          OBVIOUS
      <4>1. told'[i].about = m
        <5>1. [about |-> m, from |-> "etch"].about = m
            OBVIOUS
        <5> QED
            BY <5>1, Zenon
      <4> QED
          BY <1>8, <1>9, <3>1, <4>1
    <3>3. \A i \in 1..heard : i \in 1..(heard + Len(more))
        BY <1>1, <1>6
    <3>4. (\E i \in DOMAIN told : told[i] = [about |-> m, from |-> "etch"])
              <=> m \in etched /\ wiring.etchForwards
        BY <2>1 DEF OrganelleIInv, LedgerHears
    <3> QED
      <4>1. \A i \in 1..heard : told'[i] = told[i]
          BY <1>1, <1>6
      <4> QED
          BY <1>1, <1>7, <3>1, <3>2, <3>3, <3>4, <4>1
  <2>2. CASE m = last
    <3>1. m \in etched' <=> closed
        BY <1>1, <2>2
    <3>2. [about |-> m, from |-> "etch"] = etch
        BY <2>2 DEF etch
    <3>3. \A i \in 1..(heard + Len(more)) : told'[i] = etch
              => i - heard \in 1..Len(more) /\ more[i - heard] = etch
      <4> SUFFICES ASSUME NEW i \in 1..(heard + Len(more)), told'[i] = etch
                   PROVE  i - heard \in 1..Len(more) /\ more[i - heard] = etch
          OBVIOUS
      <4> QED
          BY <1>8, <1>9
    <3>4. \A k \in 1..Len(more) : heard + k \in 1..(heard + Len(more))
        BY <1>1, <1>6
    <3>5. (\E i \in DOMAIN told' : told'[i] = etch) <=> (\E k \in 1..Len(more) : more[k] = etch)
      <4>1. ASSUME NEW i \in DOMAIN told', told'[i] = etch
            PROVE  \E k \in 1..Len(more) : more[k] = etch
          BY <1>7, <3>3, <4>1
      <4>2. ASSUME NEW k \in 1..Len(more), more[k] = etch
            PROVE  \E i \in DOMAIN told' : told'[i] = etch
        <5>1. told'[heard + k] = more[k]
          <6>1. heard + k \in 1..(heard + Len(more)) /\ ~(heard + k <= heard)
                /\ (heard + k) - heard = k
              BY <1>1, <1>6
          <6> QED
              BY <1>6, <6>1
        <5> QED
            BY <1>7, <3>4, <4>2, <5>1
      <4> QED
          BY <4>1, <4>2
    <3> QED
        BY <1>4, <3>1, <3>2, <3>5
  <2>3. m \in 1..Len(merges) \/ m = last
      BY <1>1
  <2> QED
      BY <2>1, <2>2, <2>3
<1>13. told' \in Seq([about : Nat, from : {"etch", "adapter"}])
    BY <1>6 DEF Request
<1> QED
    BY <1>10, <1>11, <1>12, <1>13 DEF LedgerHears

(* Each step keeps the invariant.                                          *)
LEMMA OrganelleStepKeeps == OrganelleIInv /\ [OrganelleNext]_organelleVars => OrganelleIInv'
<1> SUFFICES ASSUME OrganelleIInv, [OrganelleNext]_organelleVars
             PROVE  OrganelleIInv'
    OBVIOUS
<1>1. ASSUME NEW way \in Ways, NEW offer \in Offers, Merge(offer, way)
      PROVE  OrganelleIInv'
  <2> DEFINE at == TakenIn(way, offer)
             closed == Commits(way, at)
             one == [offer |-> offer, way |-> way, told |-> Told(at, offer, closed)]
             forwards == way.by = "adapter" /\ ReachesEtch(way, at) /\ wiring.adapterForwards
  <2>1. offer \in Seq(Offered)
      BY OrganelleAssumption DEF Offered, Tensor
  <2>2. /\ at \in Merging /\ Len(at.held) <= HostCapacity /\ SkippersSound(at.held)
        /\ ~at.broken => \A k \in DOMAIN offer : BelongsIn(way, offer[k]) =>
                             \E i \in DOMAIN at.places : at.places[i] = k
    <3> HIDE DEF at
    <3>1. /\ merges \in Seq(MergeRecord) /\ held \in Seq(HostTrace)
          /\ Len(held) <= HostCapacity /\ SkippersSound(held)
        BY DEF OrganelleIInv
    <3> QED
        BY <2>1, <3>1, AnswersAreTakenIn DEF at
  <2>3. /\ merges' = Append(merges, one) /\ held' = at.held /\ laid' = Append(laid, at.places)
        /\ etched' = IF closed THEN etched \cup {Len(merges) + 1} ELSE etched
        /\ told' = told \o Requests(way, at, Len(merges) + 1) /\ wiring' = wiring
      BY <1>1 DEF Merge
  <2>4. at.places \in Seq(Nat) /\ at.held \in Seq(HostTrace) /\ at.broken \in BOOLEAN
      BY <2>2 DEF Merging
  <2> HIDE DEF at
  <2>5. closed \in BOOLEAN /\ forwards \in BOOLEAN /\ (closed => ~at.broken)
      BY DEF Commits, ReachesEtch
  <2>6. one.told = [outcome |-> IF at.broken THEN "rejected" ELSE "answered",
                    traces |-> Len(at.places), etch |-> closed]
      BY DEF Told
  <2>7. one \in MergeRecord /\ one.way = way /\ one.offer = offer
    <3>1. one.told \in [outcome : {"answered", "rejected"}, traces : Nat, etch : BOOLEAN]
      <4> HIDE DEF closed, one
      <4> QED
          BY <2>4, <2>5, <2>6
    <3> QED
        BY <2>1, <3>1 DEF MergeRecord
  <2>8. Requests(way, at, Len(merges) + 1)
            = (IF closed /\ wiring.etchForwards
               THEN <<[about |-> Len(merges) + 1, from |-> "etch"]>> ELSE <<>>)
              \o (IF forwards THEN <<[about |-> Len(merges) + 1, from |-> "adapter"]>> ELSE <<>>)
      BY DEF Requests
  <2> HIDE DEF closed, one, forwards
  <2>9. /\ merges' \in Seq(MergeRecord) /\ Len(merges') = Len(merges) + 1
        /\ laid' \in Seq(Seq(Nat)) /\ Len(laid') = Len(merges')
        /\ etched' \subseteq 1..Len(merges')
        /\ CallersKnowWhatCameIn' /\ EtchClosesTheAnswer'
    <3>1. IF one.told.outcome = "answered"
          THEN one.told.traces = Len(at.places) /\ one.told.etch = closed
          ELSE ~closed
        BY <2>4, <2>5, <2>6
    <3>2. closed => \A k \in DOMAIN one.offer : BelongsIn(one.way, one.offer[k]) =>
                        \E i \in DOMAIN at.places : at.places[i] = k
        BY <2>2, <2>5, <2>7
    <3> QED
        BY <2>3, <2>4, <2>5, <2>7, <3>1, <3>2, OneMoreAnswer
  <2>10. LedgerHears'
      BY <2>3, <2>5, <2>8, <2>9, LedgerHearsOneMore
  <2>11. wiring' \in Wiring /\ held' \in Seq(HostTrace) /\ Len(held') <= HostCapacity
      BY <2>2, <2>3, <2>4 DEF OrganelleIInv
  <2>12. SkippersSound(held)'
    <3>1. SkippersSound(held)' = SkippersSound(held')
        BY DEF SkippersSound, Resembles
    <3> QED
        BY <2>2, <2>3, <3>1
  <2> QED
      BY <2>9, <2>10, <2>11, <2>12 DEF OrganelleIInv
<1>2. ASSUME NEW way \in Ways, Ignore(way)
      PROVE  OrganelleIInv'
  <2> DEFINE one == [offer |-> <<>>, way |-> way, told |->
                        [outcome |-> IF way.strict THEN "rejected" ELSE "answered",
                         traces |-> 0, etch |-> FALSE]]
  <2>1. /\ merges' = Append(merges, one) /\ laid' = Append(laid, <<>>)
        /\ wiring' = wiring /\ held' = held /\ etched' = etched /\ told' = told
      BY <1>2 DEF Ignore
  <2>2. one \in MergeRecord
    <3>1. <<>> \in Seq(Offered)
        OBVIOUS
    <3>2. one.told \in [outcome : {"answered", "rejected"}, traces : Nat, etch : BOOLEAN]
        OBVIOUS
    <3> QED
        BY <3>1, <3>2 DEF MergeRecord
  <2>3. /\ one.told.outcome = "answered" => one.told.traces = 0 /\ one.told.etch = FALSE
        /\ <<>> \in Seq(Nat) /\ Len(<<>>) = 0
      OBVIOUS
  <2> HIDE DEF one
  <2>4. /\ merges' \in Seq(MergeRecord) /\ Len(merges') = Len(merges) + 1
        /\ laid' \in Seq(Seq(Nat)) /\ Len(laid') = Len(merges')
        /\ etched' \subseteq 1..Len(merges')
        /\ CallersKnowWhatCameIn' /\ EtchClosesTheAnswer'
      BY <2>1, <2>2, <2>3, OneMoreAnswer
  <2>5. LedgerHears'
    <3>1. told' = told \o
               ((IF FALSE /\ wiring.etchForwards
                 THEN <<[about |-> Len(merges) + 1, from |-> "etch"]>> ELSE <<>>)
                \o (IF FALSE THEN <<[about |-> Len(merges) + 1, from |-> "adapter"]>> ELSE <<>>))
      <4>1. told \in Seq([about : Nat, from : {"etch", "adapter"}])
          BY DEF OrganelleIInv, LedgerHears
      <4> QED
          BY <2>1, <4>1
    <3> QED
        BY <2>1, <2>4, <3>1, LedgerHearsOneMore
  <2>6. SkippersSound(held)'
      BY <2>1 DEF OrganelleIInv, SkippersSound, Resembles
  <2> QED
      BY <2>1, <2>4, <2>5, <2>6 DEF OrganelleIInv
<1>3. CASE UNCHANGED organelleVars
  <2>1. /\ wiring' = wiring /\ merges' = merges /\ held' = held /\ laid' = laid
        /\ etched' = etched /\ told' = told
      BY <1>3 DEF organelleVars
  <2>2. LedgerHears' /\ SkippersSound(held)'
      BY <2>1 DEF OrganelleIInv, LedgerHears, SkippersSound, Resembles
  <2>3. CallersKnowWhatCameIn' /\ EtchClosesTheAnswer'
      BY <2>1 DEF OrganelleIInv, CallersKnowWhatCameIn, EtchClosesTheAnswer
  <2> QED
      BY <2>1, <2>2, <2>3 DEF OrganelleIInv
<1> QED
    BY <1>1, <1>2, <1>3 DEF OrganelleNext

LEMMA OrganelleStarts == OrganelleInit => OrganelleIInv
<1> SUFFICES ASSUME OrganelleInit PROVE OrganelleIInv
    OBVIOUS
<1>1. /\ merges = <<>> /\ held = <<>> /\ laid = <<>> /\ etched = {} /\ told = <<>>
      /\ wiring \in Wiring
    BY DEF OrganelleInit
<1>2. /\ merges \in Seq(MergeRecord) /\ held \in Seq(HostTrace) /\ laid \in Seq(Seq(Nat))
      /\ Len(merges) = 0 /\ Len(held) = 0 /\ Len(laid) = 0
      /\ told \in Seq([about : Nat, from : {"etch", "adapter"}])
    BY <1>1
<1>3. SkippersSound(held) /\ CallersKnowWhatCameIn /\ EtchClosesTheAnswer
    BY <1>1 DEF SkippersSound, CallersKnowWhatCameIn, EtchClosesTheAnswer
<1>4. LedgerHears
    BY <1>1, <1>2 DEF LedgerHears
<1> QED
    BY <1>1, <1>2, <1>3, <1>4, OrganelleAssumption DEF OrganelleIInv

LEMMA OrganelleIInvImplies == OrganelleIInv => OrganelleInv
<1> SUFFICES ASSUME OrganelleIInv PROVE OrganelleInv
    OBVIOUS
<1>1. /\ DOMAIN merges = 1..Len(merges) /\ DOMAIN held = 1..Len(held) /\ DOMAIN told = 1..Len(told)
      /\ held \in Seq(HostTrace) /\ merges \in Seq(MergeRecord)
    BY DEF OrganelleIInv, LedgerHears
<1>2. OrganelleTypeOK
  <2>1. \A i \in DOMAIN held : held[i].tensor \in Tensor \ {"unsealable"}
    <3>1. \A i \in DOMAIN held : held[i] \in HostTrace
        BY <1>1
    <3> QED
        BY <3>1 DEF HostTrace
  <2>2. \A m \in DOMAIN merges :
            merges[m].way \in Ways /\ merges[m].told.outcome \in {"answered", "rejected"}
    <3>1. \A m \in DOMAIN merges : merges[m] \in MergeRecord
        BY <1>1
    <3> QED
        BY <3>1 DEF MergeRecord
  <2> QED
      BY <1>1, <2>1, <2>2 DEF OrganelleIInv, OrganelleTypeOK, LedgerHears
<1>3. SkippersAddNothingKnown
    BY DEF OrganelleIInv, SkippersSound, SkippersAddNothingKnown
<1>4. EtchesAreHeardOnce
  <2> DEFINE HeardOf(m, from) == {i \in DOMAIN told : told[i] = [about |-> m, from |-> from]}
  <2>1. ASSUME NEW m, NEW from
        PROVE  Cardinality(HeardOf(m, from))
                   = (IF \E i \in DOMAIN told : told[i] = [about |-> m, from |-> from] THEN 1 ELSE 0)
    <3>1. CASE HeardOf(m, from) = {}
        BY <3>1, FS_EmptySet
    <3>2. CASE HeardOf(m, from) # {}
      <4>1. PICK i \in DOMAIN told : told[i] = [about |-> m, from |-> from]
          BY <3>2
      <4>2. HeardOf(m, from) = {i}
          BY <4>1 DEF OrganelleIInv, LedgerHears
      <4>3. Cardinality({i}) = 1
          BY FS_Singleton
      <4> QED
          BY <4>1, <4>2, <4>3
    <3> QED
        BY <3>1, <3>2
  <2> HIDE DEF HeardOf
  <2>2. \A m \in DOMAIN merges :
            Cardinality(HeardOf(m, "etch")) = (IF m \in etched /\ wiring.etchForwards THEN 1 ELSE 0)
      BY <1>1, <2>1 DEF OrganelleIInv, LedgerHears
  <2>3. \A m \in DOMAIN merges : Cardinality(HeardOf(m, "adapter")) <= 1
      BY <2>1
  <2> QED
      BY <2>2, <2>3 DEF EtchesAreHeardOnce, HeardOf
<1> QED
    BY <1>2, <1>3, <1>4 DEF OrganelleIInv, OrganelleInv

(* Whatever models answer and however an answer is merged: a caller that   *)
(* is answered is told exactly what came in, one that is turned away has   *)
(* no etch; an etch closes an answer whose every wanted trace is in; with  *)
(* 'skip' nothing comes in that resembles what the host holds; and the     *)
(* ledger hears of an etch once.                                           *)
THEOREM AnswersAreMergedInFull == OrganelleSpec => []OrganelleInv
<1>1. OrganelleInit => OrganelleIInv
    BY OrganelleStarts
<1>2. OrganelleIInv /\ [OrganelleNext]_organelleVars => OrganelleIInv'
    BY OrganelleStepKeeps
<1>3. OrganelleIInv => OrganelleInv
    BY OrganelleIInvImplies
<1> QED
    BY <1>1, <1>2, <1>3, PTL DEF OrganelleSpec
=============================================================================
