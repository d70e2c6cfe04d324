----------------------------- MODULE HardwareLayer -----------------------------
(***************************************************************************)
(* CUDAHardwareLayer (src/hardware/CUDAHardwareLayer.ts): one ONNX session *)
(* for each kernel, runs that are verified by the profile of their         *)
(* session, and a bounded log of provenance.  loadKernels() and            *)
(* accelerate() await, so calls overlap; every run of a kernel uses the    *)
(* same session, and a session has one profile.                            *)
(***************************************************************************)
EXTENDS Naturals, Sequences, SequencesExt

CONSTANTS
    KernelOps,     \* the kernels, in the order they are loaded
    Loads,         \* loadKernels() calls that may overlap
    Runs,          \* accelerate() calls that may overlap
    SinkCapacity,  \* capacity of the provenance sink
    MaxSessions,   \* bound: sessions ever created
    MaxRuns        \* bound: runs ever started

ASSUME HardwareAssumption ==
    /\ KernelOps \in Seq(STRING) /\ KernelOps # <<>>
    /\ SinkCapacity \in Nat \ {0} /\ {MaxSessions, MaxRuns} \subseteq Nat

VARIABLES
    session,    \* session[op]: the session of a kernel, Unset when not loaded
    created,    \* sessions created so far
    loaded,
    load,       \* load[l]: how many kernels the call has loaded, Unset when it does not run
    profile,    \* profile[s]: providers seen by the profiler since it was last read
    run,        \* run[r]: where the call is, what it uses and what it did (part history)
    started, logged, \* runs started, provenance entries ever appended
    sink,       \* the entries the provenance sink keeps
    returned    \* entries whose result reached the caller (history)

hardwareVars == <<session, created, loaded, load, profile, run, started, logged, sink, returned>>

Unset == 0
Idle == [at |-> "idle"]
Provider == {"cuda", "cpu"}
Kernels == Range(KernelOps)
LoadIndex == 1..(Len(KernelOps) + 1)

HardwareTypeOK ==
    /\ session \in [Kernels -> 0..MaxSessions] /\ created \in 0..MaxSessions
    /\ loaded \in BOOLEAN /\ load \in [Loads -> {Unset} \cup LoadIndex]
    /\ profile \in [1..MaxSessions -> SUBSET Provider]
    /\ \A r \in Runs : run[r].at \in {"idle", "running", "sealing"}
    /\ started \in 0..MaxRuns /\ logged \in 0..MaxRuns
    /\ sink \in Seq(1..MaxRuns) /\ returned \subseteq 1..MaxRuns

HardwareInit ==
    /\ session = [op \in Kernels |-> Unset] /\ created = 0
    /\ loaded = FALSE /\ load = [l \in Loads |-> Unset]
    /\ profile = [s \in 1..MaxSessions |-> {}]
    /\ run = [r \in Runs |-> Idle]
    /\ started = 0 /\ logged = 0 /\ sink = <<>> /\ returned = {}

-----------------------------------------------------------------------------
(* loadKernels(): nothing once every kernel is loaded; while a call still  *)
(* loads them, another call loads them too.                                *)
BeginLoad(l) ==
    /\ load[l] = Unset /\ ~loaded
    /\ load' = [load EXCEPT ![l] = 1]
    /\ UNCHANGED <<session, created, loaded, profile, run, started, logged, sink, returned>>

(* The session of the next kernel is created and takes its place. *)
CreateSession(l) ==
    /\ load[l] \in DOMAIN KernelOps
    /\ created < MaxSessions
    /\ created' = created + 1
    /\ session' = [session EXCEPT ![KernelOps[load[l]]] = created + 1]
    /\ load' = [load EXCEPT ![l] = @ + 1]
    /\ UNCHANGED <<loaded, profile, run, started, logged, sink, returned>>

(* The session cannot be created: the call throws, and what it loaded stays. *)
LoadFails(l) ==
    /\ load[l] \in DOMAIN KernelOps
    /\ load' = [load EXCEPT ![l] = Unset]
    /\ UNCHANGED <<session, created, loaded, profile, run, started, logged, sink, returned>>

(* Mutant of AllCreated: the flag is set before the last session exists. *)
AllButLast(l) == load[l] >= Len(KernelOps)
AllCreated(l) == load[l] > Len(KernelOps)

EndLoad(l) ==
    /\ AllCreated(l)
    /\ loaded' = TRUE
    /\ load' = [load EXCEPT ![l] = Unset]
    /\ UNCHANGED <<session, created, profile, run, started, logged, sink, returned>>

-----------------------------------------------------------------------------
(* accelerate(), to the await of session.run(): the run keeps the session  *)
(* it found, whatever a load puts in its place.  `clean` notes whether the *)
(* run has the profile of the session to itself.                           *)
Using(s) == {r \in Runs : run[r].at = "running" /\ run[r].session = s}

BeginRun(r, op) ==
    /\ run[r] = Idle /\ session[op] # Unset /\ started < MaxRuns
    /\ started' = started + 1
    /\ LET s == session[op]
           clean == Using(s) = {} /\ profile[s] = {}
       IN  run' = [q \in Runs |->
                    CASE q = r -> [at |-> "running", session |-> s, on |-> {}, clean |-> clean]
                      [] q \in Using(s) -> [run[q] EXCEPT !.clean = FALSE]
                      [] OTHER -> run[q]]
    /\ UNCHANGED <<session, created, loaded, load, profile, logged, sink, returned>>

(* A node of the run's graph executes on a provider (ONNX assigns nodes to *)
(* providers one by one), and the profiler of the session records it.      *)
ExecuteNode(r, p) ==
    /\ run[r].at = "running"
    /\ run' = [run EXCEPT ![r].on = @ \cup {p}]
    /\ profile' = [profile EXCEPT ![run[r].session] = @ \cup {p}]
    /\ UNCHANGED <<session, created, loaded, load, started, logged, sink, returned>>

(* Mutant of OnCUDA: a profile that names no provider passes. *)
NotOnCPU(providers) == "cuda" \in providers \/ "cpu" \notin providers

(* parseExecutionProvider(): any event on CUDA makes it CUDA; an empty     *)
(* profile is unknown.                                                     *)
OnCUDA(providers) == "cuda" \in providers

(* session.run() resolves; endProfiling() hands over the profile of the    *)
(* session.  A profile that is not CUDA's throws GhostGPUError.            *)
EndRun(r) ==
    /\ run[r].at = "running"
    /\ profile' = [profile EXCEPT ![run[r].session] = {}]
    /\ IF OnCUDA(profile[run[r].session])
       THEN run' = [run EXCEPT ![r].at = "sealing"]
       ELSE run' = [run EXCEPT ![r] = Idle]
    /\ UNCHANGED <<session, created, loaded, load, started, logged, sink, returned>>

(* session.run() rejects: the profile is not read. *)
RunFails(r) ==
    /\ run[r].at = "running"
    /\ run' = [run EXCEPT ![r] = Idle]
    /\ UNCHANGED <<session, created, loaded, load, profile, started, logged, sink, returned>>

(* Mutant of Kept: the ring evicts one entry too early. *)
KeptOneLess(entries) == IF Len(entries) >= SinkCapacity THEN Tail(entries) ELSE entries

(* InMemoryProvenanceSink.append() *)
Kept(entries) == IF Len(entries) > SinkCapacity THEN Tail(entries) ELSE entries

(* The provenance is appended and the result returned ... *)
SealRun(r) ==
    /\ run[r].at = "sealing"
    /\ logged' = logged + 1
    /\ sink' = Kept(Append(sink, logged + 1))
    /\ returned' = returned \cup {logged + 1}
    /\ run' = [run EXCEPT ![r] = Idle]
    /\ UNCHANGED <<session, created, loaded, load, profile, started>>

(* ... or the sink throws, and the result of the run is lost with it. *)
SinkFails(r) ==
    /\ run[r].at = "sealing"
    /\ run' = [run EXCEPT ![r] = Idle]
    /\ UNCHANGED <<session, created, loaded, load, profile, started, logged, sink, returned>>

HardwareNext ==
    \/ \E l \in Loads : BeginLoad(l) \/ CreateSession(l) \/ LoadFails(l) \/ EndLoad(l)
    \/ \E r \in Runs : \/ \E op \in Kernels : BeginRun(r, op)
                       \/ \E p \in Provider : ExecuteNode(r, p)
                       \/ EndRun(r) \/ RunFails(r) \/ SealRun(r) \/ SinkFails(r)

HardwareSpec == HardwareInit /\ [][HardwareNext]_hardwareVars

-----------------------------------------------------------------------------
(* Properties. *)

(* However loads overlap and fail, the layer counts as loaded only when    *)
(* every kernel has a session.                                             *)
LoadedMeansEveryKernel == loaded => \A op \in Kernels : session[op] # Unset

(* "guards the Lamarckian hardware-evolution log against ghost-GPU         *)
(* poisoning" (lines 454-460): a run whose provenance is sealed as CUDA    *)
(* had a node on CUDA, as long as no other run used its session meanwhile  *)
(* and no failed run left its events in the profile.                       *)
LoneRunsAreVerified ==
    \A r \in Runs : run[r].at = "sealing" /\ run[r].clean => "cuda" \in run[r].on

(* The audit tail holds the latest returned results, none missing.         *)
SinkHoldsLatest ==
    \A k \in returned : k > logged - SinkCapacity => k \in Range(sink)

(* A layer that counts as loaded has every kernel, a lone run that is      *)
(* sealed ran on CUDA, and the latest results have their provenance.       *)
HardwareInv ==
    HardwareTypeOK /\ LoadedMeansEveryKernel /\ LoneRunsAreVerified /\ SinkHoldsLatest
=============================================================================
