-------------------------------- MODULE HotPath --------------------------------
(***************************************************************************)
(* HotPathRouter in front of an accelerator (src/hardware/hotPathRouter.ts,*)
(* Accelerator.ts, orchestratorIntegration.ts): the resolver picks the     *)
(* accelerator, CUDAProvider asks the GPU service and falls back to the    *)
(* CPU, and the router chains an entry for every answer.  A chain hash is  *)
(* modelled by what it is a digest of: its parent and its own entry.       *)
(***************************************************************************)
EXTENDS Naturals, Sequences, FiniteSets, SequencesExt

CONSTANTS
    Calls,      \* dispatch() calls that may overlap
    MaxCalls    \* bound: calls ever made

ASSUME HotPathAssumption == MaxCalls \in Nat

VARIABLES
    hardwareConfig,     \* the declared configuration, the environment and the resolver
    call,       \* call[c]: where a dispatch is
    gpuWork,    \* calls whose payload the GPU service has computed
    entries,    \* the log of the router
    chainHead, fallbacks,
    calls, answers  \* calls so far; what each answer was (history)

hotPathVars == <<hardwareConfig, call, gpuWork, entries, chainHead, fallbacks, calls, answers>>

NotCalled == [at |-> "idle"]
Config == [useCUDA : BOOLEAN, provider : {"microservice", "onnx", "native"},
           cpuForced : BOOLEAN, visible : BOOLEAN, sync : BOOLEAN]

(* detectCUDA(): forced off, seen by the probe or the environment, or not. *)
Detects(c) == ~c.cpuForced /\ c.visible

(* resolveHardwareLayer() and resolveHardwareLayerSync(): the accelerator  *)
(* is asked for unless the configuration keeps CUDA off or in the process. *)
Mode(c) ==
    IF /\ c.useCUDA
       /\ IF c.sync THEN c.provider = "microservice"
          ELSE c.provider # "onnx" /\ Detects(c)
    THEN "cuda" ELSE "cpu"

Answer == [of : 1..MaxCalls, on : {"cpu", "gpu", "echo"}, fallback : BOOLEAN]

HotPathTypeOK ==
    /\ hardwareConfig \in Config
    /\ \A c \in Calls : call[c].at \in {"idle", "asking", "answered"}
    /\ gpuWork \subseteq 1..MaxCalls
    /\ entries \in Seq([answer : Answer, hash : Seq(Answer)])
    /\ chainHead \in Seq(Answer) /\ fallbacks \in 0..MaxCalls /\ calls \in 0..MaxCalls
    /\ answers \subseteq Answer

HotPathInit ==
    /\ hardwareConfig \in Config
    /\ call = [c \in Calls |-> NotCalled]
    /\ gpuWork = {} /\ entries = <<>> /\ chainHead = <<>> /\ fallbacks = 0
    /\ calls = 0 /\ answers = {}

-----------------------------------------------------------------------------
(* Mutant of ParentFor: the parent is the head when the call was made. *)
ParentWhenCalled(c) == call[c].head
ParentFor(c) == chainHead

(* dispatch(), after the answer is there: chain, count and log it. *)
Log(parent, a) ==
    LET hash == Append(parent, a)
    IN  /\ chainHead' = hash
        /\ entries' = Append(entries, [answer |-> a, hash |-> hash])
        /\ fallbacks' = fallbacks + (IF a.fallback /\ Mode(hardwareConfig) = "cuda" THEN 1 ELSE 0)
        /\ answers' = answers \cup {a}

(* dispatch() on the CPU computes with the reference kernel at once. *)
DispatchCPU ==
    /\ Mode(hardwareConfig) = "cpu" /\ calls < MaxCalls
    /\ calls' = calls + 1
    /\ Log(chainHead, [of |-> calls + 1, on |-> "cpu", fallback |-> TRUE])
    /\ UNCHANGED <<hardwareConfig, call, gpuWork>>

(* dispatch() on CUDA asks the service and waits. *)
DispatchCUDA(c) ==
    /\ Mode(hardwareConfig) = "cuda" /\ call[c] = NotCalled /\ calls < MaxCalls
    /\ calls' = calls + 1
    /\ call' = [call EXCEPT ![c] = [at |-> "asking", of |-> calls + 1, head |-> chainHead]]
    /\ UNCHANGED <<hardwareConfig, gpuWork, entries, chainHead, fallbacks, answers>>

(* The service computes the payload of a call it was asked for. *)
Compute(c) ==
    /\ call[c].at = "asking"
    /\ gpuWork' = gpuWork \cup {call[c].of}
    /\ UNCHANGED <<hardwareConfig, call, entries, chainHead, fallbacks, calls, answers>>

Answered(c, a) ==
    /\ call' = [call EXCEPT ![c] = [at |-> "answered", of |-> a.of, head |-> @.head, answer |-> a]]
    /\ UNCHANGED <<hardwareConfig, gpuWork, entries, chainHead, fallbacks, calls, answers>>

(* The answer of the service arrives in time. *)
ServiceAnswers(c) ==
    /\ call[c].at = "asking" /\ call[c].of \in gpuWork
    /\ Answered(c, [of |-> call[c].of, on |-> "gpu", fallback |-> FALSE])

(* Mutant of FallbackAnswer: the provenance of the GPU is attached to it. *)
UnmarkedFallback(c) == [of |-> call[c].of, on |-> "echo", fallback |-> FALSE]

(* CPUFallback.accelerate() seals the payload it was given as the result:  *)
(* nothing computes it.                                                    *)
FallbackAnswer(c) == [of |-> call[c].of, on |-> "echo", fallback |-> TRUE]

(* The timeout, an HTTP error or an unreadable answer, after the service   *)
(* did the work or before.                                                 *)
FallBackToCPU(c) ==
    /\ call[c].at = "asking"
    /\ Answered(c, FallbackAnswer(c))

(* dispatch() resumes. *)
Resume(c) ==
    /\ call[c].at = "answered"
    /\ Log(ParentFor(c), call[c].answer)
    /\ call' = [call EXCEPT ![c] = NotCalled]
    /\ UNCHANGED <<hardwareConfig, gpuWork, calls>>

HotPathNext ==
    \/ DispatchCPU
    \/ \E c \in Calls : \/ DispatchCUDA(c) \/ Compute(c) \/ ServiceAnswers(c)
                        \/ FallBackToCPU(c) \/ Resume(c)

HotPathSpec == HotPathInit /\ [][HotPathNext]_hotPathVars

-----------------------------------------------------------------------------
(* Properties. *)

(* "one Merkle-chained log": whatever order overlapping calls are answered *)
(* in, each entry is chained to the one logged before it, no call is       *)
(* logged twice, and the root is the hash of the last entry.               *)
OneChain ==
    /\ \A i \in DOMAIN entries :
        /\ entries[i].hash = [j \in 1..i |-> entries[j].answer]
        /\ \A j \in 1..(i - 1) : entries[j].answer.of # entries[i].answer.of
    /\ chainHead = IF entries = <<>> THEN <<>> ELSE Last(entries).hash

(* An answer that nothing computed is marked as a fallback, and one that   *)
(* is not was computed by the service for this call; the counter of        *)
(* fallbacks counts them all.                                              *)
UncomputedIsMarked ==
    /\ \A a \in answers : ~a.fallback => a.on = "gpu" /\ a.of \in gpuWork
    /\ Mode(hardwareConfig) = "cuda" =>
            fallbacks = Cardinality({a \in answers : a.on = "echo"})

(* One chain holds every answer once, and no uncomputed answer unmarked.   *)
HotPathInv == HotPathTypeOK /\ OneChain /\ UncomputedIsMarked
=============================================================================
