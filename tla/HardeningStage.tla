------------------------------ MODULE HardeningStage ------------------------------
(***************************************************************************)
(* MCOPHardeningBootstrapper (src/telemetry): pipeline stages that record  *)
(* a telemetry sample, read the substrate, evolve and commit the Peircean  *)
(* matrix and, when instability persists, commit a signed reset block and  *)
(* emit an attenuation mask.  Stages of one bootstrapper may overlap: they *)
(* share the burn-in counter, the matrix version and the ledger, and await *)
(* the bridge between reading and using them.  The ledger behind the       *)
(* SubstrateAdapter is its list of blocks; a block's hash is its place     *)
(* among the blocks ever made, 0 the zero hash.                            *)
(***************************************************************************)
EXTENDS Naturals, Sequences, FiniteSets, SequencesExt

CONSTANTS
    Stages,               \* commitPipelineStageExecution() calls that may overlap
    PersistenceThreshold,
    MaxWork               \* bound: stages ever begun and policies ever committed

ASSUME HardeningAssumption ==
    PersistenceThreshold \in Nat \ {0} /\ MaxWork \in Nat

VARIABLES
    counter,       \* persistenceCounter of the BurnInTraceStore
    version, tip,  \* currentVersion and currentVersionHash of the registry
    blocks,        \* the blocks in the ledger
    made,          \* blocks made so far: the source of hashes
    stage,         \* stage[s]: where the call is, and what it holds
    masks,         \* blocks a mask was emitted for
    begun, policies,
    alone          \* stages never overlapped and nothing was refused (history)

hardeningVars == <<counter, version, tip, blocks, made, stage, masks, begun, policies, alone>>

ZeroHash == 0
NotRunning == [at |-> "none"]
Block == [kind : {"policy"}, hash : Nat]
   \cup [kind : {"matrix"}, hash : Nat, version : Nat, parent : Nat]
   \cup [kind : {"reset"}, hash : Nat, previous : Nat, count : Nat, own : Nat]

HardeningTypeOK ==
    /\ {counter, version, tip, made} \subseteq Nat
    /\ blocks \in Seq(Block)
    /\ masks \subseteq Nat
    /\ {begun, policies} \subseteq Nat /\ begun + policies <= MaxWork /\ alone \in BOOLEAN
    /\ \A s \in Stages :
        stage[s].at \in {"none", "reading", "read", "evolving", "evolved", "resetting", "reset"}

HardeningInit ==
    /\ counter = 0 /\ version = 0 /\ tip = ZeroHash
    /\ blocks = <<>> /\ made = 0 /\ masks = {}
    /\ stage = [s \in Stages |-> NotRunning]
    /\ begun = 0 /\ policies = 0 /\ alone = TRUE

HeadHash == IF blocks = <<>> THEN ZeroHash ELSE Last(blocks).hash
MoveTo(s, changes) == stage' = [stage EXCEPT ![s] = changes]

-----------------------------------------------------------------------------
(* commitStructuralConfiguration() *)
CommitPolicy ==
    /\ begun + policies < MaxWork
    /\ policies' = policies + 1
    /\ made' = made + 1
    /\ blocks' = Append(blocks, [kind |-> "policy", hash |-> made + 1])
    /\ UNCHANGED <<counter, version, tip, stage, masks, begun, alone>>

(* BurnInTraceStore.record(): the sample reaches the instability floor, or *)
(* it does not and the counter starts again.                               *)
BeginStage(s) ==
    /\ stage[s] = NotRunning /\ begun + policies < MaxWork
    /\ begun' = begun + 1
    /\ counter' \in {counter + 1, 0}
    /\ MoveTo(s, [at |-> "reading"])
    /\ alone' = (alone /\ \A o \in Stages : stage[o] = NotRunning)
    /\ UNCHANGED <<version, tip, blocks, made, masks, policies>>

(* getLedgerHeadHash(), the zero hash when it throws. *)
ReadSubstrate(s) ==
    /\ stage[s].at = "reading"
    /\ \E head \in {HeadHash, ZeroHash} : MoveTo(s, [at |-> "read", head |-> head])
    /\ UNCHANGED <<counter, version, tip, blocks, made, masks, begun, policies, alone>>

(* evolveAndCommit(), until the bridge is awaited: the weights and the     *)
(* version have moved on.                                                  *)
Evolve(s) ==
    /\ stage[s].at = "read"
    /\ version' = version + 1
    /\ made' = made + 1
    /\ MoveTo(s, [at |-> "evolving", head |-> stage[s].head,
                  block |-> [kind |-> "matrix", hash |-> made + 1, version |-> version + 1,
                             parent |-> tip]])
    /\ UNCHANGED <<counter, tip, blocks, masks, begun, policies, alone>>

(* commitBlock(): the ledger takes the block ... *)
LedgerTakes(s) ==
    /\ stage[s].at \in {"evolving", "resetting"}
    /\ blocks' = Append(blocks, stage[s].block)
    /\ MoveTo(s, [stage[s] EXCEPT !.at = IF @ = "evolving" THEN "evolved" ELSE "reset"])
    /\ UNCHANGED <<counter, version, tip, made, masks, begun, policies, alone>>

(* ... or throws, and so does the stage. *)
LedgerRefuses(s) ==
    /\ stage[s].at \in {"evolving", "resetting"}
    /\ MoveTo(s, NotRunning)
    /\ alone' = FALSE
    /\ UNCHANGED <<counter, version, tip, blocks, made, masks, begun, policies>>

(* Mutant of ResetBlock: the counter is read before the awaits. *)
ResetBlockOf(s) ==
    [kind |-> "reset", hash |-> made + 1, previous |-> HeadHash, count |-> counter,
     own |-> stage[s].block.hash]

(* createSignedResetBlock(): the head that was read before the evolution   *)
(* and the counter as it is now.                                           *)
ResetBlock(s) ==
    [kind |-> "reset", hash |-> made + 1, previous |-> stage[s].head, count |-> counter,
     own |-> stage[s].block.hash]

(* Mutant of ResetRecommended: off by one. *)
ResetRecommendedEarly == counter + 1 >= PersistenceThreshold

ResetRecommended == counter >= PersistenceThreshold

(* Mutant of NextTip: the tip never moves. *)
NextTipNever(s) == tip
NextTip(s) == stage[s].block.hash

(* The stage resumes: its block is the tip, and the burn-in store is asked *)
(* whether the instability persists.                                       *)
EvolutionCommitted(s) ==
    /\ stage[s].at = "evolved"
    /\ tip' = NextTip(s)
    /\ IF ResetRecommended
       THEN /\ made' = made + 1
            /\ MoveTo(s, [at |-> "resetting", block |-> ResetBlock(s)])
       ELSE MoveTo(s, NotRunning) /\ UNCHANGED made
    /\ UNCHANGED <<counter, version, blocks, masks, begun, policies, alone>>

(* Mutant of MaskPhases: the mask is emitted while the ledger is awaited. *)
MaskPhasesEarly == {"resetting", "reset"}
MaskPhases == {"reset"}

(* emitAttenuationMask(): the substrate takes the mask or throws. *)
EmitMask(s) ==
    /\ stage[s].at \in MaskPhases
    /\ masks' \in {masks, masks \cup {stage[s].block.hash}}
    /\ MoveTo(s, NotRunning)
    /\ UNCHANGED <<counter, version, tip, blocks, made, begun, policies, alone>>

HardeningNext ==
    \/ CommitPolicy
    \/ \E s \in Stages : \/ BeginStage(s) \/ ReadSubstrate(s) \/ Evolve(s) \/ LedgerTakes(s)
                         \/ LedgerRefuses(s) \/ EvolutionCommitted(s) \/ EmitMask(s)

HardeningSpec == HardeningInit /\ [][HardeningNext]_hardeningVars

-----------------------------------------------------------------------------
(* Properties. *)

MatrixAt == {i \in DOMAIN blocks : blocks[i].kind = "matrix"}

(* The last evolution in the ledger has hash h and version v; without one  *)
(* it is the zero hash and version 0.                                      *)
LastEvolution(places, h, v) ==
    \/ places = {} /\ h = ZeroHash /\ v = 0
    \/ \E j \in places : /\ \A k \in places : k <= j
                         /\ blocks[j].hash = h /\ blocks[j].version = v

(* The committed evolutions form a tree below the zero hash, whatever      *)
(* stages overlap or fail: a parent was committed before, with a lower     *)
(* version.  While stages run one at a time and nothing is refused the     *)
(* tree is a chain without a gap in the versions.                          *)
EvolutionsFormTree ==
    \A i \in MatrixAt :
        LET earlier == {j \in MatrixAt : j < i}
        IN  /\ \/ blocks[i].parent = ZeroHash
               \/ \E j \in earlier : /\ blocks[j].hash = blocks[i].parent
                                     /\ blocks[j].version < blocks[i].version
            /\ alone => LastEvolution(earlier, blocks[i].parent, blocks[i].version - 1)

(* A reset block names persistence that reached the threshold, although    *)
(* other stages move the counter while the stage awaits the ledger, and    *)
(* the etch it points at is older than its own evolution: never the head   *)
(* the reset is appended to.                                               *)
ResetsAreEarnedAndLate ==
    \A i \in DOMAIN blocks : blocks[i].kind = "reset" =>
        /\ blocks[i].count >= PersistenceThreshold
        /\ \E j \in 1..(i - 1) : blocks[j].hash = blocks[i].own
        /\ \/ blocks[i].previous = ZeroHash
           \/ \E k, j \in 1..(i - 1) : /\ k < j /\ blocks[j].hash = blocks[i].own
                                       /\ blocks[k].hash = blocks[i].previous

(* A mask attenuates the substrate only for a reset the ledger holds.      *)
MasksHaveBlocks ==
    \A h \in masks : \E i \in DOMAIN blocks : blocks[i].kind = "reset" /\ blocks[i].hash = h

(* Evolutions form a tree, resets are earned, masks rest on resets.        *)
HardeningInv ==
    HardeningTypeOK /\ EvolutionsFormTree /\ ResetsAreEarnedAndLate /\ MasksHaveBlocks
=============================================================================
