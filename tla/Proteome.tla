-------------------------------- MODULE Proteome --------------------------------
(***************************************************************************)
(* ProteomeOrchestrator (src/proteome/ProteomeOrchestrator.ts).  A step    *)
(* awaits one kernel call per dimension (one microtask on the CPU path)    *)
(* before it updates the nodes, so that steps, resets and MetaTuner's      *)
(* pokes overlap.  The numbers are terms: a node state is what it was      *)
(* computed from, and so are a random draw and a Merkle root.              *)
(***************************************************************************)
EXTENDS Naturals, Sequences, FiniteSets

CONSTANTS
    Steppers,     \* callers of step(), each one call at a time
    StateDim,
    MaxSteps,     \* bound: steps since the last reset
    MaxResets     \* bound: resets

ASSUME ProteomeAssumption == /\ StateDim \in Nat \ {0}
                             /\ MaxSteps \in Nat /\ MaxResets \in Nat

VARIABLES
    state,        \* _nodes: energies and states, as one term
    draws,        \* how often _rand was drawn from since it was seeded
    stepCount,
    merkleRoot,   \* _merkleRoot: the sequence of what its chain commits to
    knob,         \* homeostasis and mutationTemperature: 0 is the configured value
    step,         \* step[c]: the call of c, with the knob it read and its aggregates
    resets,       \* bookkeeping: resets so far
    lone          \* bookkeeping: since the last reset, steps ran alone and unpoked

proteomeVars == <<state, draws, stepCount, merkleRoot, knob, step, resets, lone>>

Seeded == <<"seed">>
NoStep == [under |-> FALSE, knob |-> 0, aggregates |-> <<>>]
Under == {c \in Steppers : step[c].under}

ProteomeInit ==
    /\ state = Seeded
    /\ draws = 0
    /\ stepCount = 0
    /\ merkleRoot = <<>>
    /\ knob = 0
    /\ step = [c \in Steppers |-> NoStep]
    /\ resets = 0
    /\ lone = TRUE

(* MetaTuner writes a knob. *)
Poke ==
    /\ knob = 0
    /\ knob' = 1
    /\ lone' = FALSE
    /\ UNCHANGED <<state, draws, stepCount, merkleRoot, step, resets>>

(* step() up to its first await: the knobs are read, then dimension 0. *)
BeginStep(c) ==
    /\ ~step[c].under
    /\ step' = [step EXCEPT ![c] = [under |-> TRUE, knob |-> knob, aggregates |-> <<state>>]]
    /\ lone' = (lone /\ Under = {})
    /\ UNCHANGED <<state, draws, stepCount, merkleRoot, knob, resets>>

(* A kernel call answers, and the next dimension is read from the nodes. *)
NextDimension(c) ==
    /\ step[c].under /\ Len(step[c].aggregates) < StateDim
    /\ step' = [step EXCEPT ![c].aggregates = Append(@, state)]
    /\ UNCHANGED <<state, draws, stepCount, merkleRoot, knob, resets, lone>>

(* A kernel call throws: step() rejects before it changed anything. *)
StepFails(c) ==
    /\ step[c].under
    /\ step' = [step EXCEPT ![c] = NoStep]
    /\ UNCHANGED <<state, draws, stepCount, merkleRoot, knob, resets, lone>>

(* Mutant of Sealed: sealed before the step was counted. *)
SealedUncounted(new) == Append(merkleRoot, [step |-> stepCount, state |-> new])

(* The new root: parent, step and nodes. *)
Sealed(new) == Append(merkleRoot, [step |-> stepCount + 1, state |-> new])

(* The rest of the step, in one go: payoffs and nodes, count and root. *)
Evolved(c) == <<state, step[c].aggregates, step[c].knob, draws>>
EndStep(c) ==
    /\ step[c].under /\ Len(step[c].aggregates) = StateDim
    /\ stepCount < MaxSteps
    /\ state' = Evolved(c)
    /\ draws' = draws + 1
    /\ stepCount' = stepCount + 1
    /\ merkleRoot' = Sealed(Evolved(c))
    /\ step' = [step EXCEPT ![c] = NoStep]
    /\ UNCHANGED <<knob, resets, lone>>

(* Mutant of DrawsAfterReset: the generator is not seeded again. *)
DrawsKept == draws
DrawsAfterReset == 0

(* reset(): a step under way goes on, with the aggregates it holds. *)
Reset ==
    /\ resets < MaxResets
    /\ state' = Seeded
    /\ draws' = DrawsAfterReset
    /\ stepCount' = 0
    /\ merkleRoot' = <<>>
    /\ knob' = 0
    /\ resets' = resets + 1
    /\ lone' = (Under = {})
    /\ UNCHANGED step

ProteomeNext ==
    \/ Poke \/ Reset
    \/ \E c \in Steppers : BeginStep(c) \/ NextDimension(c) \/ StepFails(c) \/ EndStep(c)
ProteomeSpec == ProteomeInit /\ [][ProteomeNext]_proteomeVars

-----------------------------------------------------------------------------
ProteomeTypeOK ==
    /\ stepCount \in 0..MaxSteps /\ resets \in 0..MaxResets /\ knob \in 0..1
    /\ \A c \in Steppers : Len(step[c].aggregates) <= StateDim
                           /\ step[c].under <=> step[c].aggregates # <<>>

(* However steps and resets overlap, the root commits to every step since  *)
(* the last reset, once each and in order, and to the nodes as they are.   *)
RootCommitsToSteps ==
    /\ Len(merkleRoot) = stepCount
    /\ \A i \in 1..stepCount : merkleRoot[i].step = i
    /\ stepCount > 0 => merkleRoot[stepCount].state = state
    /\ \A i \in 2..stepCount : merkleRoot[i].state[1] = merkleRoot[i - 1].state

(* The nodes after n steps, and what they are when the n-th of them ran    *)
(* alone from nodes, and unpoked.                                          *)
NodesAfter(n) == IF n = 0 THEN Seeded ELSE merkleRoot[n].state
ByLoneStep(nodes, n) == <<nodes, [d \in 1..StateDim |-> nodes], 0, n - 1>>

(* Steps that ran alone since a reset reach the nodes that the seed and    *)
(* their number determine, whatever ran, failed or was poked before it.    *)
LoneStepsReplay ==
    lone => /\ state = NodesAfter(stepCount)
            /\ \A n \in 1..stepCount : NodesAfter(n) = ByLoneStep(NodesAfter(n - 1), n)

(* The root tells the steps there were, and lone steps can be replayed.    *)
ProteomeInv == ProteomeTypeOK /\ RootCommitsToSteps /\ LoneStepsReplay
=============================================================================
