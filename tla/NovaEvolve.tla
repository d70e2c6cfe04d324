------------------------------ MODULE NovaEvolve ------------------------------
(***************************************************************************)
(* NovaEvolveTuner.maybeMetaTune() (src/core/novaEvolveTuner.ts) and the   *)
(* knobs it mirrors onto a proteome.  Calls for several tasks overlap at   *)
(* the awaits of the proposal and of the dry run.  A knob has one of a few *)
(* levels; whether a projected gain reaches the threshold is open.         *)
(***************************************************************************)
EXTENDS Integers, Sequences, SequencesExt, FiniteSets, FiniteSetsExt

CONSTANTS
    Knobs, MirroredKnobs,   \* keys of the genome, and those a proteome has
    MaxLevel,               \* levels of a knob after normalizeConfig()
    Tasks,                  \* callers, each one call at a time
    MetaTuneInterval, MaxMetaDepth,
    MaxTasks                \* bound: calls

ASSUME TunerAssumption ==
    /\ MirroredKnobs \subseteq Knobs
    /\ MaxMetaDepth \in Nat /\ MaxTasks \in Nat
    /\ MaxLevel \in Nat \ {0} /\ MetaTuneInterval \in Nat \ {0}

VARIABLES
    config, mirror,     \* the genome, and the knobs of the proteome
    taskCount, metaDepth,
    decisions,          \* the meta-decisions; metaRoot commits to all of them
    tuning              \* tuning[t]: where the call of t is, with proposal and candidate

tunerVars == <<config, mirror, taskCount, metaDepth, decisions, tuning>>

Genomes == [Knobs -> 0..MaxLevel]
Proposals == [knob : Knobs, delta : {-1, 1}]
NoTuning == [at |-> "none"]
KnobsOf(genome) == [k \in MirroredKnobs |-> genome[k]]

(* applyProposal() and normalizeConfig() *)
Applied(genome, p) == [genome EXCEPT ![p.knob] = Min({MaxLevel, Max({0, @ + p.delta})})]

(* The constructor pushes the first genome to the proteome. *)
TunerInit ==
    /\ config = [k \in Knobs |-> 1]
    /\ mirror = KnobsOf(config)
    /\ taskCount = 0
    /\ metaDepth = 0
    /\ decisions = <<>>
    /\ tuning = [t \in Tasks |-> NoTuning]

(* commitDecision(): the genome before, the genome after, and the outcome. *)
Decided(accepted, p, candidate) ==
    Append(decisions, [accepted |-> accepted, proposal |-> p, old |-> config,
                       new |-> IF accepted THEN candidate ELSE config,
                       depth |-> IF accepted THEN metaDepth + 1 ELSE metaDepth])

(* A task ends: every interval-th begins to tune, at full depth with a     *)
(* decision that changes nothing, otherwise by asking for a proposal.      *)
TaskEnds(t) ==
    /\ tuning[t] = NoTuning /\ taskCount < MaxTasks
    /\ taskCount' = taskCount + 1
    /\ LET tunes == taskCount' % MetaTuneInterval = 0
           asks == tunes /\ metaDepth < MaxMetaDepth
       IN  /\ tuning' = IF asks THEN [tuning EXCEPT ![t] = [at |-> "proposing"]] ELSE tuning
           /\ decisions' = IF tunes /\ ~asks THEN Decided(FALSE, [delta |-> 0], config)
                                             ELSE decisions
    /\ UNCHANGED <<config, mirror, metaDepth>>

(* The generator answers with a supported knob; its delta is clamped. *)
ProposalComes(t) ==
    \E p \in Proposals :
        /\ tuning[t].at = "proposing"
        /\ tuning' = [tuning EXCEPT ![t] = [at |-> "projecting", proposal |-> p,
                                            candidate |-> Applied(config, p)]]
        /\ UNCHANGED <<config, mirror, taskCount, metaDepth, decisions>>

(* It fails, or names no knob: the call rejects, and nothing is recorded. *)
ProposalFails(t) ==
    /\ tuning[t].at = "proposing"
    /\ tuning' = [tuning EXCEPT ![t] = NoTuning]
    /\ UNCHANGED <<config, mirror, taskCount, metaDepth, decisions>>

(* Mutant of MayAccept: the depth is not looked at again after the awaits. *)
AcceptWhateverDepth == TRUE
MayAccept == metaDepth < MaxMetaDepth

(* Mutant of Mirrored: the knobs pushed are those of the genome replaced.  *)
MirroredOld(genome) == KnobsOf(config)
Mirrored(genome) == KnobsOf(genome)

(* The dry run answers; the rest of the call runs without an await. *)
GainComes(t) ==
    \E enough \in BOOLEAN :
        LET accepted == MayAccept /\ enough
            candidate == tuning[t].candidate
        IN  /\ tuning[t].at = "projecting"
            /\ decisions' = Decided(accepted, tuning[t].proposal, candidate)
            /\ IF accepted
               THEN /\ config' = candidate
                    /\ metaDepth' = metaDepth + 1
                    /\ mirror' = Mirrored(candidate)
               ELSE UNCHANGED <<config, metaDepth, mirror>>
            /\ tuning' = [tuning EXCEPT ![t] = NoTuning]
            /\ UNCHANGED taskCount

TunerNext ==
    \E t \in Tasks : TaskEnds(t) \/ ProposalComes(t) \/ ProposalFails(t) \/ GainComes(t)
TunerSpec == TunerInit /\ [][TunerNext]_tunerVars

-----------------------------------------------------------------------------
TunerTypeOK ==
    /\ config \in Genomes /\ mirror \in [MirroredKnobs -> 0..MaxLevel]
    /\ taskCount \in 0..MaxTasks
    /\ metaDepth \in 0..MaxMetaDepth
    /\ \A t \in Tasks : tuning[t].at \in {"none", "proposing", "projecting"}

(* Whatever calls overlapped, the decisions tell the life of the genome:   *)
(* each starts from the genome the one before it left, the last leaves the *)
(* genome in use (and on the proteome), and the depth numbers those that   *)
(* were accepted.                                                          *)
DecisionsTellTheGenome ==
    /\ \A i \in 2..Len(decisions) : decisions[i].old = decisions[i - 1].new
    /\ decisions # <<>> => config = Last(decisions).new
    /\ mirror = KnobsOf(config)
    /\ \A i \in DOMAIN decisions :
          decisions[i].depth = Cardinality({j \in 1..i : decisions[j].accepted})

(* The genome stays within its bounds, and its decisions tell its life.    *)
TunerInv == TunerTypeOK /\ DecisionsTellTheGenome
=============================================================================
