---------------------------- MODULE EfficacyProgram ----------------------------
(***************************************************************************)
(* One run of the pre-registered efficacy program (src/efficacy/): the     *)
(* gates, the systems' outputs, the raters' marks, one await each, and the *)
(* verdict.  The caller holds the sealed protocol all the while; only the  *)
(* part of it that decides, the rule, is modelled.  Percentages stand for  *)
(* the fractions of the code.                                              *)
(***************************************************************************)
EXTENDS Integers, Sequences, SequencesExt, FiniteSets, FiniteSetsExt

CONSTANTS
    HeldOut,        \* number of tasks behind the barrier
    Treatments, Controls,   \* number of systems of each arm
    Judges,         \* number of raters
    Marks,          \* what a rater may give
    Floors, Deltas, Directions,     \* the rules a protocol may decide by
    NoVerdict,
    MaxProtocolMoves    \* bound: changes of the protocol by its holder

ASSUME EfficacyAssumption ==
    /\ {HeldOut, Treatments, Controls} \subseteq Nat \ {0}
    /\ Judges \in 2..3 /\ Marks \subseteq Nat /\ MaxProtocolMoves \in Nat
    /\ Floors \subseteq -100..100 /\ Deltas \subseteq 0..100
    /\ Directions \subseteq {"treatment-greater", "control-greater", "two-sided"}

VARIABLES
    sealedRule,     \* the rule that was hashed
    rule,           \* the rule the protocol object holds
    committed,      \* is the vault the one the protocol commits to?
    sealedFirst,    \* was it sealed before the run?
    observed,       \* the tuner's context that is handed in
    flaws,          \* protocol violations and leaks found, {} before the run
    gated,
    outputs,        \* outputs produced
    ratings,        \* marks given to each output so far
    published,
    ruleMoves,
    movedLate       \* has the rule changed since the gates were passed?

efficacyVars == <<sealedRule, rule, committed, sealedFirst, observed, flaws, gated, outputs,
                  ratings, published, ruleMoves, movedLate>>

(* A rule: the floor of the agreement, the least delta and the direction. *)
Rules == [floor : Floors, minDelta : Deltas, direction : Directions]

(* The outputs are numbered in the order they are awaited. *)
Abstained == -1
Units == HeldOut * (Treatments + Controls)
ArmOf(u) == IF u <= HeldOut * Treatments THEN "treatment" ELSE "control"
TaskOf(u) == ((u - 1) % HeldOut) + 1

(* The context may name a held-out task, and JSON may be unable to tell it *)
(* ("circular": safeStringify() is left with "[object Object]").           *)
Observed == {"none", "clean", "leaked", "leaked circular"}

EfficacyInit ==
    /\ sealedRule \in Rules
    /\ rule = sealedRule
    /\ committed \in BOOLEAN
    /\ sealedFirst \in BOOLEAN
    /\ observed \in Observed
    /\ flaws = {}
    /\ gated = FALSE
    /\ outputs = 0
    /\ ratings = [u \in 1..Units |-> <<>>]
    /\ published = NoVerdict
    /\ ruleMoves = 0
    /\ movedLate = FALSE

-----------------------------------------------------------------------------
(* Mutant of SealVerifies: the hash leaves the decision rule out. *)
SealIgnoresRule == TRUE

(* verifyPreRegistration(): the hash of what the protocol says now.        *)
SealVerifies == rule = sealedRule

(* Mutant of LeakFound: only the salted ids are looked for. *)
RawIdsMissed == FALSE

(* detectLeakage() *)
LeakFound == observed = "leaked"

(* The gates before the first await. *)
Begin ==
    /\ ~gated
    /\ flaws' = (IF SealVerifies THEN {} ELSE {"seal"})
                \cup (IF committed THEN {} ELSE {"commitment"})
                \cup (IF sealedFirst THEN {} ELSE {"late"})
                \cup (IF LeakFound THEN {"leak"} ELSE {})
    /\ gated' = TRUE
    /\ UNCHANGED <<sealedRule, rule, committed, sealedFirst, observed, outputs, ratings, published,
                   ruleMoves, movedLate>>

(* await system.run(task), system by system. *)
ProduceOutput ==
    /\ gated /\ outputs < Units
    /\ outputs' = outputs + 1
    /\ UNCHANGED <<sealedRule, rule, committed, sealedFirst, observed, flaws, gated, ratings,
                   published, ruleMoves, movedLate>>

(* await rater.rate(item): output by output, rater by rater. *)
Unrated == {u \in 1..Units : Len(ratings[u]) < Judges}
Rate(mark) ==
    /\ gated /\ outputs = Units /\ Unrated # {}
    /\ ratings' = [ratings EXCEPT ![Min(Unrated)] = Append(@, mark)]
    /\ UNCHANGED <<sealedRule, rule, committed, sealedFirst, observed, flaws, gated, outputs,
                   published, ruleMoves, movedLate>>

(* The caller changes the protocol object it sealed. *)
MoveGoalposts ==
    /\ published = NoVerdict /\ ruleMoves < MaxProtocolMoves
    /\ \E r \in Rules \ {rule} : rule' = r
    /\ ruleMoves' = ruleMoves + 1
    /\ movedLate' = (movedLate \/ gated)
    /\ UNCHANGED <<sealedRule, committed, sealedFirst, observed, flaws, gated, outputs, ratings,
                   published>>

-----------------------------------------------------------------------------
(* krippendorffAlpha() of all outputs, the interval metric.  A unit with   *)
(* one mark cannot disagree; both sums are doubled for up to three raters. *)

Counted(marks) == SelectSeq(marks, LAMBDA mark : mark # Abstained)
Present(u) == Counted(ratings[u])
Usable == {u \in 1..Units : Len(Present(u)) >= 2}
Square(x) == x * x
PairSum(s, t) ==
    MapThenSumSet(LAMBDA i : MapThenSumSet(LAMBDA j : Square(s[i] - t[j]), DOMAIN t), DOMAIN s)
Observation ==
    MapThenSumSet(LAMBDA u : (2 \div (Len(Present(u)) - 1)) * PairSum(Present(u), Present(u)),
                  Usable)
Expectation ==
    2 * MapThenSumSet(LAMBDA u : MapThenSumSet(LAMBDA v : PairSum(Present(u), Present(v)), Usable),
                      Usable)
Pairable == MapThenSumSet(LAMBDA u : Len(Present(u)), Usable)

(* Without disagreement to expect, or without a usable unit, alpha is 1. *)
MeetsFloor(floor) ==
    \/ Expectation = 0
    \/ 100 * (Expectation - Observation * (Pairable - 1)) >= floor * Expectation

(* A task's score in an arm: its outputs' medians, averaged over the arm's *)
(* systems, as a sum of doubled medians and their number.                  *)
DoubleMedian(s) ==
    LET t == SortSeq(s, <)
    IN  t[(Len(t) + 1) \div 2] + t[(Len(t) \div 2) + 1]
MedianSum(marksOf, units) == MapThenSumSet(LAMBDA u : DoubleMedian(Counted(marksOf[u])), units)
Rated(arm, task) == {u \in 1..Units : ArmOf(u) = arm /\ TaskOf(u) = task /\ Present(u) # <<>>}
ScoreOf(arm, task) ==
    <<MedianSum(ratings, Rated(arm, task)), Cardinality(Rated(arm, task))>>
TasksIn(arm) == {task \in 1..HeldOut : Rated(arm, task) # {}}

(* cliffsDelta(): how often treatment wins and loses, out of all pairs. *)
Outranks(s, t) == s[1] * t[2] > t[1] * s[2]
Wins(arm, other) ==
    Cardinality({p \in TasksIn(arm) \X TasksIn(other) :
                    Outranks(ScoreOf(arm, p[1]), ScoreOf(other, p[2]))})
Greater == Wins("treatment", "control")
Lesser == Wins("control", "treatment")
Pairs == Cardinality(TasksIn("treatment")) * Cardinality(TasksIn("control"))

DirectionOk(r) ==
    LET lead == CASE r.direction = "treatment-greater" -> Greater - Lesser
                  [] r.direction = "control-greater" -> Lesser - Greater
                  [] OTHER -> Max({Greater - Lesser, Lesser - Greater})
    IN  100 * lead >= r.minDelta * Pairs

(* bootstrapCI(): a resample's delta is that of some pairs, so the interval *)
(* leaves zero out for sure when all pairs agree, and never when none does. *)
ExcludesNull(direction) ==
    LET towards == CASE direction = "treatment-greater" -> {Greater}
                     [] direction = "control-greater" -> {Lesser}
                     [] OTHER -> {Greater, Lesser}
    IN  CASE Pairs = 0 \/ towards = {0} -> {FALSE}
          [] Pairs # 0 /\ Pairs \in towards -> {TRUE}
          [] OTHER -> BOOLEAN

(* Mutant of Verdicts: a strong effect outranks a flaw. *)
EffectFirst(r) ==
    IF DirectionOk(r) /\ TRUE \in ExcludesNull(r.direction) THEN {"supported"}
    ELSE {IF flaws # {} THEN "invalidated" ELSE "not-supported"}

(* The verdict: integrity and leakage, then reliability, then the effect. *)
Verdicts(r) ==
    IF flaws # {} THEN {"invalidated"}
    ELSE IF ~MeetsFloor(r.floor) THEN {"inconclusive"}
    ELSE {IF DirectionOk(r) /\ excluded THEN "supported" ELSE "not-supported"
              : excluded \in ExcludesNull(r.direction)}

Publish ==
    /\ gated /\ outputs = Units /\ Unrated = {} /\ published = NoVerdict
    /\ \E v \in Verdicts(rule) : published' = [verdict |-> v, rule |-> rule]
    /\ UNCHANGED <<sealedRule, rule, committed, sealedFirst, observed, flaws, gated, outputs,
                   ratings, ruleMoves, movedLate>>

EfficacyNext ==
    \/ Begin
    \/ ProduceOutput
    \/ \E mark \in Marks \cup {Abstained} : Rate(mark)
    \/ MoveGoalposts
    \/ Publish

EfficacySpec == EfficacyInit /\ [][EfficacyNext]_efficacyVars

-----------------------------------------------------------------------------
Admitted == published # NoVerdict /\ published.verdict # "invalidated"

(* A rule that was rewritten before the run decides nothing: with the      *)
(* protocol left alone from then on, the verdict is by the rule that was   *)
(* sealed (verifyPreRegistration, runEfficacyProgram).                     *)
SealedRuleDecides == Admitted /\ ~movedLate => published.rule = sealedRule

(* Whatever the effect, nothing is decided by a protocol that was flawed   *)
(* or for another vault, nor when the context that was handed in names a   *)
(* task and can be read (runEfficacyProgram, detectLeakage).               *)
FlawsAreNotMasked ==
    Admitted => committed /\ sealedFirst /\ observed # "leaked"

(* What is supported rests on marks in both arms, of which some rank the   *)
(* claimed arm higher: abstaining supports nothing (cliffsDelta,           *)
(* bootstrapCI).                                                           *)
SupportRestsOnMarks ==
    published # NoVerdict /\ published.verdict = "supported" =>
        /\ TasksIn("treatment") # {} /\ TasksIn("control") # {}
        /\ published.rule.direction = "treatment-greater" => Greater > 0
        /\ published.rule.direction = "control-greater" => Lesser > 0

EfficacyInv ==
    /\ SealedRuleDecides
    /\ FlawsAreNotMasked
    /\ SupportRestsOnMarks

(* docs/EFFICACY_PROGRAM.md:36 on a decision rule rewritten after seeing   *)
(* results: "Results are admitted only if the seal verifies and pre-dates  *)
(* them."  The program looks at the seal before its awaits and takes the   *)
(* rule from the same object after them.                                   *)
DecidedAsSealed == Admitted => published.verdict \in Verdicts(sealedRule)
=============================================================================
