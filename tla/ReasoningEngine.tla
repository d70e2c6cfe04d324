---------------------------- MODULE ReasoningEngine ----------------------------
(***************************************************************************)
(* MCOPEngine.solve() (mcop_package/mcop/engine.py) with the chains of     *)
(* mcop_types.py and the verdicts of guardian.py, for a fresh context.     *)
(* A hypothesis has a grounding and a confidence out of a few levels; the  *)
(* reasoning modes return any of them, or raise.  A mode refines the       *)
(* hypothesis it is given in place, as every mode of the package does.     *)
(***************************************************************************)
EXTENDS Integers, Sequences, SequencesExt, FiniteSets, FiniteSetsExt

CONSTANTS
    ModeOrder,              \* the built-in modes in the order of self.modes
    MaxSeeds,               \* bound: seed hypotheses of a run
    Weights,                \* grounding of a refined hypothesis
    GroundingThreshold, ReviewFloor,
    Confidences,            \* what evaluate_hypothesis() returns
    SeedConfidence,         \* that of a seed, until its first evaluation
    PruneBelow, SwitchBelow, ConfidenceThreshold,
    SwitchAfter,            \* 2: low confidence switches modes after this iteration
    MaxIterations, MinAlternatives

ASSUME ReasoningAssumption ==
    /\ ModeOrder \in Seq(ToSet(ModeOrder))
    /\ MaxSeeds \in Nat /\ MaxIterations \in Nat /\ MinAlternatives \in Nat
    /\ Weights \subseteq Nat /\ Confidences \subseteq Nat
    /\ {SeedConfidence, PruneBelow, ConfidenceThreshold} \subseteq Nat \ {0}
    /\ {GroundingThreshold, ReviewFloor, SwitchBelow, SwitchAfter} \subseteq Nat

VARIABLES
    phase,              \* the phase of solve() that comes next
    modesLeft,          \* modes that have not generated their seeds
    chains,             \* the chains, one per seed; each a sequence of hypotheses
    growing,            \* index of the chain that grows, and its iterations so far
    iterations,
    reviews,            \* chains the Guardian wants a human to look at
    preserved,          \* indices of the chains that survive phase 4, in order
    solution

reasoningVars == <<phase, modesLeft, chains, growing, iterations, reviews, preserved, solution>>

Modes == ToSet(ModeOrder)
Hypothesis(mode, confidence, iteration) ==
    [mode |-> mode, state |-> "seed", grounding |-> 0, confidence |-> confidence,
     iteration |-> iteration]
NoSolution == [best |-> 0, grounding |-> <<0, 1>>, alternatives |-> {}, badges |-> {}]

ReasoningInit ==
    /\ phase = "seeds"
    /\ modesLeft = ModeOrder
    /\ chains = <<>>
    /\ growing = 1
    /\ iterations = 0
    /\ reviews = {}
    /\ preserved = <<>>
    /\ solution = NoSolution

-----------------------------------------------------------------------------
(* What the chains are worth.  A grounding is a pair of a sum and a count. *)

Inactive == {"pruned", "error"}

ActiveIn(chain) == {i \in DOMAIN chain : chain[i].state \notin Inactive}
Errored(chain) == \E i \in DOMAIN chain : chain[i].state = "error"

TotalGrounding(chain) ==
    LET sum[i \in 0..Len(chain)] ==
            IF i = 0 THEN 0
            ELSE sum[i - 1] + (IF i \in ActiveIn(chain) THEN chain[i].grounding ELSE 0)
    IN  IF ActiveIn(chain) = {} THEN <<0, 1>>
        ELSE <<sum[Len(chain)], Cardinality(ActiveIn(chain))>>
AtLeastAs(g, h) == g[1] * h[2] >= h[1] * g[2]
Reaches(chain, level) == AtLeastAs(TotalGrounding(chain), <<level, 1>>)

(* max() keeps the first of equals. *)
MostConfident(chain) ==
    Min({i \in ActiveIn(chain) :
            \A j \in ActiveIn(chain) : chain[j].confidence <= chain[i].confidence})

ModeOf(i) == chains[i][1].mode

-----------------------------------------------------------------------------
(* Phase 1: the next mode generates its seeds, each the root of a chain,   *)
(* or raises and has none.                                                 *)
GenerateSeeds ==
    \E n \in 0..MaxSeeds :
        /\ phase = "seeds" /\ modesLeft # <<>>
        /\ Len(chains) + n <= MaxSeeds
        /\ chains' = chains \o [i \in 1..n |-> <<Hypothesis(Head(modesLeft), SeedConfidence, 0)>>]
        /\ modesLeft' = Tail(modesLeft)
        /\ UNCHANGED <<phase, growing, iterations, reviews, preserved, solution>>

SeedsDone ==
    /\ phase = "seeds" /\ modesLeft = <<>>
    /\ phase' = "chains"
    /\ UNCHANGED <<modesLeft, chains, growing, iterations, reviews, preserved, solution>>

-----------------------------------------------------------------------------
(* Phase 2: the chain that grows, its last hypothesis being refined. *)
Growing == phase = "chains" /\ growing <= Len(chains) /\ iterations < MaxIterations

CloseChain(chain) ==
    /\ chains' = [chains EXCEPT ![growing] = chain]
    /\ growing' = growing + 1
    /\ iterations' = 0
    /\ UNCHANGED <<phase, modesLeft, reviews, preserved, solution>>

Refined(g, c, state) ==
    [Last(chains[growing]) EXCEPT !.grounding = g, !.confidence = c, !.state = state]
(* Nobody reads the grounding of an inactive hypothesis: it is left alone. *)
Ended(c, state) == Refined(0, c, state)

(* _spawn_child_hypothesis(): in the next mode of the rotation when the    *)
(* confidence stays low, else in the same.                                 *)
ModeAfter(mode) ==
    LET i == CHOOSE j \in DOMAIN ModeOrder : ModeOrder[j] = mode
    IN  ModeOrder[(i % Len(ModeOrder)) + 1]
Child(parent) ==
    Hypothesis(IF parent.confidence < SwitchBelow /\ parent.iteration > SwitchAfter
               THEN ModeAfter(parent.mode) ELSE parent.mode,
               parent.confidence, parent.iteration + 1)

(* An iteration: evidence, refinement and evaluation; the hypothesis is    *)
(* pruned, validated, or followed by a child.                              *)
IterateChain ==
    \E g \in Weights, c \in Confidences :
        /\ Growing
        /\ IF c < PruneBelow
           THEN CloseChain(Front(chains[growing]) \o <<Ended(c, "pruned")>>)
           ELSE IF c >= ConfidenceThreshold
           THEN CloseChain(Front(chains[growing]) \o <<Refined(g, c, "validated")>>)
           ELSE LET refined == Refined(g, c, "growing")
                IN  /\ chains' = [chains EXCEPT ![growing] =
                                     Front(@) \o <<refined, Child(refined)>>]
                    /\ iterations' = iterations + 1
                    /\ UNCHANGED <<phase, modesLeft, growing, reviews, preserved, solution>>

(* A callback raises, wherever in the iteration it is:                     *)
(* _mark_hypothesis_error() and the chain is closed.                       *)
IterationFails ==
    /\ Growing
    /\ CloseChain(Front(chains[growing]) \o <<Ended(0, "error")>>)

(* The iterations are used up: the chain ends with a child nobody refined. *)
IterationsOver ==
    /\ phase = "chains" /\ growing <= Len(chains) /\ iterations = MaxIterations
    /\ CloseChain(chains[growing])

-----------------------------------------------------------------------------
(* Phase 3: a grounded chain has its most confident hypothesis validated,  *)
(* and the Guardian looks at every chain.                                  *)
Validated(chain) ==
    IF Reaches(chain, GroundingThreshold) /\ ActiveIn(chain) # {}
    THEN [chain EXCEPT ![MostConfident(chain)].state = "validated"]
    ELSE chain

WantsReview(chain) ==
    ~Reaches(chain, ReviewFloor) \/ ActiveIn(chain) = {} \/ Errored(chain)

ValidateChains ==
    /\ phase = "chains" /\ growing > Len(chains)
    /\ chains' = [i \in DOMAIN chains |-> Validated(chains[i])]
    /\ reviews' = {i \in DOMAIN chains : WantsReview(Validated(chains[i]))}
    /\ phase' = "diversity"
    /\ UNCHANGED <<modesLeft, growing, iterations, preserved, solution>>

-----------------------------------------------------------------------------
(* Phase 4 *)
Before(i, j) ==
    LET g == TotalGrounding(chains[i])  h == TotalGrounding(chains[j])
    IN  AtLeastAs(g, h) /\ (AtLeastAs(h, g) => i < j)

(* Mutant of BestOf: the chains stay in the order of their seeds. *)
FirstSeeded(left) == Min(left)

(* sorted() by grounding, the best first: of the chains left, the next.    *)
BestOf(left) == CHOOSE i \in left : \A j \in left \ {i} : Before(i, j)

(* Mutant of ModesSeen: the modes of the chains that only fill the quota   *)
(* are forgotten.                                                          *)
ModesSeenPastQuota(kept) ==
    {ModeOf(kept[k]) : k \in {x \in DOMAIN kept : x = 1 \/ x > MinAlternatives}}
ModesSeen(kept) == {ModeOf(kept[k]) : k \in DOMAIN kept}

(* A chain fills the quota, or broadens the coverage of modes.             *)
Admits(kept, i) == Len(kept) < MinAlternatives \/ ModeOf(i) \notin ModesSeen(kept)

Sift(at) ==
    LET i == BestOf(at.left)
    IN  [left |-> at.left \ {i},
         kept |-> IF Admits(at.kept, i) THEN Append(at.kept, i) ELSE at.kept]

Sifted ==
    LET after[n \in 0..Len(chains)] ==
            IF n = 0 THEN [left |-> DOMAIN chains, kept |-> <<>>] ELSE Sift(after[n - 1])
    IN  after[Len(chains)].kept

PreserveDiversity ==
    /\ phase = "diversity"
    /\ preserved' = IF Len(chains) <= MinAlternatives THEN [i \in DOMAIN chains |-> i]
                                                     ELSE Sifted
    /\ phase' = "synthesis"
    /\ UNCHANGED <<modesLeft, chains, growing, iterations, reviews, solution>>

-----------------------------------------------------------------------------
(* Phase 5: the best chain, its grounding, the others as alternatives, and *)
(* the warnings about anchoring; phase 6 warns when no alternative is left.*)
BestChain ==
    preserved[Min({k \in DOMAIN preserved : \A l \in DOMAIN preserved :
                      AtLeastAs(TotalGrounding(chains[preserved[k]]),
                                TotalGrounding(chains[preserved[l]]))})]
Alternatives ==
    LET alive == {k \in 2..Len(preserved) : ActiveIn(chains[preserved[k]]) # {}}
    IN  {preserved[k] : k \in {x \in alive : Cardinality({y \in alive : y <= x}) <= 3}}

SynthesizeSolution ==
    /\ phase = "synthesis"
    /\ solution' =
          IF preserved = <<>> THEN [NoSolution EXCEPT !.badges = {"no hypotheses", "alone"}]
          ELSE [best |-> BestChain, grounding |-> TotalGrounding(chains[BestChain]),
                alternatives |-> Alternatives,
                badges |-> (IF Cardinality(ModesSeen(preserved)) < 2 THEN {"anchored"} ELSE {})
                           \cup (IF Alternatives = {} THEN {"alone"} ELSE {})]
    /\ phase' = "guardian"
    /\ UNCHANGED <<modesLeft, chains, growing, iterations, reviews, preserved>>

(* Mutant of Escalated: an error counts only where the verdict is not      *)
(* already explained by the grounding.                                     *)
EscalatedIfGrounded == {i \in ToSet(preserved) : Errored(chains[i])
                                                 /\ Reaches(chains[i], ReviewFloor)}
Escalated == {i \in ToSet(preserved) : Errored(chains[i])}

(* Phase 7: check_solution(), then _aggregate_chain_verdicts() over the    *)
(* chains that were preserved.                                             *)
GuardianSweep ==
    /\ phase = "guardian"
    /\ solution' = [solution EXCEPT !.badges = @ \cup
          (IF AtLeastAs(solution.grounding, <<GroundingThreshold, 1>>) THEN {} ELSE {"contested"})
          \cup (IF Escalated # {} THEN {"errors"} ELSE {})]
    /\ phase' = "done"
    /\ UNCHANGED <<modesLeft, chains, growing, iterations, reviews, preserved>>

ReasoningNext ==
    \/ GenerateSeeds \/ SeedsDone
    \/ IterateChain \/ IterationFails \/ IterationsOver
    \/ ValidateChains \/ PreserveDiversity \/ SynthesizeSolution \/ GuardianSweep
ReasoningSpec == ReasoningInit /\ [][ReasoningNext]_reasoningVars

-----------------------------------------------------------------------------
ReasoningTypeOK ==
    /\ phase \in {"seeds", "chains", "diversity", "synthesis", "guardian", "done"}
    /\ Len(chains) <= MaxSeeds
    /\ \A c \in DOMAIN chains : \A h \in DOMAIN chains[c] :
          /\ chains[c][h].mode \in Modes
          /\ chains[c][h].state \in {"seed", "growing", "validated", "pruned", "error"}
    /\ ToSet(preserved) \subseteq DOMAIN chains /\ reviews \subseteq DOMAIN chains

(* A hypothesis whose refinement raised (the last of its chain, without    *)
(* confidence) is never taken for one that holds: validating the best of   *)
(* the chain does not wipe the error out, the Guardian sends the chain to  *)
(* a human, and a solution that stands on such a chain says so.            *)
ErrorsStayVisible ==
    /\ phase \notin {"seeds", "chains"} =>
          \A i \in DOMAIN chains :
             /\ Errored(chains[i]) => i \in reviews
             /\ Last(chains[i]).confidence = 0 => Last(chains[i]).state \in {"error", "pruned"}
    /\ phase = "done" =>
          ((\E i \in ToSet(preserved) : Errored(chains[i])) => "errors" \in solution.badges)

(* Anti-anchoring: of every mode that grew a chain one is preserved, two   *)
(* chains of one mode only within the quota of alternatives, and no        *)
(* preserved chain beyond the quota repeats the mode of another.           *)
PerspectivesSurvive ==
    phase \in {"synthesis", "guardian", "done"} =>
        /\ \A i \in DOMAIN chains : \E k \in DOMAIN preserved : ModeOf(preserved[k]) = ModeOf(i)
        /\ \A k, l \in DOMAIN preserved :
              (k < l /\ l > MinAlternatives) => ModeOf(preserved[k]) # ModeOf(preserved[l])

(* The solution stands on the best grounded of all the chains that grew,   *)
(* not only of those preserved; and where more chains grew than the quota  *)
(* of alternatives it does not list that chain among its own alternatives. *)
(* Where no more grew, all are preserved before the best is chosen, and it *)
(* is listed among its own alternatives too.                               *)
SolutionIsTheBest ==
    phase \in {"guardian", "done"} /\ chains # <<>> =>
        /\ \A i \in DOMAIN chains : AtLeastAs(solution.grounding, TotalGrounding(chains[i]))
        /\ Len(chains) > MinAlternatives => solution.best \notin solution.alternatives

(* The run keeps its errors, its perspectives and its best chain.          *)
ReasoningInv == ReasoningTypeOK /\ ErrorsStayVisible /\ PerspectivesSurvive /\ SolutionIsTheBest
=============================================================================
