------------------------------ MODULE MctsPlanner ------------------------------
(***************************************************************************)
(* MCOPMCTSPlanner.plan() (src/core/planning/mctsMabPlanner.ts) with a     *)
(* UCB1 bandit per node (src/core/planning/mab.ts).  A node is the path of *)
(* actions that leads to it.  Rewards are real numbers and not modelled:   *)
(* any arm with statistics may have the highest score.                     *)
(***************************************************************************)
EXTENDS Naturals, Sequences, SequencesExt, FiniteSetsExt

CONSTANTS
    Actions,      \* the candidate actions, in the caller's order, distinct
    MctsBudget,
    MaxDepth

ASSUME PlannerAssumption == /\ Actions \in Seq(ToSet(Actions)) /\ Len(Actions) > 0
                            /\ IsInjective(Actions)
                            /\ MctsBudget \in Nat \ {0} /\ MaxDepth \in Nat \ {0}

VARIABLES
    visits,       \* visits of every node of the tree: its domain is the tree
    pulls,        \* statistics of every node's bandit: its domain has the arms pulled
    plan          \* the bestSequence returned, <<"none">> before

plannerVars == <<visits, pulls, plan>>

Root == <<>>
Tree == DOMAIN visits
ChildBy(node, k) == Append(node, Actions[k])
Untried(node) == {k \in DOMAIN Actions : ChildBy(node, k) \notin Tree}
Children(node) == {ChildBy(node, k) : k \in DOMAIN Actions} \cap Tree

PlannerInit ==
    /\ visits = [n \in {Root} |-> 0]
    /\ pulls = [n \in {Root} |-> 0]
    /\ plan = <<"none">>

(* Mutant of PassedBy: a node is passed by as soon as it has a child. *)
PassedEarly(node) == Len(node) < MaxDepth /\ Children(node) # {}

(* select(): a node with every action tried is passed by, for any child;   *)
(* selection ends at a path all of whose ancestors are passed by.          *)
PassedBy(node) == Len(node) < MaxDepth /\ Untried(node) = {}
Selectable ==
    {n \in Tree : ~PassedBy(n) /\ \A i \in 0..(Len(n) - 1) : PassedBy(SubSeq(n, 1, i))}

(* expand(): the first untried action, if the leaf is not at the bottom. *)
Expanded(leaf) ==
    IF Len(leaf) >= MaxDepth \/ Untried(leaf) = {} THEN leaf
    ELSE ChildBy(leaf, Min(Untried(leaf)))

(* Mutants of OnPath: the root, or the leaf, is left out. *)
BelowRoot(node) == {SubSeq(node, 1, i) : i \in 1..Len(node)}
OnPath(node) == {SubSeq(node, 1, i) : i \in 0..Len(node)}

(* backpropagate(): a visit for every node on the path, and a pull of its  *)
(* arm in the bandit of its parent (the root has no arm: 0).               *)
Iterate ==
    \E leaf \in Selectable :
        LET new == Expanded(leaf)
            counted(f, path) == [n \in Tree \cup {new} |->
                (IF n \in Tree THEN f[n] ELSE 0) + (IF n \in path THEN 1 ELSE 0)]
        IN  /\ visits[Root] < MctsBudget
            /\ visits' = counted(visits, OnPath(new))
            /\ pulls' = counted(pulls, OnPath(new) \ {Root})
            /\ UNCHANGED plan

(* Mutant of Heavier: the child expanded first, however often visited. *)
Place(node) == CHOOSE i \in DOMAIN Actions : Actions[i] = Last(node)
EarlierOnly(c, d) == Place(c) < Place(d)

(* extractBestSequence(): from the root down, the child with most visits   *)
(* (of equals the one expanded first), to a node without children.         *)
Heavier(c, d) == \/ visits[c] > visits[d]
                 \/ visits[c] = visits[d] /\ Place(c) < Place(d)
BestChild(node) == CHOOSE c \in Children(node) :
                       \A d \in Children(node) \ {c} : Heavier(c, d)
BestFrom[k \in 0..MaxDepth] ==
    IF k = 0 THEN Root
    ELSE IF Children(BestFrom[k - 1]) = {} THEN BestFrom[k - 1] ELSE BestChild(BestFrom[k - 1])
ReturnPlan ==
    /\ visits[Root] = MctsBudget /\ plan = <<"none">>
    /\ plan' = BestFrom[MaxDepth]
    /\ UNCHANGED <<visits, pulls>>

PlannerNext == Iterate \/ ReturnPlan
PlannerSpec == PlannerInit /\ [][PlannerNext]_plannerVars

-----------------------------------------------------------------------------
(* The tree is closed under parents, and no deeper than allowed. *)
PlannerTypeOK ==
    /\ DOMAIN pulls = Tree
    /\ \A n \in Tree : Len(n) <= MaxDepth /\ (n # Root => Front(n) \in Tree)
    /\ visits[Root] \in 0..MctsBudget

(* The sum of f over the children of a node. *)
Below(f, node) ==
    LET below[k \in 0..Len(Actions)] ==
            IF k = 0 THEN 0
            ELSE below[k - 1] + (IF ChildBy(node, k) \in DOMAIN f THEN f[ChildBy(node, k)] ELSE 0)
    IN  below[Len(Actions)]

(* Statistics never drift apart over the iterations: an arm was pulled as  *)
(* often as its child was visited, and a node that can be passed by was    *)
(* visited once for itself and otherwise for its children.                 *)
VisitsAddUp ==
    /\ \A n \in Tree \ {Root} : pulls[n] = visits[n]
    /\ visits[Root] = Below(visits, Root)
    /\ \A n \in Tree \ {Root} : Len(n) < MaxDepth => visits[n] = 1 + Below(visits, n)

(* No action is searched in depth before each of its siblings was tried. *)
BreadthFirst ==
    \A n \in Tree \ {Root} : Children(n) # {} => Untried(Front(n)) = {}

(* The plan ends at a leaf, and no node off it was visited more often than *)
(* the node of the plan it competed with.                                  *)
PlanIsMostVisited ==
    plan # <<"none">> =>
        /\ plan \in Tree /\ Children(plan) = {}
        /\ \A n \in Tree, i \in DOMAIN plan :
              Len(n) = i /\ SubSeq(n, 1, i - 1) = SubSeq(plan, 1, i - 1)
                => visits[n] <= visits[SubSeq(plan, 1, i)]

(* The statistics add up, siblings go before depth, and the plan is the    *)
(* most visited one.                                                       *)
PlannerInv == PlannerTypeOK /\ VisitsAddUp /\ BreadthFirst /\ PlanIsMostVisited
=============================================================================
