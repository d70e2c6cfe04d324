---------------------------- MODULE MycelialNetwork ----------------------------
(***************************************************************************)
(* MycelialChainBuilder.build_network() (mcop_package/mcop/mycelial.py)    *)
(* and what is read from the network it returns.  A network is a sequence  *)
(* of nodes in the order of its dict, a node knows its parent by index,    *)
(* and a hypothesis is its mode, state and confidence.  The caller's       *)
(* refine_fn either works on the hypothesis it is given, as the built-in   *)
(* one does, or returns another one; its evaluate_fn returns any estimate. *)
(***************************************************************************)
EXTENDS Integers, Sequences, FiniteSets, FiniteSetsExt

CONSTANTS
    ModeCount,          \* the reasoning modes are 0 .. ModeCount - 1
    Estimates,          \* what evaluate_fn returns
    SproutConfidence,   \* the confidence a seed comes with
    PruneThreshold, BranchBelow,
    Thresholds,         \* the confidence_threshold a context comes with
    MaxBranches,
    DeepestLevel,       \* max_depth
    MaxRoots, MaxBuilds \* bounds: seeds of a network, networks built from them

ASSUME MycelialAssumption ==
    /\ {ModeCount, MaxBranches, DeepestLevel} \subseteq Nat \ {0}
    /\ MaxRoots \in Nat /\ MaxBuilds \in Nat
    /\ {PruneThreshold, BranchBelow} \subseteq Nat /\ Thresholds \subseteq Nat
    /\ Estimates \subseteq Nat /\ SproutConfidence \in Nat

VARIABLES
    inPlace,        \* does refine_fn work on the hypothesis it is given?
    validateAt,     \* context.confidence_threshold, which the builder's own thresholds do not bound
    nodes,
    links,          \* pairs of nodes connected across chains
    level,          \* levels begun
    toGrow,         \* nodes of this level yet to be grown, which go in the order of the dict
    built,          \* has build_network() returned?
    builds

mycelialVars == <<inPlace, validateAt, nodes, links, level, toGrow, built, builds>>

Node(parent, depth, mode, state, confidence) ==
    [parent |-> parent, depth |-> depth, mode |-> mode, state |-> state,
     confidence |-> confidence]
RootNode(seed) == Node(0, 0, seed.mode, seed.state, seed.confidence)

MycelialInit ==
    /\ inPlace \in BOOLEAN /\ validateAt \in Thresholds
    /\ \E modes \in UNION {[1..r -> 0..(ModeCount - 1)] : r \in 1..MaxRoots} :
           nodes = [i \in DOMAIN modes |-> Node(0, 0, modes[i], "seed", SproutConfidence)]
    /\ links = {}
    /\ level = 0
    /\ toGrow = {}
    /\ built = FALSE
    /\ builds = 1

-----------------------------------------------------------------------------
(* The kinship of the nodes. *)

Ancestors ==
    LET above[i \in DOMAIN nodes] ==
            IF nodes[i].parent = 0 THEN {} ELSE {nodes[i].parent} \cup above[nodes[i].parent]
    IN  above

(* Mutant of Related: only a parent and its child are kin. *)
ParentAndChild(i, j) == nodes[i].parent = j \/ nodes[j].parent = i

Related(i, j) == i \in Ancestors[j] \/ j \in Ancestors[i]

ChildrenOf(i) == {j \in DOMAIN nodes : nodes[j].parent = i}
Leaves == {i \in DOMAIN nodes : ChildrenOf(i) = {}}

-----------------------------------------------------------------------------
(* _grow_network(): level by level, each in the order of the dict.         *)

OnLevel(d) == {i \in DOMAIN nodes : nodes[i].depth = d /\ nodes[i].state # "pruned"}

(* The node whose turn it is. *)
Turn == Min(toGrow)

BeginLevel ==
    /\ ~built /\ toGrow = {} /\ level < DeepestLevel
    /\ OnLevel(level) # {}
    /\ toGrow' = OnLevel(level)
    /\ level' = level + 1
    /\ UNCHANGED <<inPlace, validateAt, nodes, links, built, builds>>

(* Mutant of StateAt: a weak refinement is left growing. *)
NeverPruned(c) == IF c >= validateAt THEN "validated" ELSE "growing"

(* The context's threshold is asked first. *)
StateAt(c) ==
    IF c >= validateAt THEN "validated" ELSE IF c < PruneThreshold THEN "pruned" ELSE "growing"

(* The branch _create_branch() makes: the next mode, at nine tenths. *)
Alternative(i, c) ==
    Node(i, nodes[i].depth + 1, (nodes[i].mode + 1) % ModeCount, "growing", (c * 9) \div 10)

(* _grow_node(): what grows from node i, refined and estimated at c. *)
Offspring(i, c) ==
    LET main == Node(i, nodes[i].depth + 1, nodes[i].mode, "growing", c)
    IN  IF StateAt(c) # "growing" THEN <<>>
        ELSE IF c < BranchBelow THEN <<main, Alternative(i, c)>> ELSE <<main>>

(* Mutant of RefinedAt: the verdict is not noted. *)
RefinedUnjudged(i, c) == IF inPlace THEN [nodes EXCEPT ![i].confidence = c] ELSE nodes

(* The estimate and the verdict go to the refined hypothesis, which the    *)
(* node holds only if refine_fn worked in place.                           *)
RefinedAt(i, c) ==
    IF inPlace THEN [nodes EXCEPT ![i].state = StateAt(c), ![i].confidence = c] ELSE nodes

SkipNode ==
    /\ toGrow # {} /\ nodes[Turn].state \in {"validated", "pruned"}
    /\ toGrow' = toGrow \ {Turn}
    /\ UNCHANGED <<inPlace, validateAt, nodes, links, level, built, builds>>

GrowNode(c) ==
    /\ toGrow # {} /\ nodes[Turn].state \notin {"validated", "pruned"}
    /\ LET children == Offspring(Turn, c)
       IN  nodes' = RefinedAt(Turn, c)
                        \o SubSeq(children, 1, Min({MaxBranches, Len(children)}))
    /\ toGrow' = toGrow \ {Turn}
    /\ UNCHANGED <<inPlace, validateAt, links, level, built, builds>>

-----------------------------------------------------------------------------
(* The end of build_network(): _create_connections(), then the weak nodes  *)
(* are pruned.  The similarity is a callback: all alike, or by mode.       *)

Connections(byMode) ==
    LET Kindred(i) == {j \in (i + 1)..Len(nodes) :
            ~Related(i, j) /\ (byMode => nodes[i].mode = nodes[j].mode)}
    IN  UNION {{{i, j} : j \in Kindred(i)} : i \in DOMAIN nodes}

PruneBelowThreshold ==
    [i \in DOMAIN nodes |->
        IF nodes[i].confidence < PruneThreshold THEN [nodes[i] EXCEPT !.state = "pruned"]
                                                ELSE nodes[i]]

FinishBuild ==
    /\ ~built /\ toGrow = {}
    /\ level = DeepestLevel \/ OnLevel(level) = {}
    /\ \E byMode \in BOOLEAN : links' = Connections(byMode)
    /\ nodes' = PruneBelowThreshold
    /\ built' = TRUE
    /\ UNCHANGED <<inPlace, validateAt, level, toGrow, builds>>

(* Another build_network() of the same seeds, as the last one left them:   *)
(* the roots are the first nodes of the dict.                              *)
BuildAgain ==
    /\ built /\ builds < MaxBuilds
    /\ LET roots == {i \in DOMAIN nodes : nodes[i].parent = 0}
       IN  nodes' = [i \in 1..Cardinality(roots) |-> RootNode(nodes[i])]
    /\ links' = {}
    /\ level' = 0
    /\ built' = FALSE
    /\ builds' = builds + 1
    /\ UNCHANGED <<inPlace, validateAt, toGrow>>

MycelialNext ==
    \/ BeginLevel
    \/ SkipNode
    \/ \E c \in Estimates : GrowNode(c)
    \/ FinishBuild
    \/ BuildAgain

MycelialSpec == MycelialInit /\ [][MycelialNext]_mycelialVars

-----------------------------------------------------------------------------
(* What is read from a network. *)

(* _find_paths(): one from a root to each leaf; on it the nodes follow in  *)
(* their order.                                                            *)
PathTo(leaf) == Ancestors[leaf] \cup {leaf}
Paths == {PathTo(leaf) : leaf \in Leaves}

(* extract_chains(): is the chain complete? *)
Complete(path) == nodes[Max(path)].state = "validated"

-----------------------------------------------------------------------------
(* When refine_fn works in place, growth ends only for a reason: a leaf is *)
(* validated, pruned, or as deep as the builder goes (_grow_node).         *)
GrowthEndsForAReason ==
    built /\ inPlace =>
        \A i \in Leaves : nodes[i].state = "growing" => nodes[i].depth = DeepestLevel

(* Then verdicts are ends: nothing grows from a validated or a pruned      *)
(* hypothesis, in whatever phase it was pruned, nor after a second build   *)
(* from the same seeds.  The state is the confidence's, and where the      *)
(* context's threshold lies below the builder's prune_threshold, which     *)
(* nothing forbids, the last pruning takes back the verdict _grow_node had *)
(* given: only what reaches both is left validated.                        *)
VerdictsAreEnds ==
    built /\ inPlace =>
        \A i \in DOMAIN nodes :
            /\ nodes[i].state \in {"validated", "pruned"} => i \in Leaves
            /\ nodes[i].state = "validated" <=>
                   nodes[i].confidence >= validateAt /\ nodes[i].confidence >= PruneThreshold
            /\ nodes[i].state = "pruned" <=> nodes[i].confidence < PruneThreshold

(* A refine_fn that returns another hypothesis leaves the network without  *)
(* its verdicts: no chain of it is ever complete, whatever was estimated   *)
(* (_grow_node, extract_chains).                                           *)
OnlyInPlaceCompletes == built => \A path \in Paths : Complete(path) => inPlace

(* Connections run across chains: no chain holds both ends of one          *)
(* (_create_connections, extract_chains).                                  *)
LinksRunAcrossChains ==
    \A path \in Paths, link \in links : ~(link \subseteq path)

MycelialInv ==
    /\ GrowthEndsForAReason
    /\ VerdictsAreEnds
    /\ OnlyInPlaceCompletes
    /\ LinksRunAcrossChains
=============================================================================
