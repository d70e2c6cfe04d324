---------------------------- MODULE ShadowStrategy ----------------------------
(***************************************************************************)
(* HolographicShadowStrategy (mcop_package/mcop/adapters/arcagi3_agent.py) *)
(* with its colour detectors and its _ForwardModel, as play() drives it:   *)
(* choose() on a frame, a step of the game, observe() on both frames.      *)
(* A frame is the cell each colour is at; cells are on a line, and one     *)
(* cell is one unit of drift.  What the scores add up to is left out: a    *)
(* pick by score is any action.                                            *)
(***************************************************************************)
EXTENDS Integers, Sequences, SequencesExt, FiniteSets, FiniteSetsExt

CONSTANTS
    Colours,            \* numbers; background 0 is none of them
    Views,              \* the frames: [Colours -> cells], NoCell where a colour is missing
    FirstViews,         \* those a game starts and is reset with
    ActionOrder,        \* the action names in lexical order, all of them available
    NoCell, Unknown,    \* Unknown: no colour, no centroid, no hash, no action (None)
    MinAdvances, MinObservations,   \* of the colour detectors
    MoveThreshold,      \* a drift above it is a move; 0 is a wobble
    ChangeThreshold,    \* move_threshold_cells, for want of a player's centroid
    MaxPlanDepth, GoalDepth, MinDrifts,
    MaxLevels, MaxMoves \* bounds: levels of the game, steps of the run

ASSUME ShadowAssumption ==
    /\ Colours \subseteq Nat \ {0} /\ Unknown \notin Colours
    /\ FirstViews \subseteq Views
    /\ MaxPlanDepth \in Nat \ {0} /\ GoalDepth \in Nat \ {0}

VARIABLES
    view, level,        \* the current frame
    goalColour, playerColour,
    credits, advances, observations,    \* of the detectors
    lastHash, lastCentroid,             \* set by choose(), read by observe()
    walls,              \* (state, action) seen blocked
    positionWalls,      \* (cell, action) seen blocked
    transitions,        \* of the forward model: (state, action) -> state
    terminals,          \* states that came with a new level
    drifts,             \* per action: the sum of its drifts, and their number
    action,             \* the action chosen, Unknown before
    observed            \* bookkeeping: the transitions observed

detectorVars == <<credits, advances, observations>>
cacheVars == <<walls, positionWalls, transitions, terminals, drifts>>
shadowVars == <<view, level, goalColour, playerColour, detectorVars, lastHash, lastCentroid,
                cacheVars, action, observed>>

ActionNames == ToSet(ActionOrder)
NoDrift == [a \in ActionNames |-> <<0, 0>>]
NoCaches == [walls |-> {}, positionWalls |-> {}, transitions |-> <<>>, terminals |-> {},
             drifts |-> NoDrift]

(* The colours are given or left to be discovered. *)
ShadowInit ==
    /\ view \in FirstViews /\ level = 0
    /\ goalColour \in Colours \cup {Unknown}
    /\ playerColour = Unknown
    /\ credits = [c \in Colours |-> 0] /\ advances = 0 /\ observations = 0
    /\ lastHash = Unknown /\ lastCentroid = Unknown
    /\ walls = {} /\ positionWalls = {} /\ transitions = <<>> /\ terminals = {}
    /\ drifts = NoDrift
    /\ action = Unknown
    /\ observed = {}

-----------------------------------------------------------------------------
(* What is read off a frame. *)

Centroid(v, colour) ==
    IF colour = Unknown THEN Unknown ELSE IF v[colour] = NoCell THEN Unknown ELSE v[colour]

(* _state_hash(): the whole grid as long as no colour is known, else where *)
(* the goal's colour is and where the player is.                           *)
HashWith(v, goal, player) ==
    IF goal = Unknown /\ player = Unknown THEN <<"snap", v>>
    ELSE <<"state", Centroid(v, goal), Centroid(v, player)>>
Hash(v) == HashWith(v, goalColour, playerColour)

Cells == UNION {{v[c] : c \in Colours} : v \in Views} \ {NoCell}
At(v, cell) == {c \in Colours : v[c] = cell}
Changed(v, w) == {cell \in Cells : At(v, cell) # At(w, cell)}
Credit(v, w, colour) ==
    Cardinality({cell \in Changed(v, w) : colour \in At(v, cell) \cup At(w, cell)})

-----------------------------------------------------------------------------
(* What an action is known to lead to from a state, one state or none: in  *)
(* _ForwardModel the transitions it saw, in _goal_bfs() the mean drift of  *)
(* the action, rounded, unless a wall was met there.                       *)

Led(s, a) == IF <<s, a>> \in DOMAIN transitions THEN {transitions[<<s, a>>]} ELSE {}

AbsOf(x) == IF x < 0 THEN -x ELSE x
SignOf(x) == IF x < 0 THEN -1 ELSE 1
(* round() takes a half to the even neighbour. *)
Rounded(sum, n) ==
    LET q == AbsOf(sum) \div n  twice == 2 * (AbsOf(sum) % n)
    IN  SignOf(sum) * (IF twice > n \/ (twice = n /\ q % 2 = 1) THEN q + 1 ELSE q)
MoveOf(a) == IF drifts[a][2] = 0 THEN 0 ELSE Rounded(drifts[a][1], drifts[a][2])
Movers == {a \in ActionNames : MoveOf(a) # 0}
Tolerance == Max({1} \cup {AbsOf(MoveOf(a)) \div 2 : a \in Movers})

(* Mutant of Moved: a wall is looked up where the move would end. *)
MovedThroughWalls(p, a) ==
    IF a \in Movers /\ <<p + MoveOf(a), a>> \notin positionWalls THEN {p + MoveOf(a)} ELSE {}
Moved(p, a) == IF a \in Movers /\ <<p, a>> \notin positionWalls THEN {p + MoveOf(a)} ELSE {}

(* Both planners search breadth first, the actions in order, and return    *)
(* the first action of the path that reaches a goal first.                 *)

Successors(way, s, a) == IF way = "model" THEN Led(s, a) ELSE Moved(s, a)

LookFrom(acc, way, s, first, goals) ==
    FoldLeft(LAMBDA r, a :
        IF r.found # Unknown \/ Successors(way, s, a) = {} THEN r
        ELSE LET n == CHOOSE x \in Successors(way, s, a) : TRUE
                 f == IF first = Unknown THEN a ELSE first
             IN  IF n \in goals THEN [r EXCEPT !.found = f]
                 ELSE IF n \in r.visited THEN r
                 ELSE [r EXCEPT !.visited = @ \cup {n}, !.queue = Append(@, <<n, f>>)],
        acc, ActionOrder)

FirstStep(way, start, goals, depth) ==
    LET Search[d \in 1..depth] ==
          IF d = 1
          THEN LookFrom([found |-> Unknown, visited |-> {start}, queue |-> <<>>],
                        way, start, Unknown, goals)
          ELSE LET before == Search[d - 1]
               IN  FoldLeft(LAMBDA r, e : LookFrom(r, way, e[1], e[2], goals),
                            [before EXCEPT !.queue = <<>>], before.queue)
    IN  Search[depth].found

(* _ForwardModel.plan() *)
Plan(v) ==
    IF terminals = {} THEN Unknown ELSE FirstStep("model", Hash(v), terminals, MaxPlanDepth)

(* _goal_bfs() *)
GoalPlan(v) ==
    LET player == Centroid(v, playerColour)  goal == Centroid(v, goalColour)
        near == (goal - Tolerance)..(goal + Tolerance)
    IN  IF \/ player = Unknown \/ goal = Unknown
           \/ Cardinality(Movers) < MinDrifts
        THEN Unknown
        ELSE IF player \in near THEN Unknown ELSE FirstStep("goal", player, near, GoalDepth)

-----------------------------------------------------------------------------
(* choose(): the planner, the search for the goal, else the best score. *)
Chosen(v) ==
    IF Plan(v) # Unknown THEN {Plan(v)}
    ELSE IF GoalPlan(v) # Unknown THEN {GoalPlan(v)} ELSE ActionNames
ChooseMove ==
    /\ action = Unknown /\ Cardinality(observed) < MaxMoves
    /\ action' \in Chosen(view)
    /\ lastHash' = Hash(view)
    /\ lastCentroid' = Centroid(view, playerColour)
    /\ UNCHANGED <<view, level, goalColour, playerColour, detectorVars, cacheVars, observed>>

(* _GoalColorDetector.current(): the colour most credited, the lower of    *)
(* two; the colour stays what it is before the detector has one.           *)
GoalAfter(credited, n) ==
    LET top == Max({credited[c] : c \in Colours})
    IN  IF n < MinAdvances \/ top = 0 THEN goalColour
        ELSE Min({c \in Colours : credited[c] = top})

(* _PlayerColorDetector.current(): after enough observations any colour    *)
(* may have the drift that depends most on the action, or none.            *)
PlayersAfter(n) ==
    IF n < MinObservations THEN {playerColour} ELSE {playerColour} \cup Colours

(* Mutant of CachesAfter: the walls around the last player stay. *)
CachesAfterKeptPositions(rekeyed) ==
    [IF rekeyed THEN NoCaches
     ELSE [walls |-> walls, positionWalls |-> positionWalls, transitions |-> transitions,
           terminals |-> terminals, drifts |-> drifts] EXCEPT !.positionWalls = positionWalls]
(* _reset_state_dependent_caches(), if a colour has changed. *)
CachesAfter(rekeyed) ==
    IF rekeyed THEN NoCaches
    ELSE [walls |-> walls, positionWalls |-> positionWalls, transitions |-> transitions,
          terminals |-> terminals, drifts |-> drifts]

(* Mutants of HashAfter, lastHash in the rest of observe(): it survives a  *)
(* change of the colours.                                                  *)
HashAfterKept(rekeyed) == lastHash
HashAfter(rekeyed) == IF rekeyed THEN Unknown ELSE lastHash

(* How a step is classified, by the player's drift or by the cells.        *)
Outcome(before, after, changed) ==
    IF before # Unknown /\ after # Unknown
    THEN CASE AbsOf(after - before) > MoveThreshold -> "real_move"
           [] after = before -> "blocked_wobble"
           [] OTHER -> "ambiguous_drift"
    ELSE IF changed >= ChangeThreshold THEN "real_move" ELSE "blocked_wobble"

(* observe(): the detectors first, then all that is learned of the step.   *)
(* The frame that follows is the one observed, or that of a reset.         *)
ObserveMove ==
    \E next \in Views, up \in {0, 1}, player \in PlayersAfter(observations + 1) :
        LET credited == [c \in Colours |-> credits[c] + up * Credit(view, next, c)]
            goal == GoalAfter(credited, advances + up)
            rekeyed == goal # goalColour \/ player # playerColour
            caches == CachesAfter(rekeyed)
            hash == HashAfter(rekeyed)
            before == IF rekeyed THEN Unknown ELSE lastCentroid
            after == Centroid(next, player)
            outcome == Outcome(before, after, Cardinality(Changed(view, next)))
            blocked == outcome = "blocked_wobble" /\ hash # Unknown
        IN  /\ action # Unknown /\ level + up <= MaxLevels
            /\ goalColour' = goal /\ playerColour' = player
            /\ credits' = credited /\ advances' = advances + up
            /\ observations' = IF \E c \in Colours : NoCell \notin {view[c], next[c]}
                               THEN observations + 1 ELSE observations
            /\ walls' = IF blocked THEN caches.walls \cup {<<hash, action>>} ELSE caches.walls
            /\ positionWalls' = IF blocked /\ before # Unknown
                                THEN caches.positionWalls \cup {<<before, action>>}
                                ELSE caches.positionWalls
            /\ drifts' = IF outcome = "real_move" /\ before # Unknown /\ after # Unknown
                         THEN [caches.drifts EXCEPT ![action] =
                                 <<@[1] + after - before, @[2] + 1>>]
                         ELSE caches.drifts
            /\ transitions' = IF hash = Unknown THEN caches.transitions
                              ELSE [k \in DOMAIN caches.transitions \cup {<<hash, action>>} |->
                                      IF k = <<hash, action>> THEN HashWith(next, goal, player)
                                      ELSE caches.transitions[k]]
            /\ terminals' = IF hash # Unknown /\ up = 1
                            THEN caches.terminals \cup {HashWith(next, goal, player)}
                            ELSE caches.terminals
            /\ observed' = observed \cup {<<Cardinality(observed), view, action, next, up>>}
            /\ lastHash' = hash /\ lastCentroid' = before
            /\ view' \in {next} \cup (IF up = 0 THEN FirstViews ELSE {}) /\ level' = level + up
            /\ action' = Unknown

ShadowNext == ChooseMove \/ ObserveMove
ShadowSpec == ShadowInit /\ [][ShadowNext]_shadowVars

-----------------------------------------------------------------------------
ShadowTypeOK ==
    /\ view \in Views
    /\ {goalColour, playerColour} \subseteq Colours \cup {Unknown}
    /\ action \in ActionNames \cup {Unknown}
    /\ \A a \in ActionNames : drifts[a][2] \in 0..MaxMoves

(* Whatever the strategy believes of the game follows from what it saw     *)
(* with the colours it trusts now: every transition, wall and last level   *)
(* can be read again off an observation.                                   *)
LearnedWithPresentColours ==
    /\ \A k \in DOMAIN transitions : \E o \in observed :
          Hash(o[2]) = k[1] /\ o[3] = k[2] /\ Hash(o[4]) = transitions[k]
    /\ \A k \in walls : \E o \in observed : Hash(o[2]) = k[1] /\ o[3] = k[2]
    /\ \A k \in positionWalls : \E o \in observed :
          /\ Centroid(o[2], playerColour) = k[1] /\ o[3] = k[2]
          /\ Centroid(o[4], playerColour) \in {k[1], Unknown}
    /\ \A s \in terminals : \E o \in observed : Hash(o[4]) = s /\ o[5] = 1

(* Reference for the searches: where exactly k known steps can lead. *)
ReachedIn(start, Succ(_, _), k) ==
    LET R[i \in 0..k] == IF i = 0 THEN {start}
                         ELSE UNION {Succ(s, a) : s \in R[i - 1], a \in ActionNames}
    IN  R[k]
BeginsShortest(first, start, Succ(_, _), IsGoal(_), depth) ==
    LET hits == {k \in 1..depth : \E s \in ReachedIn(start, Succ, k) : IsGoal(s)}
    IN  IF first = Unknown THEN hits = {}
        ELSE /\ hits # {}
             /\ \E n \in Succ(start, first) :
                   \E s \in ReachedIn(n, Succ, Min(hits) - 1) : IsGoal(s)

(* The planner's action begins a shortest known path to a state that gave  *)
(* a level, and there is none if it has no action; a step towards the goal *)
(* begins a shortest way that no known wall is in.                         *)
PlansAreShortest ==
    action = Unknown =>
        /\ BeginsShortest(Plan(view), Hash(view), Led, LAMBDA s : s \in terminals, MaxPlanDepth)
        /\ LET goal == Centroid(view, goalColour)
               AtGoal(p) == AbsOf(p - goal) <= Tolerance
           IN  GoalPlan(view) # Unknown =>
                  LET Free(p, a) == IF <<p, a>> \in positionWalls \/ a \notin Movers THEN {}
                                    ELSE {p + MoveOf(a)}
                  IN  BeginsShortest(GoalPlan(view), Centroid(view, playerColour), Free, AtGoal,
                                     GoalDepth)

(* The strategy knows only what it saw, and plans shortest ways. *)
ShadowInv == ShadowTypeOK /\ LearnedWithPresentColours /\ PlansAreShortest
=============================================================================
