------------------------------- MODULE ArcAgent -------------------------------
(***************************************************************************)
(* MCOPArcAgi3Agent.play() (mcop_package/mcop/adapters/arcagi3_agent.py):  *)
(* one game, from the scorecard that is opened to the scorecard that is    *)
(* closed, with the stuck detector, the etch ledger and the trace store,   *)
(* and two of its kinds of strategy: a language model that picks every     *)
(* action (GrokStrategy, QwenStrategy), and one that first maps what every *)
(* action does (MappingGrokStrategy, and MappingQwenStrategy, its copy).   *)
(* SIGTERM arrives as KeyboardInterrupt between any two steps of the loop. *)
(* Actions are numbers, as in ACTION3.                                     *)
(***************************************************************************)
EXTENDS Integers, Sequences, SequencesExt, FiniteSets, FiniteSetsExt

CONSTANTS
    Complex,            \* COMPLEX_ACTIONS, which need a coordinate
    Offers,             \* what frames offer: sets of actions, by kind of strategy
    Picks,              \* what a language model names, allowed or not; 0 is no action
    MaxActions,         \* max_actions of a game, by kind of strategy
    MaxLevel,           \* bound: levels of a game
    TraceCapacity       \* max_traces of the trace store

Kinds == {"model", "mapping"}
ASSUME ArcAssumption ==
    /\ \A k \in Kinds : \A offer \in Offers[k] :
          offer \subseteq Nat \ {0} /\ offer # {} /\ IsFiniteSet(offer)
    /\ Picks \subseteq Nat
    /\ MaxActions \in [Kinds -> Nat] /\ MaxLevel \in Nat /\ TraceCapacity \in Nat \ {0}

VARIABLES
    kind,           \* of the strategy
    stage,          \* of the loop: what comes next
    frame,          \* the current frame, or Null
    nextFrame,      \* what the last step() returned
    picked,         \* the action of this round
    steps,          \* result.steps: action and level
    lastWarned,     \* of the stuck detector, <<>> for None
    mapping,        \* MappingGrokStrategy: initialized, queue, pending, effects
    etched, traces, \* of the ledger and the store: the rounds they hold
    result,         \* final_state and levels_completed
    card,           \* of the scorecard: "open" or "closed"
    played, offered,\* bookkeeping: actions the environment took, what it offered
    exploited,      \* bookkeeping: the mapping strategy has asked its model
    warnings        \* bookkeeping: steps the stuck detector warned at

mappingVars == <<mapping, exploited>>
arcVars == <<kind, stage, frame, nextFrame, picked, steps, lastWarned, mapping, etched, traces,
             result, card, played, offered, exploited, warnings>>

Null == [state |-> "null"]
Frame(state, level, available) == [state |-> state, level |-> level, available |-> available]
Unmapped == [initialized |-> FALSE, queue |-> <<>>, pending |-> 0, effects |-> {}]

ArcInit ==
    /\ kind \in Kinds
    /\ stage = "reset"
    /\ frame = Null /\ nextFrame = Null
    /\ picked = 0
    /\ steps = <<>> /\ lastWarned = <<>>
    /\ mapping = Unmapped
    /\ etched = <<>> /\ traces = <<>>
    /\ result = [state |-> "NOT_PLAYED", level |-> 0]
    /\ card = "open"
    /\ played = <<>> /\ offered = <<>> /\ exploited = FALSE /\ warnings = {}

-----------------------------------------------------------------------------
(* A frame to start from, after a game over on the level reached; the      *)
(* environment may have none.                                              *)
StartFrames(level) == {Null} \cup {Frame("playing", level, a) : a \in Offers[kind]}
LevelOf(f) == IF f = Null THEN 0 ELSE f.level

Reset ==
    /\ stage = "reset"
    /\ frame' \in StartFrames(LevelOf(nextFrame))
    /\ stage' = "round"
    /\ UNCHANGED <<kind, nextFrame, picked, steps, lastWarned, mapping, etched, traces, result,
                   card, played, offered, exploited, warnings>>

(* finally: what the frame says, unless the game was interrupted. *)
ExitSnapshot(interrupted) ==
    [state |-> IF interrupted THEN "INTERRUPTED"
               ELSE IF frame = Null THEN result.state ELSE frame.state,
     level |-> IF frame = Null THEN result.level ELSE frame.level]

Leave(interrupted) ==
    /\ result' = ExitSnapshot(interrupted)
    /\ card' = "closed"
    /\ stage' = "done"
    /\ UNCHANGED <<kind, frame, nextFrame, picked, steps, lastWarned, mapping, etched, traces,
                   played, offered, exploited, warnings>>

(* No frame, no actions left, or the game is won. *)
GameEnds ==
    /\ stage = "round"
    /\ frame = Null \/ Len(steps) = MaxActions[kind] \/ frame.state = "WIN"
    /\ Leave(FALSE)

Interrupt == stage # "done" /\ Leave(TRUE)

(* The environment raises: what the result would have been is lost, the    *)
(* scorecard is closed all the same.                                       *)
EnvironmentRaises ==
    /\ stage \in {"reset", "step"}
    /\ Leave(FALSE)

-----------------------------------------------------------------------------
(* The action of the round. *)

Distance(a, b) == IF a < b THEN b - a ELSE a - b

(* _decide_action(): the action the model named if it is allowed, else the *)
(* nearest allowed one, the lower of two; a fallback picks at random.      *)
Nearest(pick, allowed) ==
    Min({a \in allowed : \A b \in allowed : Distance(a, pick) <= Distance(b, pick)})
Decided(allowed) ==
    {IF p \in allowed THEN p ELSE Nearest(p, allowed) : p \in Picks \ {0}}
    \cup IF 0 \in Picks THEN allowed ELSE {}

(* _init_queue(): every action once, those without a coordinate first. *)
Before(a, b) == IF a \in Complex <=> b \in Complex THEN a < b ELSE b \in Complex
Queue(available) ==
    [n \in 1..Cardinality(available) |->
        CHOOSE a \in available : Cardinality({b \in available : Before(b, a)}) = n - 1]

(* Mutant of StillToMap: an action is mapped whether it is offered or not. *)
StillToMapOffered(queue, effects, available) == SelectSeq(queue, LAMBDA a : a \notin effects)

(* The queue without its leading entries that are mapped or unavailable.   *)
StillToMap(queue, effects, available) ==
    LET wanted == {i \in DOMAIN queue : queue[i] \notin effects /\ queue[i] \in available}
    IN  IF wanted = {} THEN <<>> ELSE SubSeq(queue, Min(wanted), Len(queue))

MapOrExploit(available) ==
    LET queue == IF mapping.initialized THEN mapping.queue ELSE Queue(available)
        left == StillToMap(queue, mapping.effects, available)
    IN  IF left # <<>>
        THEN /\ picked' = Head(left)
             /\ mapping' = [mapping EXCEPT !.initialized = TRUE, !.queue = left,
                                           !.pending = Head(left)]
             /\ UNCHANGED exploited
        ELSE /\ picked' \in Decided(available)
             /\ mapping' = [mapping EXCEPT !.initialized = TRUE, !.queue = <<>>, !.pending = 0]
             /\ exploited' = TRUE

Choose ==
    /\ stage = "round" /\ frame # Null
    /\ Len(steps) < MaxActions[kind] /\ frame.state # "WIN"
    /\ IF kind = "mapping" THEN MapOrExploit(frame.available)
       ELSE picked' \in Decided(frame.available) /\ UNCHANGED mappingVars
    /\ offered' = Append(offered, frame.available)
    /\ stage' = "step"
    /\ UNCHANGED <<kind, frame, nextFrame, steps, lastWarned, etched, traces, result, card,
                   played, warnings>>

(* env.step(): the game goes on, perhaps a level up, is over, won, or its  *)
(* answer never came.                                                      *)
PlayStep ==
    /\ stage = "step"
    /\ played' = Append(played, picked)
    /\ nextFrame' \in {Null, Frame("GAME_OVER", frame.level, frame.available),
                       Frame("WIN", frame.level, frame.available)}
                      \cup {Frame("playing", l, a) :
                                l \in frame.level..Min({MaxLevel, frame.level + 1}), a \in Offers[kind]}
    /\ stage' = "observe"
    /\ UNCHANGED <<kind, frame, picked, steps, lastWarned, mapping, etched, traces, result, card,
                   offered, exploited, warnings>>

Learned(action) ==
    IF mapping.pending # action THEN mapping
    ELSE [mapping EXCEPT !.effects = @ \cup {action}, !.queue = Tail(@), !.pending = 0]

(* strategy.observe(), which learns from two frames, or raises and is      *)
(* ignored.                                                                *)
ObserveStep ==
    /\ stage = "observe"
    /\ \/ kind = "mapping" /\ nextFrame # Null /\ mapping' = Learned(picked)
       \/ UNCHANGED mapping
    /\ stage' = "etch"
    /\ UNCHANGED <<kind, frame, nextFrame, picked, steps, lastWarned, etched, traces, result,
                   card, played, offered, exploited, warnings>>

Etch ==
    /\ stage = "etch"
    /\ etched' = Append(etched, Len(played))
    /\ stage' = "trace"
    /\ UNCHANGED <<kind, frame, nextFrame, picked, steps, lastWarned, mapping, traces, result,
                   card, played, offered, exploited, warnings>>

(* StigmergyStore.record_trace(), which evicts the oldest trace. *)
Trace ==
    /\ stage = "trace"
    /\ traces' = LET all == Append(traces, Len(played))
                 IN  IF Len(all) > TraceCapacity THEN Tail(all) ELSE all
    /\ stage' = "record"
    /\ UNCHANGED <<kind, frame, nextFrame, picked, steps, lastWarned, mapping, etched, result,
                   card, played, offered, exploited, warnings>>

-----------------------------------------------------------------------------
(* _StuckDetector: cycles of two actions, three times, or of three, twice. *)
Window(s, k) == SubSeq(s, k - 5, k)
Cycles(window, period) ==
    /\ \A i \in 1..6 : i > period => window[i][1] = window[i - period][1]
    /\ \E i \in 2..period : window[i][1] # window[1][1]
OneLevel(window) == \A i \in 2..6 : window[i][2] = window[1][2]

Signature(window, period) ==
    <<period, {window[i][1] : i \in 1..period}, window[1][2]>>

(* What the detector remembers after the window, and whether it warns. *)
Watched(window) ==
    LET periods == {p \in {2, 3} : Cycles(window, p)}
        signature == Signature(window, Min(periods))
    IN  CASE ~OneLevel(window) -> [warned |-> <<>>, now |-> FALSE]
          [] OneLevel(window) /\ periods # {} ->
                [warned |-> signature, now |-> signature # lastWarned]
          [] OTHER -> [warned |-> IF window[6][1] # window[5][1] THEN <<>> ELSE lastWarned,
                       now |-> FALSE]

RecordStep ==
    LET all == Append(steps, <<picked, LevelOf(nextFrame)>>)
        watched == IF Len(all) < 6 THEN [warned |-> lastWarned, now |-> FALSE]
                   ELSE Watched(Window(all, Len(all)))
    IN  /\ stage = "record"
        /\ steps' = all
        /\ lastWarned' = watched.warned
        /\ warnings' = IF watched.now THEN warnings \cup {Len(all)} ELSE warnings
        /\ frame' = nextFrame
        /\ stage' = IF nextFrame.state = "GAME_OVER" THEN "reset" ELSE "round"
        /\ UNCHANGED <<kind, nextFrame, picked, mapping, etched, traces, result, card, played,
                       offered, exploited>>

ArcNext ==
    \/ Reset \/ GameEnds \/ Interrupt \/ EnvironmentRaises
    \/ Choose \/ PlayStep \/ ObserveStep \/ Etch \/ Trace \/ RecordStep
ArcSpec == ArcInit /\ [][ArcNext]_arcVars

-----------------------------------------------------------------------------
ArcTypeOK ==
    /\ stage \in {"reset", "round", "step", "observe", "etch", "trace", "record", "done"}
    /\ Len(steps) <= MaxActions[kind]
    /\ Len(traces) <= TraceCapacity
    /\ card \in {"open", "closed"}

(* Wherever a game is interrupted, its result lists the actions that were  *)
(* played, in order, but perhaps the last; the memories are not behind the *)
(* result by more than that action; the scorecard is closed.               *)
InterruptedResultAnswers ==
    /\ [k \in DOMAIN steps |-> steps[k][1]] = SubSeq(played, 1, Len(steps))
    /\ Len(steps) \in {Len(played) - 1, Len(played)}
    /\ Len(etched) \in Len(steps)..Len(played)
    /\ traces # <<>> => Last(traces) \in {Len(etched) - 1, Len(etched)}
    /\ stage = "done" => /\ card = "closed"
                         /\ (result.state # "INTERRUPTED" /\ frame # Null /\ frame = nextFrame)
                              => (Len(steps) > 0 => result.level = Last(steps)[2])

(* An action is only picked from what its frame offers; and when every     *)
(* frame offered the same, the mapping strategy asks its model only after  *)
(* it has seen what each action does.                                      *)
MappedBeforeExploited ==
    /\ \A k \in DOMAIN played : played[k] \in offered[k]
    /\ exploited /\ (\A k \in DOMAIN offered : offered[k] = offered[1]) =>
          offered[1] \subseteq mapping.effects

(* A loop without progress is reported once while it lasts: there is a     *)
(* warning since it began, and a second one only after it was left.        *)
Looping(k) == k >= 6 /\ OneLevel(Window(steps, k)) /\ \E p \in {2, 3} : Cycles(Window(steps, k), p)
SameLoop(j, k) ==
    \A i \in j..k : /\ Looping(i)
                    /\ {steps[x][1] : x \in (i - 5)..i} = {steps[x][1] : x \in (j - 5)..j}
LoopsReportedOnce ==
    /\ \A k \in DOMAIN steps : Looping(k) => \E j \in warnings : j <= k /\ SameLoop(j, k)
    /\ \A j, k \in warnings : j < k => ~SameLoop(j, k)

(* The result tells what was played, the strategy maps before it exploits, *)
(* and a loop is reported once.                                            *)
ArcInv ==
    ArcTypeOK /\ InterruptedResultAnswers /\ MappedBeforeExploited /\ LoopsReportedOnce
=============================================================================
