------------------------------- MODULE FastControl -------------------------------
(***************************************************************************)
(* FastControlLoop (src/control/fastControlLoop.ts) around PIDController   *)
(* (src/control/pidController.ts), with integer gains, a step of 1 and the *)
(* default anti-windup limits.  The plant is the environment: it measures  *)
(* anything, values that are not finite included.  run() awaits the plant  *)
(* twice a tick, and the owner of the controller may move its setpoint or  *)
(* reset it meanwhile; setpoints are finite.                               *)
(***************************************************************************)
EXTENDS Integers, Sequences, SequencesExt, FiniteSetsExt, FiniteSets

CONSTANTS
    Measurements, Setpoints,
    NaN, Infinity, MinusInfinity,
    Kp, Ki, Kd,            \* gains
    OutputMin, OutputMax,  \* limits of the output, and of the integral
    SettleTolerance, SettleWindow,
    MaxTicks,              \* maxTicks of a run
    MaxMoves               \* bound: moves of the controller's owner during it

ASSUME ControlAssumption ==
    /\ Measurements \subseteq Int /\ Setpoints \subseteq Int
    /\ {NaN, Infinity, MinusInfinity} \cap Int = {}
    /\ NaN # Infinity /\ NaN # MinusInfinity /\ Infinity # MinusInfinity
    /\ {Kp, Ki, Kd} \subseteq Nat
    /\ OutputMin \in Int /\ OutputMax \in Int /\ OutputMin <= 0 /\ 0 <= OutputMax
    /\ SettleTolerance \in Nat
    /\ SettleWindow \in Nat \ {0} /\ MaxTicks \in Nat \ {0} /\ MaxMoves \in Nat

VARIABLES
    setpoint,      \* of the controller
    integral,
    prev,          \* prevMeasurement, <<>> while undefined
    aim,           \* the setpoint the run started with, <<>> before
    measured,      \* what the run measured and has yet to act on, <<>> if nothing
    initialError,  \* of the run, as magnitude; -1 before it is measured
    ticks,         \* the ticks of the run: measurement, error, output, saturated;
                   \* and what was read and aimed at (history)
    report,        \* of the finished run, NoReport before
    moves          \* bookkeeping: moves of the owner

controlVars == <<setpoint, integral, prev, aim, measured, initialError, ticks, report, moves>>

NotFinite == {NaN, Infinity, MinusInfinity}
Finite(v) == v \in Int
NoReport == [settleTick |-> 0, verdict |-> "none"]

ControlInit ==
    /\ setpoint \in Setpoints
    /\ integral = 0
    /\ prev = <<>>
    /\ aim = <<>>
    /\ measured = <<>>
    /\ initialError = -1
    /\ ticks = <<>>
    /\ report = NoReport
    /\ moves = 0

Abs(v) == IF v < 0 THEN -v ELSE v

(* setpoint - measurement. *)
Error(m) ==
    CASE Finite(m) -> setpoint - m
      [] m = Infinity -> MinusInfinity
      [] m = MinusInfinity -> Infinity
      [] OTHER -> NaN
UnderTarget(error) == error = Infinity \/ (Finite(error) /\ error > 0)
OverTarget(error) == error = MinusInfinity \/ (Finite(error) /\ error < 0)

(* What a tick records of a value. *)
Round6(v) == IF Finite(v) THEN v ELSE 0

(* run() up to its first await. *)
StartRun ==
    /\ aim = <<>>
    /\ aim' = <<setpoint>>
    /\ UNCHANGED <<setpoint, integral, prev, measured, initialError, ticks, report, moves>>

(* The measurement the run starts from. *)
MeasureFirst ==
    \E m \in Measurements \cup NotFinite :
        /\ aim # <<>> /\ initialError = -1
        /\ initialError' = IF Finite(m) THEN Abs(aim[1] - m) ELSE NaN
        /\ UNCHANGED <<setpoint, integral, prev, aim, measured, ticks, report, moves>>

(* plant.measure() answers. *)
Measure ==
    \E m \in Measurements \cup NotFinite :
        /\ initialError # -1 /\ measured = <<>> /\ Len(ticks) < MaxTicks
        /\ measured' = <<m>>
        /\ UNCHANGED <<setpoint, integral, prev, aim, initialError, ticks, report, moves>>

(* What is not finite counts as the least. *)
Clamp(v) == IF Finite(v) THEN Max({OutputMin, Min({OutputMax, v})}) ELSE OutputMin

(* derivativeTerm(), on the measurement; NaN stands for any sum that is    *)
(* not finite, here and below: it is only asked whether it is.             *)
Derivative(m) ==
    IF Kd = 0 \/ prev = <<>> THEN 0
    ELSE IF Finite(m) /\ Finite(prev[1]) THEN -Kd * (m - prev[1]) ELSE NaN

(* What the law asks for with a given integral. *)
Raw(error, m, i) ==
    IF Finite(error) /\ Finite(Derivative(m)) THEN Kp * error + i + Derivative(m) ELSE NaN

Candidate(error) == Clamp(IF Finite(error) THEN integral + Ki * error ELSE NaN)

(* While the output is saturated, the integral may not push it deeper. *)
Saturated(error, m, candidate) == Raw(error, m, candidate) # Clamp(Raw(error, m, candidate))
PushingDeeper(error, clamped) ==
    \/ clamped >= OutputMax /\ UnderTarget(error)
    \/ clamped <= OutputMin /\ OverTarget(error)
Committed(error, m, candidate) ==
    IF /\ Saturated(error, m, candidate)
       /\ PushingDeeper(error, Clamp(Raw(error, m, candidate)))
    THEN integral ELSE candidate

(* PIDController.update(), plant.actuate() and the tick's record. *)
Update ==
    LET m == measured[1]
        error == Error(m)
        candidate == Candidate(error)
        kept == Committed(error, m, candidate)
    IN  /\ measured # <<>>
        /\ integral' = kept
        /\ prev' = <<m>>
        /\ ticks' = Append(ticks, [measurement |-> Round6(m), error |-> Round6(error),
                                   output |-> Clamp(Raw(error, m, kept)),
                                   saturated |-> Saturated(error, m, candidate),
                                   read |-> m, aimed |-> setpoint])
        /\ measured' = <<>>
        /\ UNCHANGED <<setpoint, aim, initialError, report, moves>>

(* setSetpoint() and reset(), by the owner of the controller. *)
SetSetpoint ==
    /\ setpoint' \in Setpoints \ {setpoint}
    /\ UNCHANGED <<integral, prev, aim, measured, initialError, ticks, report>>
ResetController ==
    /\ integral' = 0
    /\ prev' = <<>>
    /\ UNCHANGED <<setpoint, aim, measured, initialError, ticks, report>>
Move ==
    /\ report = NoReport /\ moves < MaxMoves
    /\ moves' = moves + 1
    /\ SetSetpoint \/ ResetController

-----------------------------------------------------------------------------
(* summarize() and classify() *)

Within(k) == Abs(ticks[k].error) <= SettleTolerance

(* Mutant of SettleStarts: a window may run past the last tick. *)
SettleStartsLate == {s \in 1..Len(ticks) : \A k \in s..Len(ticks) : Within(k)}

(* Ticks (from 1 on; 0 is null) a settling of a full window may start at. *)
SettleStarts == {s \in 1..(Len(ticks) - SettleWindow + 1) : \A k \in s..Len(ticks) : Within(k)}
SettleTick == IF SettleStarts = {} THEN 0 ELSE Min(SettleStarts)

Delta(k) == ticks[k].error - ticks[k - 1].error
OscillationCount == Cardinality({k \in 3..Len(ticks) : Delta(k - 1) * Delta(k) < 0})
SaturatedTicks == Cardinality({k \in DOMAIN ticks : ticks[k].saturated})

Verdict ==
    CASE SettleTick # 0 -> "converged"
      [] SettleTick = 0 /\ Finite(initialError) /\ initialError > 0
         /\ 2 * Abs(Last(ticks).error) > 3 * initialError -> "diverging"
      [] OTHER -> IF OscillationCount >= Max({3, Len(ticks) \div 3}) THEN "oscillating"
                  ELSE IF 2 * SaturatedTicks > Len(ticks) THEN "saturated"
                  ELSE "unsettled"
Finish ==
    /\ Len(ticks) = MaxTicks /\ report = NoReport
    /\ report' = [settleTick |-> SettleTick, verdict |-> Verdict]
    /\ UNCHANGED <<setpoint, integral, prev, aim, measured, initialError, ticks, moves>>

ControlNext ==
    StartRun \/ MeasureFirst \/ Measure \/ Update \/ Move \/ Finish
ControlSpec == ControlInit /\ [][ControlNext]_controlVars

-----------------------------------------------------------------------------
ControlTypeOK ==
    /\ setpoint \in Setpoints
    /\ integral \in OutputMin..OutputMax
    /\ \A k \in DOMAIN ticks : ticks[k].output \in OutputMin..OutputMax
    /\ report.settleTick \in 0..Len(ticks)

(* However long the plant was out of reach, or its readings not finite,    *)
(* the integral does not keep the actuator at its limit once a reading     *)
(* shows the error to have changed sign: it stays there only for a         *)
(* derivative that calls for it, or right after a reading that is not      *)
(* finite, for want of a derivative.                                       *)
NoWindup ==
    \A k \in DOMAIN ticks :
        LET known == k > 1 /\ Finite(ticks[k - 1].read) /\ Finite(ticks[k].read)
            rose == known /\ ticks[k].read > ticks[k - 1].read
            fell == known /\ ticks[k].read < ticks[k - 1].read
            blind == k > 1 /\ Kd > 0 /\ ~Finite(ticks[k - 1].read)
        IN  /\ ticks[k].error < 0 /\ ticks[k].output = OutputMax => fell
            /\ ticks[k].error > 0 /\ ticks[k].output = OutputMin => rose \/ blind

(* What a tick that counts as within tolerance tells: the reading was as   *)
(* near to what was aimed at then, or it was not finite.                   *)
NearOrLost(k) ==
    Finite(ticks[k].read) => Abs(ticks[k].aimed - ticks[k].read) <= SettleTolerance

(* A run is reported as converged exactly if its last window of ticks was  *)
(* near what each of them aimed at, or read nothing finite, and from the   *)
(* first tick on that nothing left it again.  So the report speaks of its  *)
(* own setpoint only if the window was finite and nobody moved the         *)
(* setpoint: it also counts a window of two setpoints, and one of a plant  *)
(* that measures nothing.                                                  *)
ConvergedMeansSettled ==
    report # NoReport =>
        /\ report.verdict = "converged" <=>
              /\ Len(ticks) >= SettleWindow
              /\ \A k \in (Len(ticks) - SettleWindow + 1)..Len(ticks) : NearOrLost(k)
        /\ report.settleTick > 1 => ~NearOrLost(report.settleTick - 1)

(* The controller does not wind up, and a run reported as converged has    *)
(* settled as far as its readings tell.                                    *)
ControlInv == ControlTypeOK /\ NoWindup /\ ConvergedMeansSettled
=============================================================================
