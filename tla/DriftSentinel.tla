----------------------------- MODULE DriftSentinel -----------------------------
(***************************************************************************)
(* DriftSentinelKernel (src/core/driftSentinelKernel.ts).  The divergence  *)
(* of an observation is one of three bands: under the base sensitivity,    *)
(* at the critical ceiling, or between.  The rolling mean and deviation    *)
(* are numbers and not modelled: between the bands an observation is over  *)
(* the dynamic threshold or not.  An event's hash is its number.           *)
(***************************************************************************)
EXTENDS Naturals, Sequences, SequencesExt, FiniteSetsExt, FiniteSets

CONSTANTS
    SignalFloor,          \* stigmergicSignalFloor
    MaxEvents, MaxPendingSignals,
    MaxObserved           \* bound: observations

Severities == <<"nominal", "watch", "elevated", "critical">>
Order(severity) == CHOOSE i \in DOMAIN Severities : Severities[i] = severity

ASSUME SentinelAssumption ==
    /\ SignalFloor \in ToSet(Severities)
    /\ MaxEvents \in Nat \ {0} /\ MaxPendingSignals \in Nat \ {0} /\ MaxObserved \in Nat

VARIABLES
    events,               \* the ring of retained events, oldest first
    pendingSignals,       \* the ring of signals nobody consumed yet
    counters,             \* observed, flagged and critical events
    chainHead,            \* hash of the newest event, 0 while undefined
    consumed,             \* bookkeeping: events that had been observed at the last drain
    judged                \* bookkeeping: severity of every observation

sentinelVars == <<events, pendingSignals, counters, chainHead, consumed, judged>>

SentinelInit ==
    /\ events = <<>>
    /\ pendingSignals = <<>>
    /\ counters = [observed |-> 0, flagged |-> 0, critical |-> 0]
    /\ chainHead = 0
    /\ consumed = 0
    /\ judged = <<>>

(* classifySeverity() *)
Classified(band) ==
    CASE band = "low" -> {"nominal"}
      [] band = "middle" -> {"watch", "elevated"}
      [] band = "high" -> {"critical"}

PushedIfRoom(ring, size, e) == IF Len(ring) < size THEN Append(ring, e) ELSE ring

Pushed(ring, size, e) == Append(IF Len(ring) < size THEN ring ELSE Tail(ring), e)

(* Severities a signal is emitted for. *)
Signals(severity) == Order(severity) >= Order(SignalFloor)

(* observe(): the event is chained, counted and, if severe, signalled. *)
Observe ==
    \E band \in {"low", "middle", "high"} : \E severity \in Classified(band) :
        LET e == [hash |-> counters.observed + 1, parentHash |-> chainHead, severity |-> severity]
        IN  /\ counters.observed < MaxObserved
            /\ events' = Pushed(events, MaxEvents, e)
            /\ chainHead' = e.hash
            /\ counters' = [observed |-> counters.observed + 1,
                            flagged |-> counters.flagged + (IF severity # "nominal" THEN 1 ELSE 0),
                            critical |-> counters.critical + (IF severity = "critical" THEN 1 ELSE 0)]
            /\ pendingSignals' = IF Signals(severity)
                                 THEN Pushed(pendingSignals, MaxPendingSignals, e)
                                 ELSE pendingSignals
            /\ judged' = Append(judged, severity)
            /\ UNCHANGED consumed

(* consumeStigmergicEvents() *)
Consume ==
    /\ pendingSignals' = <<>>
    /\ consumed' = counters.observed
    /\ UNCHANGED <<events, counters, chainHead, judged>>

SentinelNext == Observe \/ Consume
SentinelSpec == SentinelInit /\ [][SentinelNext]_sentinelVars

(* verifyChain() *)
ChainValid ==
    \A i \in DOMAIN events :
        events[i].parentHash = IF i = 1 THEN 0 ELSE events[i - 1].hash

-----------------------------------------------------------------------------
SentinelTypeOK ==
    /\ Len(events) <= MaxEvents /\ Len(pendingSignals) <= MaxPendingSignals
    /\ counters.critical <= counters.flagged /\ counters.flagged <= counters.observed
    /\ chainHead = counters.observed

(* The newest signals since the last drain are there to be consumed, in    *)
(* order and once each; only those beyond the ring's size are lost, the    *)
(* oldest first.                                                           *)
SignalsAwaitConsumer ==
    LET due == {h \in (consumed + 1)..Len(judged) : Signals(judged[h])}
    IN  /\ \A i \in DOMAIN pendingSignals :
              /\ pendingSignals[i].hash \in due
              /\ i > 1 => pendingSignals[i - 1].hash < pendingSignals[i].hash
        /\ \A h \in due : \/ \E i \in DOMAIN pendingSignals : pendingSignals[i].hash = h
                          \/ /\ Len(pendingSignals) = MaxPendingSignals
                             /\ h < pendingSignals[1].hash

(* A dashboard rewinds to every flagged event of the newest MaxEvents, and *)
(* the telemetry counts those that left the ring too.                      *)
RewindFindsFlagged ==
    /\ \A i \in DOMAIN events :
          /\ events[i].hash = Len(judged) - Len(events) + i
          /\ events[i].severity = judged[events[i].hash]
    /\ Len(events) = Min({Len(judged), MaxEvents})
    /\ counters.flagged = Cardinality({h \in DOMAIN judged : judged[h] # "nominal"})

(* The chain verifies as long as the ring has dropped no event; from then  *)
(* on the oldest one it holds names a parent that is gone (verifyChain).   *)
VerifiesUntilWrapped == ChainValid <=> Len(judged) <= MaxEvents

(* Signals wait for their consumer and flagged events for a rewind, as     *)
(* both rings wrap at their own pace.                                      *)
SentinelInv ==
    /\ SentinelTypeOK
    /\ SignalsAwaitConsumer
    /\ RewindFindsFlagged
    /\ VerifiesUntilWrapped
=============================================================================
