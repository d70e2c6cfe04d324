----------------------------- MODULE StabilityCoach -----------------------------
(***************************************************************************)
(* The visual-stability panel of the web application (VSICoach): the bus   *)
(* of layout shifts (src/app/_components/vsiBus.ts), the two hooks that    *)
(* collect shifts from it, useVSIPredictor with its Web Worker             *)
(* (src/components/useVSIWorker.ts) and useStabilityHeatmap, and the       *)
(* preview of a fix on the page.  Callbacks run to completion one at a     *)
(* time; timers may be late, and the worker answers when it pleases.       *)
(* React commits a new state, and runs the effects on it, at once.         *)
(***************************************************************************)
EXTENDS Integers, Sequences, SequencesExt, FiniteSets, FiniteSetsExt

CONSTANTS
    Selectors,      \* selectors a shift may be attributed to, in their order
    Elements,       \* elements that come to match a selector
    Amounts,        \* layout-shift scores
    MaxSamples,     \* samples the bus retains
    WindowMs, RecentMs, PollMs, PreviewMs,
    GoodThreshold, PoorThreshold,
    TopN,
    MaxClock, MaxShifts, MaxMounts, MaxChanges      \* bounds

ASSUME CoachAssumption ==
    /\ Selectors \subseteq Nat \ {0} /\ Amounts \subseteq Nat \ {0}
    /\ {MaxSamples, WindowMs, RecentMs, PollMs, PreviewMs, TopN} \subseteq Nat \ {0}
    /\ {MaxClock, MaxShifts, MaxMounts, MaxChanges} \subseteq Nat
    /\ RecentMs < WindowMs /\ GoodThreshold < PoorThreshold

VARIABLES
    clock,
    shifts,         \* shifts measured so far
    recentSamples,  \* the samples the bus retains
    worker,         \* is there a worker? One that never loads never answers
    mounted,        \* is the panel on the page?
    mounts,         \* times it was mounted
    hook,           \* hook[h]: the refs of a hook
    computed,       \* computed[h]: the samples h computed from last (history)
    calls,          \* compute() calls of this mount
    inbox,          \* payloads the worker has yet to answer
    handlers,       \* calls whose "message" handler is registered
    overlapped,     \* were two calls ever in flight at once? (history)
    shown,          \* the predictor's state
    offenders,      \* the heatmap's entries
    matching,       \* matching[s]: elements that match s, in document order
    styled,         \* elements that carry the inline styles of a preview
    preview,        \* previewSelectorRef and the time previewTimerRef is set to
    changes,        \* elements inserted and removed so far
    moved           \* did one come or go under a preview? (history)

busVars == <<shifts, recentSamples>>
workerVars == <<worker, calls, inbox, handlers, overlapped>>
pageVars == <<matching, changes, moved>>
previewVars == <<pageVars, styled, preview>>
coachVars == <<clock, busVars, mounted, mounts, hook, computed, workerVars, shown, offenders, previewVars>>

Hooks == {"predictor", "heatmap"}
NoSource == 0
Never == -1
LongAgo == -PollMs
NoRefs == [samples |-> <<>>, lastCompute |-> LongAgo, pending |-> Never]
IdleState == [call |-> 0, vsi |-> 0, status |-> "idle", trend |-> "stable",
              predictionMs |-> Never, predictionTarget |-> "none",
              shiftCount |-> 0, rootCause |-> NoSource]
NoPreview == [selector |-> NoSource, timer |-> Never]

Sample == [value : Amounts, startTime : Int, source : Selectors \cup {NoSource}]
CoachTypeOK ==
    /\ clock \in 0..MaxClock /\ shifts \in 0..MaxShifts /\ mounts \in 0..MaxMounts /\ mounted \in BOOLEAN
    /\ recentSamples \in Seq(Sample) /\ Len(recentSamples) <= MaxSamples
    /\ worker \in BOOLEAN
    /\ \A h \in Hooks :
        /\ hook[h].samples \in Seq(Sample) /\ computed[h] \in Seq(Sample)
        /\ hook[h].lastCompute \in Int /\ hook[h].pending \in Int
    /\ calls \in Nat /\ handlers \subseteq 1..calls /\ overlapped \in BOOLEAN
    /\ \A i \in DOMAIN inbox : inbox[i].call \in 1..calls
    /\ shown.call \in 0..calls
    /\ shown.status \in {"idle", "good", "ni", "poor"}
    /\ Len(offenders) <= TopN
    /\ matching \in [Selectors -> Seq(Elements)] /\ styled \subseteq Elements
    /\ preview.selector \in Selectors \cup {NoSource} /\ preview.timer \in Int
    /\ changes \in 0..MaxChanges /\ moved \in BOOLEAN

CoachInit ==
    /\ clock = 0 /\ shifts = 0 /\ recentSamples = <<>>
    /\ worker \in BOOLEAN
    /\ mounted = FALSE /\ mounts = 0 /\ calls = 0 /\ inbox = <<>> /\ handlers = {} /\ overlapped = FALSE
    /\ hook = [h \in Hooks |-> NoRefs] /\ computed = [h \in Hooks |-> <<>>]
    /\ shown = IdleState /\ offenders = <<>>
    /\ matching \in {m \in [Selectors -> BoundedSeq(Elements, 1)] :
                     \A r, s \in Selectors : r # s => ToSet(m[r]) \cap ToSet(m[s]) = {}}
    /\ styled = {} /\ preview = NoPreview /\ changes = 0 /\ moved = FALSE

-----------------------------------------------------------------------------
(* computeVSI(), as seen at the time now. *)

(* The samples of a list that are in a set, in their order. *)
Among(list, wanted) ==
    LET kept[n \in 0..Len(list)] ==
            IF n = 0 THEN <<>>
            ELSE IF list[n] \in wanted THEN Append(kept[n - 1], list[n]) ELSE kept[n - 1]
    IN  kept[Len(list)]

Total(list) == FoldLeft(LAMBDA sum, s : sum + s.value, 0, list)
From(list, start) == Among(list, {s \in ToSet(list) : s.startTime >= start})
Cause(list) ==
    LET named == {i \in DOMAIN list : list[i].source # NoSource}
    IN  IF named = {} THEN NoSource ELSE list[Max(named)].source

(* Shift per time of the recent slice against that of the older one. *)
Trend(recent, older) ==
    LET recentRate == 4 * recent * (WindowMs - RecentMs)
        olderRate == older * RecentMs
    IN  CASE recent > 0 /\ (older = 0 \/ recentRate > 5 * olderRate) -> "degrading"
          [] older > 0 /\ (recent = 0 \/ recentRate < 3 * olderRate) -> "improving"
          [] OTHER -> "stable"

Target(vsi) == IF vsi < GoodThreshold THEN "ni" ELSE IF vsi < PoorThreshold THEN "poor" ELSE "none"
Threshold(target) == IF target = "ni" THEN GoodThreshold ELSE PoorThreshold

ComputeVSI(samples, now, call) ==
    LET list == From(samples, now - WindowMs)
        vsi == Total(list)
        recent == Total(From(list, now - RecentMs))
        trend == Trend(recent, vsi - recent)
        target == IF trend = "degrading" THEN Target(vsi) ELSE "none"
    IN  [call |-> call, vsi |-> vsi,
         status |-> CASE list = <<>> -> "idle"
                      [] list # <<>> /\ vsi <= GoodThreshold -> "good"
                      [] vsi > GoodThreshold /\ vsi <= PoorThreshold -> "ni"
                      [] OTHER -> "poor",
         trend |-> trend,
         predictionMs |-> IF target = "none" THEN Never
                          ELSE (2 * (Threshold(target) - vsi) * RecentMs + recent) \div (2 * recent),
         predictionTarget |-> target,
         shiftCount |-> Len(list), rootCause |-> Cause(list)]

-----------------------------------------------------------------------------
(* aggregate() of the heatmap: the worst offenders, worst first. *)

Offender(list, s) ==
    LET his == Among(list, {x \in ToSet(list) : x.source = s})
    IN  [selector |-> s, value |-> Total(his), count |-> Len(his)]

RanksBefore(a, b) ==
    \/ a.value > b.value
    \/ a.value = b.value /\ a.count > b.count
    \/ a.value = b.value /\ a.count = b.count /\ a.selector < b.selector

Aggregate(list) ==
    LET entries == {Offender(list, list[i].source) : i \in DOMAIN list}
    IN  [n \in 1..Min({TopN, Cardinality(entries)}) |->
            CHOOSE e \in entries : Cardinality({f \in entries : RanksBefore(f, e)}) = n - 1]

-----------------------------------------------------------------------------
(* What both hooks do with a shift.  A step of a hook is its refs and the  *)
(* lists it computes from, in order.                                       *)

Pruned(list) ==
    LET first == SelectInSeq(list, LAMBDA s : s.startTime >= clock - WindowMs)
    IN  IF first = 0 THEN <<>> ELSE SubSeq(list, first, Len(list))

Wants(h, s) == h = "predictor" \/ s.source # NoSource

Recomputed(step) ==
    LET list == Pruned(step.refs.samples)
    IN  [refs |-> [step.refs EXCEPT !.samples = list], lists |-> Append(step.lists, list)]

(* Mutant of Scheduled: only the first shift of a burst is computed. *)
ScheduledLeading(step) ==
    IF clock - step.refs.lastCompute >= PollMs
    THEN Recomputed([step EXCEPT !.refs.lastCompute = clock])
    ELSE step

(* schedule(): at once, or by a timer that stays when it is already set. *)
Scheduled(step) ==
    IF clock - step.refs.lastCompute >= PollMs
    THEN Recomputed([step EXCEPT !.refs.lastCompute = clock])
    ELSE IF step.refs.pending # Never
    THEN step
    ELSE [step EXCEPT !.refs.pending = step.refs.lastCompute + PollMs]

Ingested(h, step, s) ==
    IF Wants(h, s)
    THEN Scheduled([step EXCEPT !.refs.samples = Append(Pruned(@), s)])
    ELSE step

Waking(h) == [refs |-> [hook[h] EXCEPT !.pending = Never, !.lastCompute = clock], lists |-> <<>>]

(* Mutant of Replayed: the newest sample first. *)
ReplayedNewestFirst(h) ==
    FoldLeft(LAMBDA step, s : Ingested(h, step, s), [refs |-> NoRefs, lists |-> <<>>],
             Reverse(recentSamples))

(* subscribeVSI(): the samples the bus retains are replayed. *)
Replayed(h) ==
    LET step[n \in 0..Len(recentSamples)] ==
            IF n = 0 THEN [refs |-> NoRefs, lists |-> <<>>]
            ELSE Ingested(h, step[n - 1], recentSamples[n])
    IN  step[Len(recentSamples)]

-----------------------------------------------------------------------------
(* The panel's preview of a fix. *)

FirstMatch(selector) ==
    IF selector = NoSource \/ matching[selector] = <<>> THEN {} ELSE {Head(matching[selector])}

(* Mutant of Reverted: the timer of the preview is left running. *)
RevertedTimerLeft ==
    /\ styled' = styled \ FirstMatch(preview.selector)
    /\ preview' = [preview EXCEPT !.selector = NoSource]

(* revertPreview(): whatever matches the selector first by now. *)
Reverted ==
    /\ styled' = styled \ FirstMatch(preview.selector)
    /\ preview' = NoPreview

(* Mutant of CauseCommitted: a new root cause leaves the preview alone. *)
CauseIgnored(cause) == UNCHANGED <<styled, preview>>

(* The effect on currentSelector. *)
CauseCommitted(cause) ==
    IF preview.selector # NoSource /\ preview.selector # cause
    THEN Reverted
    ELSE UNCHANGED <<styled, preview>>

-----------------------------------------------------------------------------
(* compute(): the worker, or at once without one. *)

Post(lists) ==
    /\ calls' = calls + Len(lists)
    /\ inbox' = inbox \o [i \in DOMAIN lists |->
                             [call |-> calls + i, samples |-> lists[i], now |-> clock]]
    /\ handlers' = handlers \cup {calls + i : i \in DOMAIN lists}
    /\ overlapped' = (overlapped \/ (lists # <<>> /\ Len(inbox) + Len(lists) > 1))

(* The predictor computes from each list, the heatmap shows its last one.  *)
Compute(stepOf) ==
    LET lists == stepOf["predictor"].lists
    IN  /\ computed' = [h \in Hooks |->
                           IF stepOf[h].lists = <<>> THEN computed[h] ELSE Last(stepOf[h].lists)]
        /\ hook' = [h \in Hooks |-> stepOf[h].refs]
        /\ offenders' = Aggregate(computed'["heatmap"])
        /\ IF worker
           THEN Post(lists) /\ UNCHANGED <<shown, styled, preview>>
           ELSE /\ calls' = calls + Len(lists)
                /\ shown' = IF lists = <<>> THEN shown
                            ELSE ComputeVSI(Last(lists), clock, calls + Len(lists))
                /\ CauseCommitted(shown'.rootCause)
                /\ UNCHANGED <<inbox, handlers, overlapped>>

-----------------------------------------------------------------------------
Tick ==
    /\ clock < MaxClock
    /\ clock' = clock + 1
    /\ UNCHANGED <<busVars, mounted, mounts, hook, computed, workerVars, shown, offenders,
                   previewVars>>

(* Mutant of Retained: what comes after the buffer is full is dropped. *)
RetainedFirst(samples) == SubSeq(samples, 1, Min({MaxSamples, Len(samples)}))

Retained(samples) == IF Len(samples) > MaxSamples THEN Tail(samples) ELSE samples

(* A layout shift is measured and broadcast. *)
Shift ==
    /\ shifts < MaxShifts
    /\ shifts' = shifts + 1
    /\ \E value \in Amounts, source \in Selectors \cup {NoSource} :
        LET s == [value |-> value, startTime |-> clock, source |-> source]
            unchanged == [h \in Hooks |-> [refs |-> hook[h], lists |-> <<>>]]
        IN  /\ recentSamples' = Retained(Append(recentSamples, s))
            /\ Compute([h \in Hooks |-> IF mounted THEN Ingested(h, unchanged[h], s)
                                        ELSE unchanged[h]])
    /\ UNCHANGED <<clock, mounted, mounts, worker, pageVars>>

(* Every effect computes once more when it has subscribed. *)
Mount ==
    /\ ~mounted /\ mounts < MaxMounts
    /\ mounted' = TRUE /\ mounts' = mounts + 1
    /\ Compute([h \in Hooks |-> Recomputed(Replayed(h))])
    /\ UNCHANGED <<clock, busVars, worker, pageVars>>

TimerFires(h) ==
    /\ mounted /\ hook[h].pending # Never /\ hook[h].pending <= clock
    /\ Compute([g \in Hooks |-> IF g = h THEN Recomputed(Waking(h))
                                ELSE [refs |-> hook[g], lists |-> <<>>]])
    /\ UNCHANGED <<clock, busVars, mounted, mounts, worker, pageVars>>

(* Mutant of Resolved: a handler answers for good but stays registered. *)
ResolvedAndKept == handlers

(* A message resolves every call that waits, for no handler looks at _id,  *)
(* and takes their handlers away.                                          *)
Resolved == {}

WorkerAnswers ==
    /\ worker /\ inbox # <<>>
    /\ LET p == Head(inbox)
       IN  shown' = IF handlers = {} THEN shown ELSE ComputeVSI(p.samples, p.now, p.call)
    /\ inbox' = Tail(inbox)
    /\ handlers' = Resolved
    /\ CauseCommitted(shown'.rootCause)
    /\ UNCHANGED <<clock, busVars, mounted, mounts, hook, computed, worker, calls, overlapped,
                   offenders, pageVars>>

(* The refs, the worker and its messages go with the panel. *)
Unmount ==
    /\ mounted
    /\ mounted' = FALSE
    /\ Reverted
    /\ hook' = [h \in Hooks |-> NoRefs] /\ computed' = [h \in Hooks |-> <<>>]
    /\ calls' = 0 /\ inbox' = <<>> /\ handlers' = {} /\ overlapped' = FALSE
    /\ shown' = IdleState /\ offenders' = <<>>
    /\ UNCHANGED <<clock, busVars, mounts, worker, pageVars>>

-----------------------------------------------------------------------------
PanelSame == UNCHANGED <<clock, busVars, mounted, mounts, hook, computed, workerVars, shown,
                         offenders>>

(* The buttons: applyPreview while there is no preview, revertPreview then. *)
ApplyPreview ==
    LET s == shown.rootCause
    IN  /\ mounted /\ preview.selector = NoSource /\ s # NoSource
        /\ FirstMatch(s) # {}
        /\ styled' = styled \cup FirstMatch(s)
        /\ preview' = [selector |-> s, timer |-> clock + PreviewMs]
        /\ PanelSame /\ UNCHANGED pageVars

RevertPreview ==
    /\ preview.selector # NoSource
    /\ Reverted
    /\ PanelSame /\ UNCHANGED pageVars

PreviewEnds ==
    /\ preview.timer # Never /\ preview.timer <= clock
    /\ Reverted
    /\ PanelSame /\ UNCHANGED pageVars

(* The page inserts an element above those that match, or removes one.     *)
PageChanges ==
    /\ changes < MaxChanges
    /\ changes' = changes + 1
    /\ moved' = (moved \/ styled # {})

InsertAbove(s, e) ==
    /\ \A r \in Selectors : e \notin ToSet(matching[r])
    /\ matching' = [matching EXCEPT ![s] = <<e>> \o @]
    /\ PageChanges
    /\ PanelSame /\ UNCHANGED <<styled, preview>>

RemoveElement(s, i) ==
    /\ matching' = [matching EXCEPT ![s] = RemoveAt(@, i)]
    /\ styled' = styled \ {matching[s][i]}
    /\ PageChanges
    /\ PanelSame /\ UNCHANGED preview

CoachNext ==
    \/ Tick \/ Shift \/ Mount \/ WorkerAnswers \/ Unmount
    \/ \E h \in Hooks : TimerFires(h)
    \/ ApplyPreview \/ RevertPreview \/ PreviewEnds
    \/ \E s \in Selectors, e \in Elements : InsertAbove(s, e)
    \/ \E s \in Selectors : \E i \in DOMAIN matching[s] : RemoveElement(s, i)

CoachSpec == CoachInit /\ [][CoachNext]_coachVars

-----------------------------------------------------------------------------
(* Properties. *)

(* However shifts, timers and mounts interleave, no shift is left out: a   *)
(* hook with no timer set has computed from every sample it holds.         *)
NothingUnseen ==
    mounted => \A h \in Hooks : hook[h].pending = Never => computed[h] = hook[h].samples

(* A panel mounted late ends up with the samples an early one has: those   *)
(* the bus retains, of the window, in order.                               *)
LateIsEarly ==
    mounted => \A h \in Hooks :
        LET retained == {s \in ToSet(recentSamples) :
                            s.startTime >= clock - WindowMs /\ Wants(h, s)}
        IN  IsSuffix(Among(recentSamples, retained), hook[h].samples)

(* A call that waits still has its payload with the worker, so it will be  *)
(* answered; the panel never goes back to an older answer; and unless two  *)
(* calls were in flight at once, it shows the answer to the last one.      *)
AnswersComeThrough ==
    /\ handlers # {} => \E i \in DOMAIN inbox : inbox[i].call \in handlers
    /\ \A i \in DOMAIN inbox : shown.call < inbox[i].call
    /\ inbox = <<>> /\ ~overlapped => shown.call = calls

(* The page carries at most the preview of the root cause shown, with its  *)
(* timer running - as long as no element moved under a preview.            *)
PreviewIsBounded ==
    /\ preview.selector # NoSource =>
        mounted /\ preview.timer # Never /\ preview.selector = shown.rootCause
    /\ preview.selector = NoSource => preview.timer = Never
    /\ ~moved => styled = FirstMatch(preview.selector)

(* "never left with orphaned inline styles": without a preview no element  *)
(* carries the styles of one.                                              *)
PageIsRestored == preview.selector = NoSource => styled = {}

(* Shifts all reach the panel, its answers come in order, and it previews  *)
(* only what it shows.                                                     *)
CoachInv ==
    CoachTypeOK /\ NothingUnseen /\ LateIsEarly /\ AnswersComeThrough /\ PreviewIsBounded
=============================================================================
