# MCOP Framework 2.0: models and proofs

This directory holds TLA+ models of the MCOP framework, TLC configurations that
check them on small instances, and theorems about them checked by TLAPS. Paths
are relative to the repository's TypeScript sources (`src/`) unless they say
otherwise; `py/` stands for `mcop_package/mcop/`. `PROJECT.json` maps every
definition to the lines it models and lists runs, mutants, hazards, findings and
theorems.

    tlc -workers 2 -config MCGossip.cfg ClusterStigmergy
    tlapm Thought_proofs.tla

## The system

MCOP encodes prompts as tensors, looks for resonance with earlier traces
("stigmergy"), seals accepted work in hash chains ("etches") and keeps enough
provenance to verify it offline. Around that core there are a cluster mode, a
provenance ledger, engines that tune, plan and accelerate, adapters to model
providers and tools, and a Python package with a reasoning engine and an agent.

| Component | State | Operations | What makes it correct |
| --- | --- | --- | --- |
| Gossip transports (`cluster/types`, `inMemoryGossipBus`, `redisStreamsGossipTransport`) | stream, cursor, ids seen | publish, subscribe, pollOnce | every envelope of a peer is handed over, in order |
| ClusterStigmergy (`cluster/clusterStigmergy`) | own window, verified and active remote traces, roots, vetoes, sequence numbers | recordTrace, writeTraceRemote, vetoTrace, advertiseCapability, inbound gossip, export and replay | replicas agree; a veto wins; repeated delivery is harmless; exports replay |
| ClusterOrchestrator (`cluster/clusterOrchestrator`) | membership with ages, sequence numbers | tick, setCapability, inbound gossip, leaderForKey | who is heard of is a member; nodes that hear each other never both own a key |
| Cluster process | both of the above, one transport | the same, restart | one component does not silence the other |
| LedgerService (`ledger/ledgerService`) | leaves per tenant | etch, query, verifyReceipt, exportFullLedger, verifyBundle | one chain per tenant; receipts are proofs |
| LedgerClient (`ledger/ledgerClient`) | last source, local fallback | the same, remote | a leaf says which ledger served it; verdicts are the issuer's |
| BackgroundLedgerForwarder (`ledger/asyncLedgerForwarder`) | queue, dead letters, timer | forward, processQueue, retryDLQ, stop | no accepted request is forgotten |
| RedisAsyncLedgerForwarder (`ledger/redisAsyncLedgerForwarder`) | Redis list, sorted set, dead letters | forward, ticks of several workers, retryDLQ, start, stop | only faults lose a request; the retry budget holds |
| Ledger reconciliation (`utils/ledgerReconciliation`) | none | compare snapshots, replay | no etch is left out |
| Ledger-aware etch factory (`ledger/createLedgerAwareHolographicEtch`) | none | builds an etch with its forwarders | an etch is heard of once |
| StigmergyV5 memory (`core/stigmergyV5`, `circularBuffer`, `temporalStigmergy`, `stigmergyBackend`) | ring, chain head, trails, file | recordTrace, reinforce and prune, snapshot, restore, reopen | the chain is whole over eviction and restart |
| HolographicEtch (`core/holographicEtch`, `etchBackend`, `positiveResonanceAmplifier`) | two rings, growth ledger, two files | applyEtch, celebrate, snapshot, restore, reopen | rings and files tell the same story |
| Organelle merge (`utils/organelleMerge`, `adapters/grokAdapter`) | the host's memory and etch store | mergeOrganelleResponse, processOrganelleResult | a caller knows what came in |
| Hardening telemetry (`telemetry/`) | burn-in window, weight versions, blocks | commitPipelineStageExecution | versions form a tree; resets are earned |
| Hardware acceleration (`hardware/`) | sessions, provenance sink, router chain | loadKernels, accelerate, dispatch | loaded means every kernel; one chain of answers |
| Adapters' base, alerts and roles (`adapters/baseAdapter`, `linearSlack…`, `devin…`) | the adapter's memory, tools' issues and messages | prepare, dispatch, runResearcherCoderReviewer | answers are complete; reports add up |
| Completion clients (`adapters/*` over HTTP) | posts, retries | one completion with retries and backoff | retries are bounded; requests end |
| Provider routing (`adapters/multiProviderRouter`) | none | choose a provider | agrees with the single-provider routers |
| Other platform adapters, MCOPOrchestrator | the adapter's parts | generate | not modelled |
| Planners and control (`core/planning`, `control`, `core/driftSentinelKernel`) | tree, PID terms, rings | plan, run, observe | statistics add up; no windup; signals await their consumer |
| Evolution and proteome (`core/novaEvolveTuner`, `proteome/`) | genome, decisions; nodes, root | maybeMetaTune; step, reset, poke | decisions tell the genome; the root commits to the steps |
| Receipts and films (`provenance/merkleTree`, `core/reasoningReceipts`, `longFormVideoOrchestrator`, `provenanceTracer`, `filmProvenance`) | peaks, claims; chain of events | addClaim, issueReceipt; generate | receipts and sidecars stand alone |
| Reasoning engine (`py/engine.py`, `mcop_types.py`, `guardian.py`) | chains of hypotheses | solve | errors stay visible |
| Mycelial chains (`py/mycelial.py`) | network of hypotheses | build_network, extract_chains | verdicts end chains; links run across them |
| ARC agent (`py/adapters/arcagi3_agent.py`) | journal, memories, detectors | play, choose, observe | the result tells what was played |
| Efficacy program (`efficacy/`) | sealed protocol, outputs, ratings | runEfficacyProgram | the sealed rule decides; a flaw is never masked |
| Visual-stability panel (`components/VSICoach`, `useVSI*`, `app/_components/vsiBus`) | bus, samples, worker, preview | shift, poll, answer, preview, revert | no shift unseen; the page is left as it was |
| Web application, encoders and hashing, conformance and audit, ledger HTTP server, desktop shell, core package and CUDA server | | | not modelled, see below |

How they interact: a `ClusterStigmergy` and the `ClusterOrchestrator` bound to
it share a nodeId and a transport, each subscribed on its own. An etch is handed
to a forwarder, which calls `LedgerClient.etch()` from a timer; the client calls
a `LedgerService` in the process or behind HTTP. Adapters prepare every call
with the same memory and etch store, into which an answer of a hosting model is
merged. JavaScript runs one callback at a time, so every interleaving happens at
an `await`, a timer, or a message. The Python parts are sequential, but a signal may
stop them between any two steps.

What is hard: several awaits in one operation while a timer or a second caller starts the
next (ledger, forwarders, Redis polls, telemetry, kernels, proteome, tuner, films, alerts);
messages repeated, in an unfortunate order, or numbered by two counters under one name (cluster);
state that is lost at a restart while an identity or a file survives it; one write of several
failing; bounded rings that cut a chain; retries of what was done already. `PROJECT.json` lists
these as hazards with the lines where they bite.

## Modules

| Module | Models |
| --- | --- |
| `GossipTransport` | the contract: a log of envelopes and a cursor for every node |
| `OrderedBroadcast` | the contract as an abstract specification of its own |
| `RedisStreamsTransport` | the Redis poller; implements `OrderedBroadcast` |
| `ClusterStigmergy` | the replicated trace store over `GossipTransport`; export and replay |
| `ClusterOrchestrator`, `ClusterNode` | membership and ownership; both components in one process, apart, and restarted |
| `LedgerService` | etch from await to await, receipts, verification |
| `BackgroundForwarder` | the forwarder in memory, composed with `LedgerService` |
| `RedisForwarder` | forwarder processes over shared Redis keys, with crashes |
| `LedgerClient` | the hosted client with its local fallback, and reconciliation |
| `BoundedLog`, `RingBuffer` | a bounded log, and the ring buffer that implements it |
| `TraceMemory` | StigmergyV5, its pheromones and its file |
| `EtchStore` | HolographicEtch, its rings, growth ledger and files |
| `DriftSentinel` | the sentinel's rings of events and signals |
| `ReasoningSession` | RFC 6962 trees; claims, mountain range and receipts |
| `FilmRun` | overlapping films over one provenance chain, with clips that fail or break off half sealed |
| `ArcAgent`, `ShadowStrategy` | `play()` with its strategies; the holographic shadow strategy |
| `StabilityCoach` | the panel of layout shifts: bus, hooks, worker, preview |
| `HardeningStage` | pipeline stages over the version chain |
| `HardwareLayer`, `HotPath` | kernels and verified runs; resolver, service and router chain |
| `Proteome`, `NovaEvolve` | overlapping steps of the proteome; overlapping tuning calls |
| `MctsPlanner`, `FastControl` | the planner's tree; the PID loop |
| `ProviderRouting`, `CompletionClient` | the routing decision; posts, retries and backoff |
| `BaseAdapter`, `AlertDispatch`, `RoleLoop` | prepare(); alerts; the researcher-coder-reviewer loop |
| `ReasoningEngine`, `MycelialNetwork` | `solve()` with its modes, chains and verdicts; networks of hypotheses |
| `EfficacyProgram` | a pre-registered run, from its gates to the verdict |
| `OrganelleMerge` | merging what a hosting model answers |
| `ClusterStigmergy_proofs` | theorems about `ClusterStigmergy`, `ClusterOrchestrator`, `ClusterNode` and `RedisStreamsTransport`, also in `MCProgress` |
| `LedgerService_proofs` | theorems about `LedgerService`, both forwarders and `LedgerClient` |
| `Components_proofs` | theorems about `RingBuffer`, `TraceMemory`, `EtchStore`, `DriftSentinel`, `FilmRun`, `Proteome`, `NovaEvolve`, `HardeningStage`, `FastControl` and `CompletionClient` |
| `Engines_proofs` | theorems about `HardwareLayer`, `HotPath`, `ProviderRouting`, `EfficacyProgram`, `AlertDispatch`, `RoleLoop`, about them in `MCEngines`, and about `OrganelleMerge` |
| `Thought_proofs` | theorems about `MctsPlanner`, `MycelialNetwork`, `ReasoningEngine`, and about the last two in `MCEngines` |
| `Memory_proofs` | theorems about `StabilityCoach` and `ReasoningSession`, also in `MCMemory` |
| `MC*` | instances for TLC (`ClusterStigmergy`, `ClusterNode`, `RedisForwarder`, `EfficacyProgram` and `StabilityCoach` are also run as they are) |

A module names its variables' tuple `xVars`, its actions' disjunction `XNext`, its
specification `XSpec` and, where it has one, its invariant `XInv`: the type
invariant and the named properties below, as one conjunction.

### How state and actions correspond to the code

- **Transport.** `log` is the delivery order, `cursor[n]` how far node n has been
  handed it. Both shipped transports deliver this way: microtasks of the
  in-memory bus run first in, first out, a Redis stream is read by id. A
  repetition is any envelope below the cursor (`Redeliver`). An envelope's `intact` is FALSE
  when the caller changed its arrays between `recordTrace` and delivery (the bus
  hands over references), so that verification fails.
- **ClusterStigmergy.** `window` is `localReplayTraces`, `verified` is
  `verifiedReplayTraces`, `active` is `remoteTraces`, `remoteRoots`, `seen`,
  `vetoed` and `caps` are the maps of those names. One action per public method, and
  `Deliver`/`Redeliver` for `handleInbound` with its duplicate filter, its
  verification failure and its three message types. A hash is a fresh number, so
  digests are collision free; tensors and synthesis vectors are left out, a
  trace that verifies is a whole entry.
- **ClusterOrchestrator.** Time is discrete. `age` is the clock's distance from
  `lastSeenMs`, capped one above the window, beyond which all ages are alike; `silence` is
  history: when a message of the peer was really handed over, filtered or not. The rendezvous
  weights are a strict order given by the constant `Rank`.
- **ClusterNode.** One envelope goes to both subscribers. `Restart` builds all
  objects of a process anew under the same nodeId.
- **RedisStreamsTransport.** A poll is three steps: `StartPoll` reads `lastId`,
  `ServeRead` is the server, `TakeAnswer` is the code after the await. Nothing
  in the code keeps polls from overlapping, so two are in flight.
- **LedgerService.** `ReadParent`, `StoreLeaf` and `Reply` are `etch()` between
  its awaits. A root is the digest of the list of hashes, which stands for it.
  `LoseReply` is an answer the caller does not get.
- **BackgroundForwarder.** `work[c]` is the `ready` array of an invocation,
  its head the item whose etch is awaited. Two runs of the timer, `stop()`,
  `retryDLQ()` and a `forward()` after `stop()` are callers of the ledger. The
  last loop of `stop()` iterates over the live queue, as in the code. With
  `Lossy` an etch may reject with its leaf stored or not: that is
  `LedgerClient` with `fallback: false`. Each request is forwarded once; `stop()`
  is called once and nobody calls `start()` after it.
- **RedisForwarder.** Every call to Redis is a step of a loop. Two loops belong
  to any processes, also to the same one after `stop()` and `start()`. A fault is a
  crash, or a Redis call that throws out of the tick; `dropped` is history, the requests
  a fault caught between two awaits.
- **LedgerClient.** A post arrives at the endpoint or not, is carried out and its answer
  arrives or is lost; any failure goes to the local ledger. Reconciliation is the replayer:
  it compares the hashes it has with those the ledger lists, and etches what it misses. A receipt is a leaf's hash and a root,
  as `EtchReceipt` is; the mark of the fallback is on the leaf only.
- **TraceMemory, EtchStore.** The file is a list of lines. An append may fail, having written nothing, a part of its line, or all
  of it but the newline, and the code swallows the error; the next line is then glued to what stands there. In `EtchStore` an etch
  and its audit line are two appends in one `try`, so the second is not reached when the first throws. A file with a line that does not parse
  cannot be opened again, nor can a snapshot be taken of it: the constructor throws from then on. Snapshot and
  restore follow the order in which the code lists, empties and rewrites. Hashes are the terms they digest.
- **DriftSentinel.** A divergence is one of three bands; between the bands the dynamic
  threshold, a number, is open.
- **ReasoningSession, FilmRun.** Hashes are terms, so a root that verifies determines what was
  hashed. A film is a loop with an await for each clip; several run on one tracer. A clip is answered, rejected by the adapter, or answered
  with a fingerprint that cannot be digested (`ClipBreaks`): then the tracer has sealed its event, and `recordTrace()`, `applyEtch()` or `recordShot()` throws.
- **ArcAgent.** `play()` is a loop whose steps are the places where KeyboardInterrupt
  can arrive. A model may pick any action, offered or not, as its text may.
- **ShadowStrategy.** A frame maps each colour to a cell on a line. The detectors, the caches
  they reset, the two breadth-first searches and the classification of a step are those of the code;
  a pick by score is any action.
- **StabilityCoach.** A callback is an action: a shift on the bus, the poll of a hook, the
  worker's answer, a click, the preview's timer, a mount. Computations are terms of the samples they were given.
- **HardeningStage, HardwareLayer, HotPath, Proteome, NovaEvolve, AlertDispatch, RoleLoop.** A
  call is a record with the place where it awaits and what it read before; each action runs from one await to
  the next, with a failing variant where the awaited call can fail. Numbers are terms, levels or open choices.
- **MctsPlanner, FastControl, ProviderRouting, ReasoningEngine, CompletionClient.** Sequential code
  whose inputs are the environment: rewards, measurements, thresholds, outages, modes that raise, HTTP answers.
  The arithmetic of the controller and of the backoff is that of the code, on integers; the plant may also measure NaN or an infinity, which
  `clamp` turns into the least value and `round6` into an error of 0. A run reads its setpoint before its first await (`StartRun`).
- **MycelialNetwork.** The context's threshold and those of the builder are independent, as in the code; the run has one on each side of `prune_threshold`. The callbacks are the environment: any estimate, a refinement in place or not,
  similar by mode or always. A node is its place in the order of the dict.
- **EfficacyProgram.** One action per await. Alpha, medians and Cliff's delta are those of the code on small integers; the
  bootstrap interval leaves zero out for sure when all pairs agree, never when none does, and else may do either. Whoever holds
  the protocol may change its rule at any time, for `sealPreRegistration` neither copies nor freezes it.
- **OrganelleMerge.** A trace that is offered is its tensor and whether it is strong; a merge is one step and may
  stop half way at a tensor that cannot be digested. The wiring of adapter, etch and ledger is a constant of the behaviour.

## Runs

| Run | Question | Answer |
| --- | --- | --- |
| `gossip` | Three nodes record, veto and advertise under repeated delivery. Is anything lost, applied twice or shown stale? Do roots agree, and does every export replay? | Holds |
| `progress` | Entries of one trace id in every order, between vetoes: is the winner unique, and does a veto arrive everywhere? Does the Redis poller implement the broadcast, and does every entry arrive? Do completion requests keep their limits, and end? | Holds; a request ends unless its body stalls |
| `node` | Orchestrators alone, stigmergies that restart, or both bound on one transport: do tables follow heartbeats, when does a key have two owners, what is lost? | Tables follow where nothing is shared, and two owners are out of touch; senders that do not restart lose nothing; roots agree |
| `ledger` | Overlapping runs, retries, dead letters and `stop()` over a ledger that loses answers; several Redis loops with crashes; the client with its fallback and reconciliation | Nothing is forgotten but by a crash; receipts stay proofs |
| `memory` | The components that keep records, one at a time | Holds |
| `engines` | The components that act, one at a time | Holds |
| `veto_own_trace` | A veto "always wins over any score" | Violated for the writer's own trace |
| `shared_numbering` | "at-least-once → exactly-once locally" | Violated when an orchestrator shares the nodeId and the transport |
| `forked_ledger` | An export's "sealed root matches the leaf chain" | Violated by two overlapping etches |
| `at_least_once` | "basic at-least-once semantics" of the Redis forwarder | Violated by a crash after `rpop` |
| `late_goalposts` | "Results are admitted only if the seal verifies and pre-dates them" | Violated: a rule changed while the raters are awaited decides the verdict |
| `orphaned_style` | "never left with orphaned inline styles" | Violated when an element is inserted above a preview |

The last six are findings; `PROJECT.json` quotes the lines.

`progress`, `ledger`, `memory` and `engines` are sums: their components share no
state (alerts and roles share the module of the adapter's memory, not an
adapter), so a variable `focus`, set at the start, says which one a behaviour
runs, and the others keep their initial state. The reachable states are those of
the components one after the other, not their product. Components whose sets nothing tells apart
are given the same model values, over which symmetry is taken; it is sound
because no component orders these values. `progress` has no symmetry, for its liveness.

What the conjunctions of those runs say, beyond types:

- `ActiveIsPreferred`, `NothingLost`, `RedeliveryIsIdempotent`,
  `SameTracesSameRoots`, `CapabilityIsCurrent`, `ReplayAccepted`: the replicas.
  `TableIsCurrent` is `ObservedPeerIsMember` and `MemberCapabilityIsCurrent`; `SplitOwnersAreOutOfTouch` says what it means for keys. All of
  these are about gossip: neither `gossip` nor `node` imports histories (`Importable` is empty there), so that
  `SameTracesSameRoots` says nothing of entries imported in different orders, and `SteadySendersLoseNothing` says nothing of what a
  sender loses that restarted itself. An early veto is covered by `VetoPropagates`, in `progress`: its nodes veto ids that others have not imported yet.
- `ForwarderInv`: `NothingForgotten`, until `stop()` has ended a request is pending, in hand, a dead
  letter, or in the ledger.
- `RemoteWaysInv`: of Redis, `OnlyFaultsLose`, `RetryBudget` (what waits has attempts left, dead letters
  have none) and `OneLoopOnePlace` (duplicates need two loops, a fault or `retryDLQ()`); of the client, `LeavesTellWhere`,
  `VerdictsAreTheIssuers`, `OneLeafPerEtch`, one leaf more for each answer lost after it was stored, and `ReplaysAskForAll`, each replay asks for
  every local etch once more. The second leaf of a request that a forwarder retries after a lost answer is what at-least-once delivery allows; no property of the forwarders counts leaves.
- `TraceMemoryInv`: `MemoryIsTailOfChain` over restarts, while the disk holds; `TrailsWithinRing` and `TracesKeepTheirTrail` for pheromones.
- `EtchStoreInv`: `RingsFollowTheFile`; `AuditFileWithinEtchFile`, as long as the file of etches parses (an etch glued to a torn line is lost while its audit line is whole); `GrowthFollowsCommits`.
- `SentinelInv`: `SignalsAwaitConsumer`, `RewindFindsFlagged`, `VerifiesUntilWrapped`.
- `SessionInv`: `RootIsTreeHead`, against the recursive definition of RFC 6962, and `ReceiptsStandAlone`.
- `FilmInv`: `SidecarsStandAlone`, `FinalRootCoversFilm`, `SealedAreTheAnswers` (chain and memory hold what was answered, a clip that broke off half sealed) and `HalfSealedAreNotListed`.
- `AgentInv`: `InterruptedResultAnswers`, `MappedBeforeExploited`, `LoopsReportedOnce`; of the shadow strategy
  `LearnedWithPresentColours` and `PlansAreShortest`, against the set of states reached in k steps.
- `PanelInv`: `NothingUnseen`, `LateIsEarly`, `AnswersComeThrough`, `PreviewIsBounded`.
- `HardeningInv`: `EvolutionsFormTree`, `ResetsAreEarnedAndLate`, `MasksHaveBlocks`.
- `AccelerationInv`: `LoadedMeansEveryKernel`, `LoneRunsAreVerified`, `SinkHoldsLatest`; `OneChain` and
  `UncomputedIsMarked` of the router.
- `ProteomeInv`: `RootCommitsToSteps`, `LoneStepsReplay`. `TunerInv`: `DecisionsTellTheGenome`.
- `PlannerInv`: `VisitsAddUp`, `BreadthFirst`, `PlanIsMostVisited`. `ControlInv`: `NoWindup`, and `ConvergedMeansSettled`,
  which tells exactly how much the verdict tells: a window of two setpoints, or of readings that are not finite, counts as settled too.
- `VerdictInv`: `AgreesWithSingleRouters`, `OutagesElsewhereChangeNothing`, `PinsStayAtHome` of the router;
  `SealedRuleDecides`, `FlawsAreNotMasked`, `SupportRestsOnMarks` of the efficacy program.
- `AdapterInv`: `AnchorsMatchIssues`, `AnswersAreComplete`, `NovelAlertsStayOffSlack`; `ReportsAddUp`,
  `HitsHavePrecedent`, `HitsReuseTheRun` of the role loop.
- `ThoughtInv`: `ErrorsStayVisible`, `PerspectivesSurvive`, `SolutionIsTheBest`; of the chains `GrowthEndsForAReason`,
  `VerdictsAreEnds`, `OnlyInPlaceCompletes`, `LinksRunAcrossChains`.
- `OrganelleInv`: `CallersKnowWhatCameIn`, `EtchClosesTheAnswer`, `SkippersAddNothingKnown`, `EtchesAreHeardOnce`.
- `ClientInv`: `BackoffGrowsToItsCap`, `PostsAreBounded`.

### Bounds, and why they are enough

- `gossip`: `MaxLog` 4 envelopes, `MaxTraces` 3. Four envelopes of three nodes
  hold every pair of message types from two senders with a repetition between
  them; a window of `Capacity` 2 evicts with three traces, so bundles need a
  boundary. `NodeSymmetry` permutes the nodes.
- `progress`: three importable entries of one id, two of one writer that equivocates and one of another. Two
  polls in flight, two entries, batches of two: stale answers, an old answer taken last, and partial ones; an answer to
  a third poll would only repeat these. Retry limits 0, 1 and 5, delays on both sides of the normalization's bounds,
  and the jitters that move a delay to either end of its range.
- `node`: a window of one clock unit (`StaleAfter`) and three heartbeats let a peer go stale,
  be pruned and come back; two restarts. Two nodes: membership is pairwise.
- `ledger`: two requests of two tenants, two overlapping runs, `MaxLeaves` 3, so a
  request is stored twice when a run takes what another holds or an answer is lost. `MaxRetries` 2 reaches
  the dead letters, `MaxManual` 1 the operator. Etches beyond `MaxLeaves` never
  come back, which only leaves more of them in flight. Redis: two requests, two processes, two loops, `MaxEvents` 3 crashes,
  restarts, stops and sweeps of the operator. Client: `MaxPosted` 2 posts of callers and two reconciliations (`MaxReplays` 2), so that the second finds what the first etched.
- `memory`: ring of 3 and 6 pushes, so it wraps twice. Traces: a ring of 2, three recorded,
  two mishaps (a failing disk, a torn line, a restart, a restore). Etches: rings of 2, four applied, three upsets. Sentinel:
  rings of 3 and 2, six observations. Session: seven claims, so every shape of the range up to three peaks. Films: two films of up to three clips, five clips in all.
  Agent: games of four actions, or seven where the stuck detector needs six and a model plays. Shadow strategy:
  three frames, two actions, three moves. Panel: a clock of 3, three shifts, one mount, one change of the page.
- `engines`: two overlapping callers where the code allows them; three pieces of work, sessions or calls; persistence, meta-tuning and
  settling after 2; a planner's budget of 11 over two actions and depth 3, enough to try siblings, pass a node by and reach leaves; five ticks of the
  control loop with measurements on both sides of the setpoints; three alerts over three subjects of which two are urgent and two alike;
  two role loops of three legs and six prompts prepared; two modes and two iterations of the reasoning engine; two merges into a host of three traces;
  networks of two seeds and two levels built twice, with an estimate on each side of every threshold and the context's threshold on either side of the builder's; efficacy runs over two tasks, two arms and two raters, with one
  change of the rule at any moment and at most one thing wrong from the start.

Deadlock is checked in the cluster runs (`gossip`, `node` and the two findings about them). `CHECK_DEADLOCK FALSE`
stands where behaviours end: a completion that is answered, a stream whose polls are spent, a forwarder that has stopped, a game that is over,
a budget that is spent.

### Fairness

`ProgressSpec` assumes that a node is handed the next envelope in the end, which microtasks and a
poller that runs for ever give; that polls recur, are answered, and that their continuations run; and
that a completion's own steps and the timers behind them happen: a post gets headers or its timeout, a delay
passes. Nothing is assumed of a body, for no timeout covers it, and no caller is assumed to record, veto, publish, tick
or ask. Under it `VetoPropagates`, `EveryEntryArrives` and `RequestsEndUnlessStalled` are checked.

### Refinements

`RedisStreamsTransport` implements `OrderedBroadcast` (`ImplementsContract`): an
envelope counts as handed over when its id has been seen, although `lastId` may move backwards. `RingBuffer` implements
`BoundedLog` (`ImplementsLog`): the log is the slots from head back to start. `RootIsTreeHead`, `PlansAreShortest` and
`AgreesWithSingleRouters` compare an algorithm with a reference definition.

### Mutants

Every property of a passing run has at least one mutant, a definition one plausible slip
away from the modelled one (`FreshOneCounter`, `ParentWhenCalled`, `CachesAfterKeptPositions`, ...)
under which that run finds it violated; a conjunction has one for most of its parts. The mutants stand beside the definitions
they replace and nothing else uses them.

## Where code and text disagree

Six disagreements have a run. Those below were met on the way and are in the models as the code has them:

- Cluster. Histories imported in different orders leave different roots, although "two nodes that have observed the same set
  of traces produce byte-identical roots". A restart numbers messages from 1 again under the same nodeId. On a shared transport
  the orchestrator drops heartbeats numbered below the stigmergy's messages before it refreshes `lastSeenMs`.
- Snapshots (`core/stigmergyBackend.ts:125`) list traces newest first, restore verifies them oldest first: a snapshot of two traces cannot be restored.
- Reconciliation (`utils/ledgerReconciliation.ts:82`) compares etch hashes with leaf hashes, which are never equal: each replay etches everything again (`ReplaysAskForAll`).
- Ledger client. `ledgerClient.ts:20-25` and `docs/HOSTED_PROVENANCE_LEDGER.md:50-54` say that the fallback annotates "every receipt's metadata" with `source: 'local-fallback'`. An
  `EtchReceipt` has no metadata: only the leaf is marked, and who holds a receipt alone cannot tell (`LeavesTellWhere`).
- Provider routing. The comment on `preferredModel` (`multiProviderRouter.ts:121-126`) says that a pin is "only honoured when" `preferredProvider` is grok or qwen; the code (`:288-349`) honours it
  for claude, deepseek and kimi too, and so does `PinsStayAtHome`.
- Films. A clip is sealed in the chain before its fingerprint is digested; one that is not finite ends the film with an event, and perhaps a trace, of a clip no film lists (`HalfSealedAreNotListed`).
- Etches. The two files of a store part for good at an append that stops half way: the next etch is glued to the torn line, its audit line is whole, and no instance can be opened on them again.
- Control. A plant that measures nothing finite is reported as converged (`round6`), and so is a run whose setpoint moved back and forth within the tolerance of each (`ConvergedMeansSettled`).
- Ledger-aware etch. `createLedgerAware` never hands the adapter its client and tenant, so the forwarding that `processOrganelleResult` describes as automatic never happens;
  and of the forwarders only the one in memory receives requests, also when `redis` is given (`createLedgerAwareHolographicEtch.ts:8-16`, `holographicEtch.ts:118-119`).
  An adapter that is wired by hand forwards even an etch the floor rejected.
- Organelle merge. `replace` never replaces; `processOrganelleResult` applies neither `minResonance` nor the strategy for duplicates;
  raw hints are not normalized; a merge that throws leaves traces without an etch.
- Reasoning engine. `chains[1:]`, commented "Skip best chain", skips the first chain and not the best; chains that ended in an error can be dropped for diversity although
  `engine.py:541-545` says the escalation is propagated.
- Panel. The worker is sent an `_id` that nobody checks: the first answer resolves all calls in flight, and later ones are dropped (`useVSIWorker.ts:122-141`, `:148-155`). A worker that cannot
  start never answers. The index does not fall back to idle when shifts end, although the panel names a rolling window; at exactly 0.1 status and target disagree.
- ARC agent. An interrupt between `env.step` and the append loses the last action; a null frame makes the final state NOT_PLAYED although steps were played.
- Drift sentinel. `verifyChain()` is documented as valid "if every event's `parentHash` matches the prior event's `hash`"; it calls the untouched chain of a ring that has
  dropped its oldest event broken (`VerifiesUntilWrapped`).
- Efficacy program. Alpha counts as 1 when no output has two marks (`interRaterReliability.ts:107`), so raters who abstain by turns "agree" and a verdict may be supported;
  a context JSON cannot write is scanned as "[object Object]", though the comment promises "a shallow scan of keys and string values" (`isolationBarrier.ts:163-166`).
- Mycelial chains. Where `confidence_threshold` lies below `prune_threshold`, which nothing forbids, what growth validated is pruned at the end of the build (`VerdictsAreEnds`). With a `refine_fn` that returns a new hypothesis no chain is ever complete (`OnlyInPlaceCompletes`), although its signature documents just that.
- A run of kernels that shares its session with another may be sealed as CUDA by the other's profile; `LoneRunsAreVerified` is therefore about lone runs.

## Proofs

The theorems hold for every value of the constants that meets the named
assumptions: any nodes, tenants, capacities, thresholds and bounds. An invariant
that is not inductive is strengthened; each section names the strengthening and why it is needed.
A step preserves it action by action, and where a step may be of several actors, actor by actor.

### Cluster (`ClusterStigmergy_proofs`, about `Spec`, `NodeSpec` and `RedisSpec`)

- `TypeCorrect`: `TypeOK` is not inductive: the new root of a
  writer is that of the entry `reduce` picks among its siblings, and for it to
  be a root, a best sibling must exist. `TypeInv` adds `PreferredExists`: a
  non-empty set of siblings has an entry that beats all others, and no two share a
  `clusterHash`. It rests on the order lemmas about `Beats`.
- `ConflictsAreResolved`: `ActiveIsPreferred`, by an invariant on the
  triple (active, verified, vetoed) of a node that an import and a veto preserve.
- `NothingIsLost`, `RedeliveryChangesNothing`. The sequence
  filter keeps one number, so what was handed over says nothing unless numbers,
  log and cursors are tied together. `DeliveryInv` does so: no message is
  numbered above its sender's counter, a sender's numbers increase along the
  log, no message beyond the cursor is at or below the filter, the filter is
  not above the sender's counter, and whatever was handed over and verifies is applied.
  `NothingLost` follows at once; `RedeliveryIsIdempotent` because a message below
  the cursor is either not fresh or does not verify.
- `CapabilitiesAreCurrent`: `CapabilityIsCurrent` is inductive beside `DeliveryInv`: only a message above
  all earlier numbers of its sender replaces a capability.
- `SameTracesFoldToSameRoots` and `ExportsReplay`, from `ChainInv`: every message of the log was minted by its sender
  (`LogMinted`), a window and a log are chains (`WindowChained`, `LogChained`), what was admitted had been handed over
  (`AdmittedWasHanded`), a root is the newest hash of its window and of the siblings the `reduce` looks at (`RootIsLatest`, `RootsFollow`), and nobody's
  traces were changed after they were hashed (`TracesIntact`). They assume `Importable = {}`, as the runs `gossip` and `node` have it: with imported histories roots depend on the order of the imports,
  which is one of the disagreements above, so the assumption says exactly where the code keeps its promise. `ExportsReplay`
  also assumes `~MutatingCallers`, since a caller who writes into an array after `recordTrace` falsifies his own export.
- `TablesAreCurrent`, `OwnersAreOutOfTouch` and `SteadySendersAreHeard`, with restarts and both components on one
  transport. `OrchestratorsInv` bounds the age of a row by the silence of its peer; so two nodes that hear each other list each other, and the smaller rank owns the key; `SteadyInv` ties
  numbers, log and filters together for those nodes only that never restarted, since a restart numbers from 1 again.
- `StreamKeepsTheContract`: `RedisSpec => ImplementsContract`, the refinement itself. `lastId` may move backwards and answers come in any order, so nothing is said of them but
  what `PollsBeginInSeen` says: what a node has seen is a prefix of the stream, and every id asked for lies in it, so every answer under way is a run that begins there. Taking it either adds
  nothing, or hands over what lies between the prefix and the run's end: the loop over the entries finds what the contract's does place by place (`FreshIsHandedOver`).
  `ContractHoldsInProgress` carries this into the run `progress`.

### Ledger (`LedgerService_proofs`)

- `LedgerTyped`, `ParentsAreEarlier`, `ReceiptsAreProofs` and
  `ReceiptsExpireWithTheNextEtch`, about `LedgerSpec`. The properties speak of stored leaves, the
  hazard lies in the etches under way. `LedgerInv` therefore adds `CallsSound`
  (the parent an etch has read is stored in its tenant's list, and so is the leaf
  of an etch that waits to list the forest), `HashesIncrease` (a leaf lies in one
  place, so the proof found by search is the one in the receipt) and
  `ReceiptsProve`, the receipts place by place, which appending a leaf preserves.
  Hashes are fresh by construction, which stands for the fresh uuid in every leaf
  and a digest without collisions.
- `ForwarderUsesTheLedger`: each step of the forwarder in memory is a step of `LedgerSpec` or leaves its variables
  alone, so that `ForwardedReceiptsAreProofs` needs no second proof.
- `NothingQueuedIsForgotten`: `ForwarderInv`. `NothingForgotten` says where a request is, not who
  moves it; `HandsInv` says what each invocation holds, in which phase, and that the head of its
  array is what its etch is about. `ForwarderAssumption` keeps the invocations apart.
- `OnlyFaultsLoseRequests`, about `RedisForwarder`. `RedisIndInv` counts attempts place by place (`BudgetInv`), finds every accepted request
  in a list, a set or a hand unless a fault dropped it (`AllForwarded`, `OnlyFaultsLose`), ties hands to what a loop still has to do
  (`UsesTell`, `TodoWaits`) and, while a single loop runs, keeps each request in one place.
- `EveryEtchLeavesItsLeaf`, about `LedgerClient`. Beside `LeavesTellWhere`, `VerdictsAreTheIssuers`, `OneLeafPerEtch` and `ReplaysAskForAll`, `ClientIndInv` has
  `AnswersAreTrue` (an answer on its way says what was stored) and `ReplayInv` (what a reconciliation still has to post). `RemoteWaysHold` joins both for the run's sum.
  Payloads and posts are finite by `LedgerClientAssumption`, since leaves are counted.

### Single components (`Components_proofs`)

- `RingTyped` and `RingImplementsLog`: each step of the ring buffer
  is one of the bounded log. The mapping reads the log off the slots modulo the capacity; the proof has the
  case of a full ring, where the start moves with the head, and that of one not yet full.
- `DecisionsTellTheGenomeAlways`: the property says of the genome what the decisions say;
  `TunerIInv` adds the types of calls under way, that a candidate is a genome, and that the depth is the cardinality of the set of accepted decisions, which a new
  decision at the end raises by one or not at all.
- `ClientsPostNoMore` and `ClientsKeepTheirLimits`: at most one post more than the normalized limit, whatever integers the client
  is configured with, and a backoff that grows to its cap. `PostsIInv` counts posts against attempts phase by phase; `ClientIInv` adds that the
  last delay is at most the backoff of the attempt under way, so that the next, without jitter, cannot be shorter.
- `FilmsStandAlone`: `FilmIInv` says of each call (`FilmSound`) that its clips and shots go together one by one, that roots increase and are not beyond the
  chain, and how many of them its phase allows; what chain and memory hold is counted clip by clip, those that broke off apart.
- `RootsTellTheSteps`: replay needs to know what the running step read. `LoneStep` says that while steps run alone the draws, the knob and every
  aggregate so far are those the seed and the number of steps determine.
- `SignalsWaitAndEventsRewind`: `SentinelIInv` adds that the ring holds the newest events, also where they are not flagged
  (`EventsAreNewest`); the chain's parents follow from it.
- `StagesGrowATree`: `HardeningIInv` says what a stage that awaits read before (`StageHolds`: the head it saw is in the ledger, and the block it sends may land
  wherever the ledger then ends, `MayLand`), and that while nothing overlaps the registry names the newest evolution (`RegistryIsNewest`).
- `ControlDoesNotWindUp`: `ControlIInv` adds that the remembered measurement is that of the last tick (`PrevIsLastTick`), what a tick records of what it read (`TicksTellErrors`), and that
  a report is of the ticks there are. Measurements are any integers, NaN or an infinity, in any order. It assumes `OutputMin < OutputMax`, without which the actuator has no range to leave a limit in, and `Kp + Ki > 0`, without
  which nothing but the derivative answers to the error.
- `MemoriesFollowTheirFile`: `MemoryIInv` adds that each trace holds its own digest (`HashesAreDigests`), that while all is calm one memory is open and no line is
  garbage (`CalmMeans`), and that a ring shows the ids laid last (`TrailsFollow`), from which counting how often an id was laid says which trail an eviction takes.
- `EtchesAreKept`: `EtchIInv` adds that rings and growth hold etches numbered no higher than those applied, so that a new one is new
  (`SoundRings`, `EtchesInGrowth`), and that every snapshot has its audit lines' etches (`ShotsWithin`); a file that parses has only whole lines, the last perhaps without its newline. What a ring shows of a list is stated
  by counting from its end (`ShowsNewest`), which pushing into the ring and appending to the list preserve together.

### Engines (`Engines_proofs`)

- `LayersAreLoadedInFull`: a load that awaits has given each kernel before its place a session (`LoadedSoFar`); a run that
  nobody joined has the session's profile to itself (`CleanRunsAreAlone`); the sink is the tail of the log (`SinkIsTail`), and every entry in it is of a
  run that has ended, which is counted (`EntriesAreOfRuns`).
- `AnswersAreChained`: `HotPathIInv` adds that calls under way and answers logged are of different calls (`CallsDiffer`), that answers not
  yet logged are sound already, and bounds the fallbacks by the calls that do not wait.
- `FailoverIsStable`: the type is inductive; the rest is of `Decide` for any configuration and outages. That a first provider is up rests on the least
  index of a set (`LeastIndex`), as does what a leg reuses in `ReportsAreOfTheRun`.
- `FlawedRunsDecideNothing`: `GatesHold` says what a run that passed its gates without a flaw was sealed with, `VerdictStands` that a verdict came after the last mark
  by the rule that still stands. That an interval leaves zero out only for marks of both arms is counted, task by task.
- `AlertsAlwaysHold`: `AlertIInv` says for each dispatch how far it can have
  come by its state (`Progress`), that an issue belongs to the dispatch that filed it (`IssuesAreOwn`), that a Slack message about an urgent subject
  had a precedent when its dispatch was prepared (`SlackHasPrecedent`), and that the memory holds only what earlier dispatches recorded
  (`MemoryIsOfAlerts`); without the last, a precedent in the memory would not be an earlier dispatch.
- `ReportsAreOfTheRun`: `RoleIInv` says of each loop that its report adds up leg by leg (`ReportIsSound`), and of one that asked that its
  artefact will be newer than all it has (`LoopIsSound`); traces are numbered by prompts, so a precedent is older than the probe.
- `AccelerationIsSound`, `VerdictsFollowTheRule` and `AdaptersKeepTheirWord` carry these into the run of the engines: a step of the whole is for each
  component a step or none (`EngineSteps`), and alerts and loops, which share a memory, are idle while the other runs.

- `AnswersAreMergedInFull`: how far a merge has come is defined trace by trace. `MergedUpTo` says of a merge after n traces that the host's ring is
  bounded, that what skips in it resembles nothing before it, and that every wanted trace up to n is in unless the merge broke off; `LedgerHears`, that
  requests differ, are about merges there were and, from the etch, about each that committed and forwards.

What `LET` defines by recursion (a merge trace by trace, a sum action by action, a sieve chain by chain, the ancestors node by node) is shown to exist once, in "Values
computed step by step" (`StepsAreAFunction`), by induction on sets of steps; facts about its values then go from one step to the next (`CountingUp`).

### Thought (`Thought_proofs`)

- `PlansAreMostVisited`: `TreeGrown` says that the tree holds the prefixes of its nodes. The sums over children are defined action by action, and an
  iteration raises them for one child of each node it passes (`OneChildOnPath`). `WalkEnds` needs, for the plan to end at a leaf, that a walk
  which still goes on after k steps is k deep.
- `ChainsEndForAReason`, about `MycelialNetwork`. `MycelialIInv` says how far a build has come: no node lies beyond the level reached and those to be grown are leaves
  (`LevelsGrow`), what has grown in place is neither validated nor weak (`Judged`), a leaf without a verdict still has its turn before it (`LeavesWait`), without which
  nothing follows of the end of a build, and of a connected pair the earlier is not above the later (`LinksAreAcross`). A path is a chain of ancestors (`PathsAreChains`),
  so it holds both ends of no connection. Growing a node keeps the parents of the others, and with them who is above whom (`SameParentsSameAncestors`).
- `SolutionsAreTheBest`, about `ReasoningEngine`. `ReasoningIInv` adds that a hypothesis at the end of its chain has confidence unless it was pruned or failed (`EndIsSound`), which validation
  keeps because it picks an active hypothesis, and says in full what phase 4 selects (`SoundSelection`). Groundings are fractions of which the products are compared; that this is
  an order (`AtLeastAsIsAnOrder`) and that of any places to choose from one is the first of the best (`SomethingIsBest`) gives what `max` and `sorted` promise. `SiftSound` is the invariant of the sieve.
- `ThoughtsKeepTheirWord` carries both into the run of the engines.

### Memories (`Memory_proofs`)

- `PanelsLeaveNothingOut`: `NothingUnseen` and `LateIsEarly` are about lists that are filtered, cut and replayed. `HooksSound` says of both hooks at once that what the bus
  retains of the window ends what they hold (`Ends`, `Among`); as time passes what is of the window comes last in what was (`AmongTheLater`), because samples are in the order
  they were measured in (`SamplesInOrder`). `CallsSound` numbers the payloads that wait from the last call backwards, `PreviewSound` adds to `PreviewIsBounded`
  that a preview under which nothing moved styles something, without which an element inserted above could become the first match. `PanelsKeepTheirWord` carries this into the run `memory`.
- `RangesAreTrees`: `SessionIInv` says that the peaks are those of a range (`Whole`, `IsRange`): perfect trees of RFC 6962 over powers of two of claims, one after
  another, the powers descending. Appending a claim is adding one to a binary number: as long as the next peak is as tall as what was merged, the two join, and what is left
  descends again (`AppendedIs`). The recursive head splits off the greatest power of two below its size, and for a range that is its first peak (`RestsAre`, `HeadSplits`), so the bag of the peaks is
  the head of the claims (`BaggedIs`) and the proof that climbs a peak and passes the others is the path in that tree (`ProofIs`). A path leads from its leaf to the root
  (`PathsLeadUp`) and, hashes being terms, from no other leaf (`AscentsDiffer`). `ReceiptSound` says this of the receipt and the first claims it was issued for, which later ones follow.
  That powers double is counted on sets of subsets (`PowersDouble`); that heads, trees and paths exist as functions is shown by joining what is defined up to each size (`RecursionIs`) over
  the terms the claims can make (`ClosedSetIs`). `ReceiptsStandForGood` carries this into the run `memory`.

### Assumptions

`TransportAssumption`, `StigmergyAssumption`, `OrchestratorAssumption`, `LedgerAssumption` and their like are named in the modules that declare the constants, and TLC evaluates them
in the runs. `ReasoningAssumption` takes the confidence of a seed and the two thresholds it meets to be positive, as the defaults of `py/base.py` and `py/engine.py` are: with a threshold of 0
a refinement that estimates 0 would be validated. The assumptions above that belong to a theorem alone stand in its statement.

### Only model-checked

- Liveness (`VetoPropagates`, `EveryEntryArrives`, `RequestsEndUnlessStalled`), which is out of the prover's reach.
- `AgentInv`, whose plans are compared with the states reached in k steps.

## Not modelled

- In modelled components: resonance scores, tensors, projections, filters and other numerics; digests and
  signatures (taken as collision free and unforgeable); the contents of metadata; formatting, JSON, HTTP and
  authentication. A failing publish; a subscriber that joins after entries were read; unbounded growth of remote state. Of the proteome a kernel output
  that is not finite, whose digest throws after the nodes were updated (`proteome/ProteomeOrchestrator.ts:283-315`). Of the ARC agent the click sweep,
  scores, oscillation novelty, and an interrupt between `open_scorecard` and the `try` that closes it (`py/adapters/arcagi3_agent.py:2616-2634`). Of the panel the Kalman filter, slopes, horizons, the LCP fusion, sparkline, heads-up display and announcer,
  and React's double mount in strict mode. Of the organelle merge the formats of hints and a failing `applyEtch`. `GuardianKeyVault`.
- Other platform adapters and `MCOPOrchestrator`: request formatting around `BaseAdapter`.
- Encoders, vectors and hashing: pure functions of numbers and bytes. ThermoTruth, free energy and pGoT kernels likewise.
- Conformance and audit: sequential evaluation and reports.
- Ledger HTTP server: a stateless shell around `LedgerService`.
- Web application: pages without shared state, apart from the panel.
- Desktop shell: start-up and one child process.
- Core package and CUDA server: ports of the TypeScript core and numeric kernels.

Much of the repository is of these kinds, so that the map covers little more than an eighth of its lines.

## State of the plan

1. Modelled and checked: cluster, transports, the three ways to a ledger, the memories, the agents, the engines.
2. Proved: every safety property of the passing runs but `AgentInv`, and the refinements of the stream and the ring buffer.
3. Left: a proof of `AgentInv`; then the publish that fails, restarted senders, imports in different orders as a run of their own, the router's chain over
   a restart, the proteome's numbers that are not finite, and `MCOPOrchestrator` over the modelled parts.
