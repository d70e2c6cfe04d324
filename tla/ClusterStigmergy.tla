--------------------------- MODULE ClusterStigmergy ---------------------------
(***************************************************************************)
(* ClusterStigmergy (src/cluster/clusterStigmergy.ts): every node keeps a  *)
(* bounded window of its own hash-chained traces and a replica of what its *)
(* peers gossiped.  A trace is an entry                                    *)
(*   [writer, id, hash, parent, score, clusterHash]                        *)
(* whose hash stands for the SHA-256 that seals it (and is its localRoot), *)
(* parent for the hash of the writer's previous trace, and score for its   *)
(* flourishing score.  Hashes are numbers handed out in minting order, so  *)
(* that clusterHash is totally ordered as the hexadecimal digests are.     *)
(***************************************************************************)
EXTENDS GossipTransport, FiniteSets, TLC

CONSTANTS
    Scores,         \* flourishing scores a caller may attach
    MaxTraces,      \* bound: traces ever minted in the cluster
    Capacity,       \* maxTraces / replayCapacity: retained local window
    MutatingCallers,\* may a caller change its arrays before gossip delivery?
    Importable      \* replay entries a caller may pass to writeTraceRemote

NoHash == 0         \* an absent parentHash, an absent root

(* A flourishing score is any finite number of the metadata: an integer    *)
(* stands for it.                                                          *)
Entry == [writer : Nodes, id : Nat, hash : Nat \ {NoHash}, parent : Nat,
          score : Nat, clusterHash : Nat]

ASSUME StigmergyAssumption ==
    /\ Scores \subseteq Nat
    /\ MaxTraces \in Nat
    /\ Capacity \in Nat \ {0}
    /\ MutatingCallers \in BOOLEAN
    /\ Importable \subseteq Entry

VARIABLES
    minted,     \* traces minted so far: the source of fresh ids and hashes
    localSeq,   \* localSeq[n]: sequence number of n's last message
    window,     \* window[n]: n's own retained traces, oldest first
    verified,   \* verifiedReplayTraces: every remote entry admitted by n
    active,     \* remoteTraces: the preferred admitted entry of each id
    remoteRoots,\* remoteRoots[n][w]: last known root of writer w at n
    seen,       \* seenSequences[n][w]
    vetoed,     \* vetoed[n]: trace ids under human veto
    caps        \* nodeCapabilities[n][w]: does w advertise CUDA?

stigmergyVars == <<minted, localSeq, window, verified, active, remoteRoots,
                   seen, vetoed, caps>>
replicaVars == <<verified, active, remoteRoots, seen, vetoed, caps>>
vars == <<transportVars, stigmergyVars>>

TraceMsg(n, seq, entry, intact) ==
    [type |-> "trace", from |-> n, seq |-> seq, body |-> entry, intact |-> intact]
VetoMsg(n, seq, id) ==
    [type |-> "veto", from |-> n, seq |-> seq, body |-> id, intact |-> TRUE]

Unknown == "unknown"
TraceId == Nat

Message == [type : {"trace"}, from : Nodes, seq : Nat, body : Entry, intact : BOOLEAN]
      \cup [type : {"veto"}, from : Nodes, seq : Nat, body : TraceId, intact : BOOLEAN]
      \cup [type : {"capability"}, from : Nodes, seq : Nat, body : Capability, intact : BOOLEAN]

TypeOK ==
    /\ log \in Seq(Message)
    /\ cursor \in [Nodes -> Nat]
    /\ \A n \in Nodes : cursor[n] <= Len(log)
    /\ minted \in Nat
    /\ localSeq \in [Nodes -> Nat]
    /\ window \in [Nodes -> Seq(Entry)]
    /\ \A n \in Nodes : Len(window[n]) <= Capacity
    /\ verified \in [Nodes -> SUBSET Entry]
    /\ active \in [Nodes -> SUBSET Entry]
    /\ remoteRoots \in [Nodes -> [Nodes -> Nat]]
    /\ seen \in [Nodes -> [Nodes -> Nat]]
    /\ vetoed \in [Nodes -> SUBSET TraceId]
    /\ caps \in [Nodes -> [Nodes -> Capability \cup {Unknown}]]

StigmergyInit ==
    /\ minted = 0
    /\ localSeq = [n \in Nodes |-> 0]
    /\ window = [n \in Nodes |-> <<>>]
    /\ verified = [n \in Nodes |-> {}]
    /\ active = [n \in Nodes |-> {}]
    /\ remoteRoots = [n \in Nodes |-> [w \in Nodes |-> NoHash]]
    /\ seen = [n \in Nodes |-> [w \in Nodes |-> 0]]
    /\ vetoed = [n \in Nodes |-> {}]
    /\ caps = [n \in Nodes |-> [w \in Nodes |-> IF w = n THEN "cpu" ELSE Unknown]]

Init == TransportInit /\ StigmergyInit

-----------------------------------------------------------------------------
(* Conflict resolution and reads. *)

(* selectPreferredTrace(b, a) = a: the higher flourishing score wins, the  *)
(* lower clusterHash breaks a tie.                                         *)
Beats(a, b) ==
    \/ a.score > b.score
    \/ a.score = b.score /\ a.clusterHash < b.clusterHash

(* reduce(selectPreferredTrace) over a non-empty set of entries. *)
Preferred(S) == CHOOSE e \in S : \A f \in S : f = e \/ Beats(e, f)

Siblings(S, id) == {e \in S : e.id = id}

LocalRoot(n) == IF window[n] = <<>> THEN NoHash ELSE window[n][Len(window[n])].hash

(* getKnownRoots(): the node's own root overrides what it was told. *)
KnownRoots(n) ==
    [w \in Nodes |-> IF w = n /\ LocalRoot(n) # NoHash THEN LocalRoot(n)
                     ELSE remoteRoots[n][w]]

OwnTraces(n) == {window[n][i] : i \in DOMAIN window[n]}

(* The candidates getResonance() scores: every retained local trace, and   *)
(* the active remote ones that are not vetoed.                             *)
ResonanceSurface(n) ==
    OwnTraces(n) \cup {e \in active[n] : e.id \notin vetoed[n]}

-----------------------------------------------------------------------------
(* Local operations. *)

(* Mutant of Retain: one trace too many is kept. *)
RetainOneMore(traces) ==
    IF Len(traces) > Capacity + 1
    THEN SubSeq(traces, Len(traces) - Capacity, Len(traces))
    ELSE traces

(* rememberLocalReplayTrace: keep the newest Capacity traces. *)
Retain(traces) ==
    IF Len(traces) > Capacity
    THEN SubSeq(traces, Len(traces) - Capacity + 1, Len(traces))
    ELSE traces

(* recordTrace(): extend n's chain and gossip the entry.  The envelope     *)
(* refers to the caller's own arrays until it is delivered, so a caller    *)
(* that changes them in time makes the gossiped trace fail verification    *)
(* (intact = FALSE); the retained copy was cloned before.                  *)
RecordTrace(n, score, intact) ==
    LET entry == [writer |-> n, id |-> minted + 1, hash |-> minted + 1,
                  parent |-> LocalRoot(n), score |-> score,
                  clusterHash |-> minted + 1]
    IN  /\ minted < MaxTraces
        /\ minted' = minted + 1
        /\ window' = [window EXCEPT ![n] = Retain(Append(@, entry))]
        /\ localSeq' = [localSeq EXCEPT ![n] = @ + 1]
        /\ Publish(<<TraceMsg(n, localSeq[n] + 1, entry, intact)>>)
        /\ UNCHANGED <<cursor, replicaVars>>

(* vetoTrace(): note that nothing but the veto set changes locally. *)
VetoTrace(n, id) ==
    /\ vetoed' = [vetoed EXCEPT ![n] = @ \cup {id}]
    /\ localSeq' = [localSeq EXCEPT ![n] = @ + 1]
    /\ Publish(<<VetoMsg(n, localSeq[n] + 1, id)>>)
    /\ UNCHANGED <<cursor, minted, window, verified, active, remoteRoots, seen, caps>>

(* advertiseCapability() *)
AdvertiseCapability(n, cuda) ==
    /\ caps' = [caps EXCEPT ![n][n] = cuda]
    /\ localSeq' = [localSeq EXCEPT ![n] = @ + 1]
    /\ Publish(<<CapabilityMsg(n, localSeq[n] + 1, cuda)>>)
    /\ UNCHANGED <<cursor, minted, window, verified, active, remoteRoots, seen, vetoed>>

-----------------------------------------------------------------------------
(* Admission of remote entries. *)

(* Mutant of ActiveWith: the last import wins. *)
ActiveWithLast(n, entry) == {a \in active[n] : a.id # entry.id} \cup {entry}

(* remoteTraces after entry has been imported at n. *)
ActiveWith(n, entry) ==
    IF \E a \in active[n] : a.id = entry.id /\ ~Beats(entry, a)
    THEN active[n]
    ELSE {a \in active[n] : a.id # entry.id} \cup {entry}

(* The key of verifiedReplayTraces is writer, trace id and clusterHash. *)
IsDuplicate(n, entry) ==
    \E e \in verified[n] : /\ e.writer = entry.writer
                           /\ e.id = entry.id
                           /\ e.clusterHash = entry.clusterHash

(* The state writeTraceRemote(entry.writer, entry) leaves at n for an      *)
(* entry that verifies.  A duplicate changes nothing.                      *)
VerifiedAfter(n, entry) ==
    IF IsDuplicate(n, entry) THEN verified[n] ELSE verified[n] \cup {entry}
ActiveAfter(n, entry) ==
    IF IsDuplicate(n, entry) THEN active[n] ELSE ActiveWith(n, entry)

(* Mutant of RootsAfter: the first root of a writer stays. *)
RootsFirst(n, entry) ==
    IF remoteRoots[n][entry.writer] # NoHash THEN remoteRoots[n]
    ELSE [remoteRoots[n] EXCEPT ![entry.writer] = entry.hash]
RootsAfter(n, entry) ==
    IF IsDuplicate(n, entry) THEN remoteRoots[n]
    ELSE LET sameWriter == {e \in Siblings(verified[n] \cup {entry}, entry.id) :
                                e.writer = entry.writer}
         IN  [remoteRoots[n] EXCEPT ![entry.writer] = Preferred(sameWriter).hash]

(* A caller imports one entry of a replay bundle with writeTraceRemote(). *)
WriteTraceRemote(n, entry) ==
    /\ verified' = [verified EXCEPT ![n] = VerifiedAfter(n, entry)]
    /\ active' = [active EXCEPT ![n] = ActiveAfter(n, entry)]
    /\ remoteRoots' = [remoteRoots EXCEPT ![n] = RootsAfter(n, entry)]
    /\ UNCHANGED <<transportVars, minted, localSeq, window, seen, vetoed, caps>>

-----------------------------------------------------------------------------
(* handleInbound(message), by message type. *)

(* Mutants of Fresh: no filter, one counter for all senders, no gaps. *)
FreshAlways(n, msg) == msg.from # n
FreshOneCounter(n, msg) == msg.from # n /\ \A w \in Nodes : msg.seq > seen[n][w]
FreshNoGaps(n, msg) == msg.from # n /\ msg.seq = seen[n][msg.from] + 1

(* Own messages are ignored, and so is every message whose sequence number *)
(* is not above the last one taken from its sender.                        *)
Fresh(n, msg) == msg.from # n /\ msg.seq > seen[n][msg.from]

(* A trace that does not verify is dropped before seen moves; one that     *)
(* does is admitted, and taken off the surface again if its id is vetoed.  *)
HandleTrace(n, msg) ==
    /\ msg.type = "trace"
    /\ msg.intact
    /\ verified' = [verified EXCEPT ![n] = VerifiedAfter(n, msg.body)]
    /\ remoteRoots' = [remoteRoots EXCEPT ![n] = RootsAfter(n, msg.body)]
    /\ active' = [active EXCEPT ![n] =
                     IF msg.body.id \in vetoed[n]
                     THEN {e \in ActiveAfter(n, msg.body) : e.id # msg.body.id}
                     ELSE ActiveAfter(n, msg.body)]
    /\ seen' = [seen EXCEPT ![n][msg.from] = msg.seq]
    /\ UNCHANGED <<vetoed, caps>>

(* Mutant of HandleVeto: an early veto is not remembered. *)
HandleVetoOnce(n, msg) ==
    /\ msg.type = "veto"
    /\ active' = [active EXCEPT ![n] = {e \in @ : e.id # msg.body}]
    /\ seen' = [seen EXCEPT ![n][msg.from] = msg.seq]
    /\ UNCHANGED <<vetoed, verified, remoteRoots, caps>>

HandleVeto(n, msg) ==
    /\ msg.type = "veto"
    /\ vetoed' = [vetoed EXCEPT ![n] = @ \cup {msg.body}]
    /\ active' = [active EXCEPT ![n] = {e \in @ : e.id # msg.body}]
    /\ seen' = [seen EXCEPT ![n][msg.from] = msg.seq]
    /\ UNCHANGED <<verified, remoteRoots, caps>>

HandleCapability(n, msg) ==
    /\ msg.type = "capability"
    /\ caps' = [caps EXCEPT ![n][msg.from] = msg.body]
    /\ seen' = [seen EXCEPT ![n][msg.from] = msg.seq]
    /\ UNCHANGED <<verified, active, remoteRoots, vetoed>>

Ignored(n, msg) == ~Fresh(n, msg) \/ (msg.type = "trace" /\ ~msg.intact)

HandleInbound(n, msg) ==
    /\ \/ Ignored(n, msg) /\ UNCHANGED replicaVars
       \/ Fresh(n, msg) /\ (HandleTrace(n, msg) \/ HandleVeto(n, msg) \/ HandleCapability(n, msg))
    /\ UNCHANGED <<minted, localSeq, window>>

Deliver(n) == Consume(n) /\ HandleInbound(n, NextMessage(n))

(* At-least-once: an envelope n was handed before arrives again. *)
Redeliver(n) ==
    /\ \E k \in 1..cursor[n] : HandleInbound(n, log[k])
    /\ UNCHANGED transportVars

-----------------------------------------------------------------------------
(* The ids a human can name: those of minted or importable traces. *)
NamedIds == 1..minted \cup {e.id : e \in Importable}

Next ==
    \E n \in Nodes :
        \/ \E s \in Scores, intact \in BOOLEAN :
              (~intact => MutatingCallers) /\ RecordTrace(n, s, intact)
        \/ \E id \in NamedIds : VetoTrace(n, id)
        \/ \E cuda \in Capability : AdvertiseCapability(n, cuda)
        \/ \E entry \in Importable : WriteTraceRemote(n, entry)
        \/ Deliver(n)
        \/ Redeliver(n)

Spec == Init /\ [][Next]_vars

(* The transport keeps delivering: microtasks run, polls recur. *)
FairSpec == Spec /\ \A n \in Nodes : WF_vars(Deliver(n))

-----------------------------------------------------------------------------
(* Offline replay of a node's history: exportReplayBundle() on the node,   *)
(* ClusterStigmergy.replay() wherever the bundle is verified.              *)

HashesOf(traces, w) == {e.hash : e \in {t \in traces : t.writer = w}}

(* exportReplayBundle().traces *)
BundleTraces(n) == OwnTraces(n) \cup verified[n]

(* Mutant of Boundaries: a boundary for every trace with a predecessor. *)
BoundariesEverywhere(traces) == {e \in traces : e.parent # NoHash}

(* exportReplayBundle().boundaries: one for every exported trace whose     *)
(* predecessor is not in the bundle (the trace itself stands for the       *)
(* boundary that names its writer, hash and parentHash).                   *)
Boundaries(traces) ==
    {e \in traces : e.parent # NoHash /\ e.parent \notin HashesOf(traces, e.writer)}

(* activeByIdentity: the preferred entry of every writer and trace id. *)
ActiveByIdentity(traces) ==
    {e \in traces : \A f \in traces :
        f.writer = e.writer /\ f.id = e.id => ~Beats(f, e)}

(* Every trace is committed to by a root of the snapshot. *)
Committed(traces, roots) == \A e \in traces : roots[e.writer] # NoHash

(* One boundary per writer, on a selected trace whose parent is missing. *)
BoundariesMatch(chain, boundaries) ==
    /\ \A b, c \in boundaries : b.writer = c.writer => b = c
    /\ \A b \in boundaries :
        \E e \in chain : /\ e.writer = b.writer
                         /\ e.hash = b.hash
                         /\ e.parent = b.parent
                         /\ b.parent \notin HashesOf(chain, b.writer)

(* Writer w's selected traces form one chain, anchored at its boundary if  *)
(* the start is missing, whose only head is the root.                      *)
ChainMatches(chain, boundaries, w, root) ==
    LET own == {e \in chain : e.writer = w}
        anchored(e) == \E b \in boundaries : /\ b.writer = w
                                             /\ b.hash = e.hash
                                             /\ b.parent = e.parent
        heads == {e \in own : \A f \in own : f.parent # e.hash}
    IN  /\ own # {}
        /\ \A e \in own : \/ e.parent = NoHash
                          \/ e.parent \in HashesOf(chain, w)
                          \/ anchored(e)
        /\ Cardinality(heads) = 1
        /\ \A e \in heads : e.hash = root

(* ClusterStigmergy.replay({traces, boundaries}, roots) does not throw. *)
ReplayAccepts(traces, boundaries, roots) ==
    LET chain == ActiveByIdentity(traces)
    IN  /\ Committed(traces, roots)
        /\ BoundariesMatch(chain, boundaries)
        /\ \A w \in Nodes : roots[w] # NoHash => ChainMatches(chain, boundaries, w, roots[w])

-----------------------------------------------------------------------------
(* Properties. *)

(* At-least-once delivery becomes exactly-once application                 *)
(* (handleInbound's dedup): whatever a peer sent that n was handed and     *)
(* that verifies is in n's state; the sequence filter never mistakes a new *)
(* message for an old one.                                                 *)
NothingLost ==
    \A n \in Nodes : \A msg \in Consumed(n) :
        msg.from # n =>
            /\ msg.type = "trace" /\ msg.intact => IsDuplicate(n, msg.body)
            /\ msg.type = "veto" => msg.body \in vetoed[n]

(* ... and handing an envelope over again changes nothing, whatever was    *)
(* delivered, vetoed or imported in between.                               *)
RedeliveryIsIdempotent ==
    [][\A n \in Nodes : Redeliver(n) => UNCHANGED stigmergyVars]_vars

(* A node's view of a peer's capability is the newest advertisement it was *)
(* handed, never an older one that arrived again.                          *)
CapabilityIsCurrent ==
    \A n, w \in Nodes :
        LET heard == {k \in 1..cursor[n] : log[k].from = w /\ log[k].type = "capability"}
        IN  w # n /\ heard # {} =>
                \E k \in heard : (\A j \in heard : j <= k) /\ caps[n][w] = log[k].body

(* writeTraceRemote's conflict resolution does not depend on arrival       *)
(* order: of every id that is not vetoed, exactly one admitted entry is    *)
(* active and no admitted entry of that id beats it.                       *)
ActiveIsPreferred ==
    \A n \in Nodes :
        /\ active[n] \subseteq verified[n]
        /\ \A a, b \in active[n] : a.id = b.id => a = b
        /\ \A e \in verified[n] : e.id \notin vetoed[n] =>
               \E a \in active[n] : a.id = e.id /\ ~Beats(e, a)

(* Class comment, guarantee 2: nodes that have observed the same set of    *)
(* traces fold the same per-node roots.                                    *)
Observed(n) == OwnTraces(n) \cup verified[n]
SameTracesSameRoots ==
    \A a, b \in Nodes : Observed(a) = Observed(b) => KnownRoots(a) = KnownRoots(b)

(* At any moment a node can prove its view: what it exports replays        *)
(* against the roots it reports, although its own window is bounded and    *)
(* its peers' traces keep arriving.                                        *)
ReplayAccepted ==
    \A n \in Nodes :
        ReplayAccepts(BundleTraces(n), Boundaries(BundleTraces(n)), KnownRoots(n))

(* Class comment, guarantee 3: a humanVeto always wins over any score, so  *)
(* a node never answers a resonance query with a trace it knows is vetoed. *)
VetoWins ==
    \A n \in Nodes : \A e \in ResonanceSurface(n) : e.id \notin vetoed[n]

(* A veto reaches every node in the end and is remembered there, also when *)
(* it comes before the trace it names: an importable trace is vetoed by a  *)
(* node that knows of it before others have imported it.                   *)
VetoPropagates ==
    \A n, w \in Nodes : \A id \in 1..MaxTraces \cup {e.id : e \in Importable} :
        id \in vetoed[n] ~> id \in vetoed[w]

(* Nothing tells the nodes apart but their names (a small instance takes   *)
(* them as a symmetric set; for safety only).                              *)
NodeSymmetry == Permutations(Nodes)
=============================================================================
