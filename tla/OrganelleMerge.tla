----------------------------- MODULE OrganelleMerge -----------------------------
(***************************************************************************)
(* What a model that hosts MCOP answers (an "organelle") is merged into    *)
(* the host: mergeOrganelleResponse (src/utils/organelleMerge.ts) and      *)
(* processOrganelleResult (src/adapters/grokAdapter.ts).  A trace of an    *)
(* answer is the tensor its hint or summary stands for and whether the     *)
(* model found it strong enough.  Each merge is synchronous, and each may  *)
(* stop half way: a tensor that is not finite cannot be digested.          *)
(***************************************************************************)
EXTENDS Naturals, Sequences, FiniteSets

CONSTANTS
    Tensors,     \* tensors that say something; "flat" and "unsealable" are not among them
    Offers,      \* what models answer: lists of traces
    HostCapacity,\* maxTraces of the host's StigmergyV5
    MaxMerges    \* bound: answers merged

ASSUME OrganelleAssumption ==
    /\ HostCapacity \in Nat \ {0} /\ MaxMerges \in Nat
    /\ Tensors \cap {"flat", "unsealable"} = {}
    /\ Offers \subseteq Seq([tensor : Tensors \cup {"flat", "unsealable"}, strong : BOOLEAN])

Strategies == {"always-add", "skip", "replace"}
Ways == [by : {"adapter"}, strict : BOOLEAN, traces : BOOLEAN, etch : BOOLEAN]
        \cup [by : {"utility"}, strategy : Strategies]

VARIABLES
    wiring,   \* how etch and adapter reach the ledger
    merges,   \* the merges: of what, in which way, and what the caller was told
    held,     \* the host's traces, oldest first: their tensor, merge and place in the answer
    laid,     \* places recorded by each merge (history: the ring forgets)
    etched,   \* merges whose etch was committed
    told      \* requests to the ledger: about which merge, and who sent it

organelleVars == <<wiring, merges, held, laid, etched, told>>

(* The etch may forward what it commits, the caller may hand the adapter a *)
(* client and a tenant, and the floor may lie above the zero that an empty *)
(* etch amounts to.  createLedgerAware() wires the etch and gives the      *)
(* adapter a forwarder, but neither client nor tenant.                     *)
Wiring == [etchForwards : BOOLEAN, adapterForwards : BOOLEAN, floorAboveZero : BOOLEAN]

OrganelleInit ==
    /\ wiring \in Wiring
    /\ merges = <<>> /\ held = <<>> /\ laid = <<>> /\ etched = {} /\ told = <<>>

-----------------------------------------------------------------------------
(* reconstructContextFromHint: a hint may hold zeros, or numbers that are  *)
(* not finite, as [1e999].                                                 *)
Tensor == Tensors \cup {"flat", "unsealable"}
Sealable(t) == t.tensor # "unsealable"

(* Its tensor resembles one that is held: a flat one resembles none.       *)
Resembles(t, traces) == t.tensor \in Tensors /\ \E i \in DOMAIN traces : traces[i].tensor = t.tensor

InHost(traces, x) == IF Len(traces) = HostCapacity THEN Append(Tail(traces), x)
                                                   ELSE Append(traces, x)

(* Mutant of KnownTo: duplicates are looked for before the merge begins.   *)
KnownBefore(t, at) == Resembles(t, held)
KnownTo(t, at) == Resembles(t, at.held)

(* mergeOrganelleTraces passes over weak traces and, with 'skip', over     *)
(* known ones; 'replace' is as 'always-add'.  The adapter takes them all.  *)
Passes(t, way, at) ==
    way.by = "utility" => t.strong /\ ~(way.strategy = "skip" /\ KnownTo(t, at))

(* A tensor that cannot be sealed ends the merge, unless the adapter was   *)
(* not told to be strict.                                                  *)
Tolerant(way) == way.by = "adapter" /\ ~way.strict

(* The merge of one trace, `at` being how far the merge has come. *)
TakeIn(way, offer, n, at) ==
    IF at.broken \/ ~Passes(offer[n], way, at) THEN at
    ELSE IF ~Sealable(offer[n]) THEN [at EXCEPT !.broken = ~Tolerant(way)]
    ELSE [at EXCEPT
            !.held = InHost(@, [tensor |-> offer[n].tensor, merge |-> Len(merges) + 1, place |-> n,
                                skips |-> way.by = "utility" /\ way.strategy = "skip"]),
            !.places = Append(@, n)]

TakenIn(way, offer) ==
    LET start == [held |-> held, places |-> <<>>, broken |-> FALSE]
        after[n \in 0..Len(offer)] ==
            IF n = 0 THEN start ELSE TakeIn(way, offer, n, after[n - 1])
    IN  IF way.by = "adapter" /\ ~way.traces THEN start ELSE after[Len(offer)]

(* Mutant of ReachesEtch: the etch does not wait for the traces. *)
EtchAnyhow(way, at) == way.by = "adapter" => way.etch
ReachesEtch(way, at) == ~at.broken /\ (way.by = "adapter" => way.etch)

(* applyEtch([], [], note): a delta of zero. *)
Commits(way, at) == ReachesEtch(way, at) /\ ~wiring.floorAboveZero

(* Mutant of Requests: processOrganelleResult forwards for the etch too. *)
RequestsTwice(way, at, m) ==
    (IF Commits(way, at) /\ wiring.etchForwards
     THEN <<[about |-> m, from |-> "etch"], [about |-> m, from |-> "etch"]>> ELSE <<>>)

(* The etch forwards what it commits; the adapter forwards what it offered *)
(* to the etch, committed or not.                                          *)
Requests(way, at, m) ==
    (IF Commits(way, at) /\ wiring.etchForwards THEN <<[about |-> m, from |-> "etch"]>> ELSE <<>>)
    \o (IF way.by = "adapter" /\ ReachesEtch(way, at) /\ wiring.adapterForwards
        THEN <<[about |-> m, from |-> "adapter"]>> ELSE <<>>)

(* Mutant of Told: every trace offered counts as merged. *)
ToldAllOffered(at, offer, committed) ==
    [outcome |-> IF at.broken THEN "rejected" ELSE "answered",
     traces |-> Len(offer), etch |-> committed]
Told(at, offer, committed) ==
    [outcome |-> IF at.broken THEN "rejected" ELSE "answered",
     traces |-> Len(at.places), etch |-> committed]

(* An answer with artifacts is merged. *)
Merge(offer, way) ==
    /\ Len(merges) < MaxMerges
    /\ LET m == Len(merges) + 1
           at == TakenIn(way, offer)
       IN  /\ merges' = Append(merges, [offer |-> offer, way |-> way,
                                        told |-> Told(at, offer, Commits(way, at))])
           /\ held' = at.held
           /\ laid' = Append(laid, at.places)
           /\ etched' = IF Commits(way, at) THEN etched \cup {m} ELSE etched
           /\ told' = told \o Requests(way, at, m)
    /\ UNCHANGED wiring

(* One that is empty, no JSON or of another shape: nothing is merged; a    *)
(* strict caller is told so.                                               *)
Ignore(way) ==
    /\ Len(merges) < MaxMerges /\ way.by = "adapter"
    /\ merges' = Append(merges, [offer |-> <<>>, way |-> way, told |->
            [outcome |-> IF way.strict THEN "rejected" ELSE "answered",
             traces |-> 0, etch |-> FALSE]])
    /\ laid' = Append(laid, <<>>)
    /\ UNCHANGED <<wiring, held, etched, told>>

OrganelleNext ==
    \E way \in Ways : Ignore(way) \/ \E offer \in Offers : Merge(offer, way)

OrganelleSpec == OrganelleInit /\ [][OrganelleNext]_organelleVars

-----------------------------------------------------------------------------
(* Properties. *)

OrganelleTypeOK ==
    /\ wiring \in Wiring /\ etched \subseteq DOMAIN merges
    /\ Len(laid) = Len(merges) /\ Len(held) <= HostCapacity
    /\ \A i \in DOMAIN held : held[i].tensor \in Tensor \ {"unsealable"}
    /\ \A m \in DOMAIN merges :
        merges[m].way \in Ways /\ merges[m].told.outcome \in {"answered", "rejected"}
    /\ \A i \in DOMAIN told : told[i].about \in DOMAIN merges

(* A caller that is answered is told exactly what came in and whether it   *)
(* was etched; one whose merge was rejected has no etch, though some of    *)
(* the traces may have come in.                                            *)
CallersKnowWhatCameIn ==
    \A m \in DOMAIN merges :
        IF merges[m].told.outcome = "answered"
        THEN merges[m].told.traces = Len(laid[m]) /\ (merges[m].told.etch <=> m \in etched)
        ELSE m \notin etched

(* An etch closes an answer: each of its traces that was wanted and can be *)
(* sealed is in.                                                           *)
EtchClosesTheAnswer ==
    \A m \in etched :
        LET way == merges[m].way
        IN  \A n \in DOMAIN merges[m].offer :
                LET t == merges[m].offer[n]
                IN  Sealable(t) /\ (IF way.by = "adapter" THEN way.traces
                                    ELSE t.strong /\ way.strategy # "skip")
                    => \E i \in DOMAIN laid[m] : laid[m][i] = n

(* With 'skip' no trace comes in that resembles one the host then held,    *)
(* whether of an earlier answer or of the same.                            *)
SkippersAddNothingKnown ==
    \A i, j \in DOMAIN held :
        i < j /\ held[j].skips => ~Resembles(held[j], <<held[i]>>)

(* An etch that forwards is heard of once, and nothing is heard twice from *)
(* the same side.                                                          *)
EtchesAreHeardOnce ==
    LET HeardOf(m, from) == {i \in DOMAIN told : told[i] = [about |-> m, from |-> from]}
    IN  /\ \A m \in DOMAIN merges :
            Cardinality(HeardOf(m, "etch")) = (IF m \in etched /\ wiring.etchForwards THEN 1 ELSE 0)
        /\ \A m \in DOMAIN merges : Cardinality(HeardOf(m, "adapter")) <= 1

(* Callers know what came in, an etch closes its answer and is heard of    *)
(* once, and skipping keeps resembling traces out.                         *)
OrganelleInv ==
    /\ OrganelleTypeOK /\ CallersKnowWhatCameIn /\ EtchClosesTheAnswer
    /\ SkippersAddNothingKnown /\ EtchesAreHeardOnce
=============================================================================
