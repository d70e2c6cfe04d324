---------------------------- MODULE ProviderRouting ----------------------------
(***************************************************************************)
(* chooseProviderAcrossGrokAndQwen() (src/adapters/multiProviderRouter.ts) *)
(* and an orchestrator that asks it while providers go down and come back. *)
(* Entropy and resonance count only by the thresholds they reach, and the  *)
(* thresholds are the caller's: any combination may come up.               *)
(***************************************************************************)
EXTENDS Naturals, Sequences, FiniteSets

CONSTANTS
    FallbackOrder,   \* FALLBACK_ORDER: the providers, in the order of failover
    Flagship         \* the provider of very novel prompts when quality counts

Providers == {FallbackOrder[i] : i \in DOMAIN FallbackOrder}

ASSUME RoutingAssumption ==
    /\ FallbackOrder \in Seq(STRING) /\ FallbackOrder # <<>>
    /\ \A i, j \in DOMAIN FallbackOrder : FallbackOrder[i] = FallbackOrder[j] => i = j
    /\ Flagship \in Providers
    /\ Providers \cap {"auto", "local", "human-review"} = {}

VARIABLES
    policy,       \* the caller's configuration, fixed for a run
    unavailable,  \* providers whose circuit-breaker is open
    decision      \* the last decision, and what it was about

routingVars == <<policy, unavailable, decision>>

(* cached: resonance >= highResonanceCeiling; doubtful: resonance <        *)
(* lowResonanceFloor; novel: entropy >= noveltyEntropyFloor; veryNovel:    *)
(* entropy >= highEntropyBand.                                             *)
Signals == [cached : BOOLEAN, doubtful : BOOLEAN, novel : BOOLEAN, veryNovel : BOOLEAN]

Tier == {"cheap", "default", "promoted", "flagship", "reasoning", "pinned"}

Policy == [cost : {"cost", "balanced", "quality"},
           preferred : Providers \cup {"auto"},
           pinned : BOOLEAN]

RoutingInit ==
    /\ policy \in Policy
    /\ unavailable = {}
    /\ decision = [to |-> "local", tier |-> "none"]

-----------------------------------------------------------------------------
(* defaultAutoProvider() *)
AutoProvider(p, s) ==
    IF p.cost = "quality" /\ s.veryNovel THEN Flagship ELSE FallbackOrder[1]

(* The first provider in the order that is up; a mutant of it skips ahead  *)
(* when both of the first two are down.                                    *)
FailoverPair(down) ==
    IF {FallbackOrder[1], FallbackOrder[2]} \subseteq down
    THEN FallbackOrder[Len(FallbackOrder)]
    ELSE FallbackOrder[CHOOSE i \in DOMAIN FallbackOrder :
            /\ FallbackOrder[i] \notin down
            /\ \A j \in 1..(i - 1) : FallbackOrder[j] \in down]
Failover(down) ==
    FallbackOrder[CHOOSE i \in DOMAIN FallbackOrder :
        /\ FallbackOrder[i] \notin down
        /\ \A j \in 1..(i - 1) : FallbackOrder[j] \in down]

Wanted(p, s) == IF p.preferred = "auto" THEN AutoProvider(p, s) ELSE p.preferred
Chosen(p, s, down) ==
    IF Wanted(p, s) \in down THEN Failover(down) ELSE Wanted(p, s)

(* Mutant of Pinned: the pinned model follows the call to any provider. *)
PinnedAnywhere(p, to) == p.pinned /\ p.preferred # "auto"
Pinned(p, to) == p.pinned /\ p.preferred = to

(* pickQwenModel() and pickGrokModel() know four tiers, the other          *)
(* providers two: a default and a flagship.                                *)
TierFor(p, s, to) ==
    IF Pinned(p, to) THEN "pinned"
    ELSE IF to \in {FallbackOrder[1], Flagship}
         THEN CASE p.cost = "cost" -> "cheap"
                [] p.cost = "quality" -> IF s.veryNovel THEN "reasoning" ELSE "flagship"
                [] OTHER -> IF s.veryNovel THEN "promoted" ELSE "default"
         ELSE IF p.cost = "quality" THEN "flagship" ELSE "default"

(* Mutant of NeedsReview: doubtful prompts go to review however familiar. *)
ReviewAllDoubtful(s) == s.doubtful
NeedsReview(s) == s.novel /\ s.doubtful

Nowhere(to) == [to |-> to, tier |-> "none"]
Decide(p, s, down) ==
    CASE s.cached -> Nowhere("local")
      [] ~s.cached /\ NeedsReview(s) -> Nowhere("human-review")
      [] ~s.cached /\ ~NeedsReview(s) /\ (~s.novel \/ Providers \subseteq down) -> Nowhere("local")
      [] OTHER -> LET to == Chosen(p, s, down) IN [to |-> to, tier |-> TierFor(p, s, to)]

(* chooseProviderByEntropyResonance() and chooseQwenByEntropyResonance(). *)
DecideAlone(s, provider) ==
    CASE s.cached -> "local"
      [] ~s.cached /\ s.novel /\ s.doubtful -> "human-review"
      [] ~s.cached /\ s.novel /\ ~s.doubtful -> provider
      [] OTHER -> "local"

-----------------------------------------------------------------------------
Route(s) ==
    /\ decision' = Decide(policy, s, unavailable)
    /\ UNCHANGED <<policy, unavailable>>

(* The orchestrator's circuit-breakers open and close. *)
GoDown(p) == unavailable' = unavailable \cup {p} /\ UNCHANGED <<policy, decision>>
ComeBack(p) == unavailable' = unavailable \ {p} /\ UNCHANGED <<policy, decision>>

RoutingNext ==
    \/ \E s \in Signals : Route(s)
    \/ \E p \in Providers : GoDown(p) \/ ComeBack(p)

RoutingSpec == RoutingInit /\ [][RoutingNext]_routingVars

-----------------------------------------------------------------------------
(* Properties. *)

RoutingTypeOK ==
    /\ policy \in Policy /\ unavailable \subseteq Providers
    /\ decision \in [to : Providers, tier : Tier]
                    \cup [to : {"local", "human-review"}, tier : {"none"}]

(* "same calibration as the single-provider routers so behaviour is        *)
(* comparable" (multiProviderRouter.ts:85-86): whatever is down and whoever*)
(* is preferred, a prompt goes to a provider, to review or nowhere exactly *)
(* when a single-provider router of a provider that is up sends it there.  *)
AgreesWithSingleRouters ==
    \A s \in Signals : \A p \in Providers \ unavailable :
        LET to == Decide(policy, s, unavailable).to
        IN  (IF to \in Providers THEN p ELSE to) = DecideAlone(s, p)

(* The outage of a provider that was not chosen changes no decision, and   *)
(* the provider chosen is up: failover is as stable as the outages are.    *)
OutagesElsewhereChangeNothing ==
    \A s \in Signals : \A p \in Providers :
        LET d == Decide(policy, s, unavailable)
        IN  /\ d.to \notin unavailable
            /\ d.to \in Providers \ {p} => Decide(policy, s, unavailable \cup {p}) = d

(* A model pinned by the caller is sent to the provider it was pinned for  *)
(* or not at all, so no failover hands a model id to a provider that does  *)
(* not know it; and it is sent whenever a call goes to that provider.      *)
(* So does the code for each of its five providers                         *)
(* (multiProviderRouter.ts:288-349); the comment on preferredModel         *)
(* (:121-126) still says that a pin is only honoured for grok and qwen.    *)
PinsStayAtHome ==
    \A s \in Signals :
        LET d == Decide(policy, s, unavailable)
        IN  d.tier = "pinned" <=> /\ policy.pinned
                                  /\ d.to = policy.preferred
                                  /\ d.to \in Providers

(* Routers agree, outages stay local, and pinned models stay at home.      *)
RoutingInv ==
    RoutingTypeOK /\ AgreesWithSingleRouters /\ OutagesElsewhereChangeNothing /\ PinsStayAtHome
=============================================================================
