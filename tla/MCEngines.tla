------------------------------- MODULE MCEngines -------------------------------
(* Small instances of the components that act: the hardening bootstrapper, *)
(* the CUDA layer, the hot-path router, the proteome, the evolution tuner, *)
(* the planner, the control loop, the provider router, the alert           *)
(* dispatcher, the researcher-coder-reviewer loop, the reasoning engine,   *)
(* its mycelial chains, the efficacy program and the merging of what a     *)
(* hosting model answers.  They share no state but BaseAdapter's memory    *)
(* (alerts, roles), so a behaviour runs the one `focus` names and leaves   *)
(* the others as they start.  Where nothing tells them apart, they are     *)
(* given the same values.                                                  *)
EXTENDS HardeningStage, HardwareLayer, HotPath, Proteome, NovaEvolve, MctsPlanner, FastControl,
        ProviderRouting, AlertDispatch, RoleLoop, ReasoningEngine, MycelialNetwork,
        EfficacyProgram, OrganelleMerge, TLC

CONSTANTS c1, c2

VARIABLE focus

TwoKernels == <<"kron", "mean">>
TwoModes == <<"causal", "structural">>
TwoActions == <<"recall", "refine">>
Minus4 == -4
Order == <<"qwen", "grok", "claude", "deepseek", "kimi">>
ThreeLegs == <<"research", "code", "review">>
Like == [x \in Subjects |-> [y \in Subjects |->
    CASE x = y -> "high" [] {x, y} = {"research", "code"} -> "some" [] OTHER -> "none"]]

Strong(x) == [tensor |-> x, strong |-> TRUE]
SomeOffers == {<<Strong("x"), Strong("x")>>, <<Strong("x"), Strong("flat")>>,
               <<[tensor |-> "x", strong |-> FALSE], Strong("unsealable"), Strong("y")>>}

engineVars == <<focus, hardeningVars, hardwareVars, hotPathVars, proteomeVars, tunerVars,
                plannerVars, controlVars, routingVars, alertVars, roleVars, reasoningVars,
                mycelialVars, efficacyVars, organelleVars>>

(* Runs of the efficacy program from one sealed rule, with one thing wrong *)
(* at most.                                                                *)
Flawless == committed /\ sealedFirst /\ observed = "clean" /\ rule = CHOOSE r \in Rules : TRUE
AtMostOneFlaw ==
    /\ sealedRule = CHOOSE r \in Rules : TRUE
    /\ \/ committed /\ sealedFirst
       \/ committed # sealedFirst /\ observed = "clean"

EngineInit ==
    /\ focus \in {"hardening", "hardware", "hotpath", "proteome", "tuner", "planner", "control",
                  "routing", "alerts", "roles", "reasoning", "mycelium", "efficacy", "organelle"}
    /\ EfficacyInit /\ (IF focus = "efficacy" THEN AtMostOneFlaw ELSE Flawless)
    /\ MycelialInit /\ (focus # "mycelium" => ~inPlace /\ Len(nodes) = 1 /\ nodes[1].mode = 0)
    /\ focus # "mycelium" => validateAt = CHOOSE v \in Thresholds : TRUE
    /\ HardeningInit /\ HardwareInit /\ HotPathInit /\ ProteomeInit /\ TunerInit /\ PlannerInit
    /\ ControlInit /\ RoutingInit /\ AlertInit /\ RoleInit /\ ReasoningInit /\ OrganelleInit
    /\ focus # "hotpath" => hardwareConfig = CHOOSE c \in Config : TRUE
    /\ focus # "control" => setpoint = CHOOSE s \in Setpoints : TRUE
    /\ focus # "routing" => policy = CHOOSE p \in Policy : TRUE
    /\ focus # "alerts" => targets = {}
    /\ focus # "organelle" => wiring = CHOOSE w \in Wiring : TRUE

EngineNext ==
    /\ UNCHANGED focus
    /\ IF focus = "hardening" THEN HardeningNext ELSE UNCHANGED hardeningVars
    /\ IF focus = "hardware" THEN HardwareNext ELSE UNCHANGED hardwareVars
    /\ IF focus = "hotpath" THEN HotPathNext ELSE UNCHANGED hotPathVars
    /\ IF focus = "proteome" THEN ProteomeNext ELSE UNCHANGED proteomeVars
    /\ IF focus = "tuner" THEN TunerNext ELSE UNCHANGED tunerVars
    /\ IF focus = "planner" THEN PlannerNext ELSE UNCHANGED plannerVars
    /\ IF focus = "control" THEN ControlNext ELSE UNCHANGED controlVars
    /\ IF focus = "routing" THEN RoutingNext ELSE UNCHANGED routingVars
    /\ IF focus = "alerts" THEN AlertNext ELSE UNCHANGED <<targets, alerts, messages, issues>>
    /\ IF focus = "roles" THEN RoleNext ELSE UNCHANGED <<loops, prepared>>
    /\ focus \notin {"alerts", "roles"} => UNCHANGED memory
    /\ IF focus = "reasoning" THEN ReasoningNext ELSE UNCHANGED reasoningVars
    /\ IF focus = "mycelium" THEN MycelialNext ELSE UNCHANGED mycelialVars
    /\ IF focus = "efficacy" THEN EfficacyNext ELSE UNCHANGED efficacyVars
    /\ IF focus = "organelle" THEN OrganelleNext ELSE UNCHANGED organelleVars

EngineSpec == EngineInit /\ [][EngineNext]_engineVars

(* The two halves of the GPU path: a layer counts as loaded with every      *)
(* kernel and keeps the latest provenance, and one chain holds every answer *)
(* of the hot path, the uncomputed ones marked (HardwareLayer, HotPath).    *)
AccelerationInv == HardwareInv /\ HotPathInv

(* The two loops over BaseAdapter: alerts are answered in full, reports     *)
(* add up (AlertDispatch, RoleLoop).                                        *)
AdapterInv == AlertInv /\ RoleInv

(* Hypotheses are judged for a reason, by the engine and along the chains  *)
(* of its network (ReasoningEngine, MycelialNetwork).                      *)
ThoughtInv == ReasoningInv /\ MycelialInv

(* Who answers, and what is supported, follows the rule in force           *)
(* (ProviderRouting, EfficacyProgram).                                     *)
VerdictInv ==
    /\ focus = "routing" => RoutingInv
    /\ focus = "efficacy" => EfficacyInv

EngineSymmetry == Permutations({c1, c2})
=============================================================================
