---------------------------- MODULE MCRuleEngine ----------------------------
(***************************************************************************)
(* One rule, since rules share no engine state, and four configurations:   *)
(* a long wait for TRUE without a cooldown, a wait for FALSE with the      *)
(* longest cooldown, the shortest wait and cooldown, and a disabled rule   *)
(* whose negative debounce the form accepts.                               *)
(*                                                                         *)
(* The forms of a rule's condition and of a monitor's zone have nothing to *)
(* do with the engine's timing, nor with each other: to keep the instance  *)
(* small they are filled in while the engine is quiet, and one of the two  *)
(* only, and the engine runs while neither has been.                       *)
(***************************************************************************)
EXTENDS RuleEngine, Conditions

Config(e, dTrue, dFalse, cd) ==
    [enabled |-> e,
     debounce |-> [t \in Targets |-> IF t = "true" THEN dTrue ELSE dFalse],
     cooldown |-> cd]

MCConfigs ==
    {Config(TRUE, 2, 1, 0), Config(TRUE, 0, 2, 2), Config(TRUE, 1, 0, 1),
     Config(FALSE, -1, 1, 1)}

MCInit == Init /\ FormInit /\ ZoneInit

\* Rules that have been FALSE for long, and a scene that asks for it: nothing is due.
Quiet ==
    \A r \in Rules :
        /\ verdict[r] = "false" /\ states[r].state = "false" /\ rules[r] = Config(TRUE, 1, 0, 1)
        /\ history[r] = [run |-> "false", runAge |-> Horizon, announced |-> "false",
                         sinceEmission |-> Horizon, parity |-> 1,
                         entry |-> [by |-> "evaluation", gap |-> NoTime, cooldown |-> 1]]

Running(Action) == FormInit /\ ZoneInit /\ Action /\ UNCHANGED <<forms, zones>>
FormStep ==
    /\ Quiet /\ ZoneInit /\ UNCHANGED <<vars, zones>>
    /\ \/ \E form \in Forms : SaveForm(form)
       \/ \E form \in Forms, cameras \in CameraLists : Upgrade(form, cameras)
       \/ \E c \in Classes : ChangeClass(c)
ZoneStep ==
    /\ Quiet /\ FormInit /\ UNCHANGED <<vars, forms>>
    /\ \E form \in ZoneForms : UpdateMonitor(form)

all == <<vars, forms, zones>>

\* The fairness of FairSpec.
MCSpec ==
    /\ MCInit /\ [][Running(Next) \/ FormStep \/ ZoneStep]_all
    /\ \A r \in Rules : WF_all(Running(EvaluateRule(r)))
    /\ WF_all(Running(Tick))
=============================================================================
