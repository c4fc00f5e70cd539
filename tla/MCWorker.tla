------------------------------ MODULE MCWorker ------------------------------
EXTENDS Worker

(***************************************************************************)
(* "door" opens and closes relay-1 and may be disabled; "lamp" is either a *)
(* rule of lower priority on relay-2 (and on a channel that no row of      *)
(* relay_channels has), or a rival of the same priority on relay-1.        *)
(***************************************************************************)
Form(e, cd, prio, onTrue, onFalse, policy) ==
    [enabled |-> e, debounce |-> [t \in Targets |-> 0], cooldown |-> cd, priority |-> prio,
     actions |-> FormActions(onTrue, onFalse, policy)]

Set(ch, s) == <<[channel |-> ch, state |-> s]>>

Door    == [Form(TRUE, 1, 200, Set("relay-1", "on"), Set("relay-1", "off"), "fail_off") EXCEPT !.debounce["true"] = 1]
DoorOff == [Door EXCEPT !.enabled = FALSE]
Lamp    == Form(TRUE, 0, 100, Set("relay-2", "on"), Set("relay-9", "off"), "global")
Rival   == Form(TRUE, 0, 200, Set("relay-1", "off"), <<>>, "hold_state")

MCForms == [r \in Rules |-> IF r = "door" THEN {Door, DoorOff} ELSE {Lamp, Rival}]
MCQuiet == [r \in Rules |-> IF r = "door" THEN {Door} ELSE {Lamp, Rival}]

\* Two rules of different priorities on one relay.
Low == [Rival EXCEPT !.priority = 100]
PriorityForms == [r \in Rules |-> IF r = "door" THEN {[Door EXCEPT !.cooldown = 0]} ELSE {Low}]
=============================================================================
