--------------------------- MODULE RuleEvaluation ---------------------------
(***************************************************************************)
(* One evaluation of one rule: RuleEngine.evaluate and its two helpers     *)
(* _debounced_state and _transition_actions (rules/engine.py).             *)
(*                                                                         *)
(* A timestamp t of the code is kept as its age now - t, counted in units  *)
(* of the clock and saturating at Horizon.  The code only ever compares an *)
(* age with a debounce or a cooldown, so an age beyond the largest of them *)
(* tells nothing apart, and behaviours of any length have finitely many    *)
(* states.  The clock never steps back: RuleEngine.tla says where it       *)
(* advances.                                                               *)
(***************************************************************************)
EXTENDS Integers

CONSTANT Horizon        \* ages saturate here: at least every debounce and cooldown

ASSUME HorizonAssumption == Horizon \in Nat

Targets  == {"true", "false"}
Stable   == Targets \cup {"fault"}
Pendings == {"true_pending", "false_pending"}
RuleStates == {"unknown"} \cup Stable \cup Pendings

\* What the observations say of a rule in one cycle: its condition group holds or
\* does not hold, or its monitor has no observations and the rule is faulted.
Verdicts == Stable

NoTime == -1                                   \* None, for a timestamp
Ages   == 0 .. Horizon
Times  == Ages \cup {NoTime}
Older(age) == IF age = NoTime \/ age = Horizon THEN age ELSE age + 1

\* RuleRuntimeState.  last_transition_at (always written with last_actions_at) and
\* last_observation_value are never read and are left out.
Runtimes == [state : RuleStates, pendingSince : Times, lastActionsAt : Times]
NewRuntime == [state |-> "unknown", pendingSince |-> NoTime, lastActionsAt |-> NoTime]
Aged(rt) == [rt EXCEPT !.pendingSince = Older(@), !.lastActionsAt = Older(@)]

\* What an evaluation reads of a RuleConfig.
TimingConfigs ==
    [enabled : BOOLEAN, debounce : [Targets -> Int], cooldown : Int]

\* Mutant: one waiting state for both targets, which the RuleState enumeration lacks.
PendingForEither(target) == "pending"

PendingFor(target) == IF target = "true" THEN "true_pending" ELSE "false_pending"

-----------------------------------------------------------------------------
(***************************************************************************)
(* _debounced_state                                                        *)
(***************************************************************************)

Reached(rt, target) == [rt EXCEPT !.state = target, !.pendingSince = NoTime]
Started(rt, target) == [rt EXCEPT !.state = PendingFor(target), !.pendingSince = 0]
\* Mutant: the wait ends one clock unit early.
ElapsedEarly(rule, rt, target) ==
    /\ rt.state = PendingFor(target)
    /\ rt.pendingSince # NoTime
    /\ rt.pendingSince >= rule.debounce[target] - 1

Elapsed(rule, rt, target) ==
    /\ rt.state = PendingFor(target)
    /\ rt.pendingSince # NoTime
    /\ rt.pendingSince >= rule.debounce[target]

\* Mutant: the start of the wait is set only when there is none, so a pending state
\* entered from the other one inherits its start.
DebouncedKeepsStart(rule, rt, target) ==
    IF rt.state = target \/ rule.debounce[target] <= 0 \/ Elapsed(rule, rt, target)
    THEN Reached(rt, target)
    ELSE IF rt.pendingSince = NoTime
    THEN Started(rt, target)
    ELSE [rt EXCEPT !.state = PendingFor(target)]

\* Mutant: every evaluation of a pending state starts the wait again.
DebouncedRestarts(rule, rt, target) ==
    IF rt.state = target \/ rule.debounce[target] <= 0
    THEN Reached(rt, target)
    ELSE Started(rt, target)

Debounced(rule, rt, target) ==
    IF rt.state = target \/ rule.debounce[target] <= 0 \/ Elapsed(rule, rt, target)
    THEN Reached(rt, target)
    ELSE IF rt.state # PendingFor(target) \/ rt.pendingSince = NoTime
    THEN Started(rt, target)
    ELSE rt

-----------------------------------------------------------------------------
(***************************************************************************)
(* _transition_actions.  `rt` already holds the new state; `fires` says    *)
(* whether the caller gets the action list of that state or an empty one.  *)
(* An empty list that fires starts the cooldown as any other does.         *)
(***************************************************************************)

\* Mutant: the cooldown ends one clock unit early.
CoolingDownLoose(rule, rt) ==
    /\ rule.cooldown > 1
    /\ rt.lastActionsAt # NoTime
    /\ rt.lastActionsAt < rule.cooldown - 1

CoolingDown(rule, rt) ==
    /\ rule.cooldown > 0
    /\ rt.lastActionsAt # NoTime
    /\ rt.lastActionsAt < rule.cooldown

Transition(rule, previous, rt) ==
    IF rt.state = previous \/ CoolingDown(rule, rt)
    THEN [runtime |-> rt, fires |-> FALSE]
    ELSE [runtime |-> [rt EXCEPT !.lastActionsAt = 0], fires |-> TRUE]

-----------------------------------------------------------------------------
(***************************************************************************)
(* evaluate                                                                *)
(***************************************************************************)

\* Mutant: an evaluation in a pending state counts as a stable one, so the actions are
\* already spent when the target is reached.
EvaluateFiresWhilePending(rule, rt, verdict) ==
    IF ~rule.enabled
    THEN [runtime |-> [rt EXCEPT !.state = "false"], fires |-> FALSE]
    ELSE IF verdict = "fault"
    THEN Transition(rule, rt.state,
                    [rt EXCEPT !.state = "fault", !.pendingSince = NoTime])
    ELSE LET fired == Transition(rule, rt.state, Debounced(rule, rt, verdict))
         IN  [fired EXCEPT !.fires = @ /\ fired.runtime.state = verdict]

Evaluate(rule, rt, verdict) ==
    IF ~rule.enabled
    THEN [runtime |-> [rt EXCEPT !.state = "false"], fires |-> FALSE]
    ELSE IF verdict = "fault"
    THEN Transition(rule, rt.state,
                    [rt EXCEPT !.state = "fault", !.pendingSince = NoTime])
    ELSE LET next == Debounced(rule, rt, verdict)
         IN  IF next.state = verdict
             THEN Transition(rule, rt.state, next)
             ELSE [runtime |-> next, fires |-> FALSE]
=============================================================================
