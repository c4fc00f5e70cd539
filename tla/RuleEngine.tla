----------------------------- MODULE RuleEngine -----------------------------
(***************************************************************************)
(* The rule engine of the worker process (rules/engine.py) over time: the  *)
(* runtime state it keeps for every rule, the scene each rule's monitor    *)
(* sees, the edits the API process commits to the rules table between two  *)
(* evaluations, and restarts of the worker, which lose the engine.         *)
(*                                                                         *)
(* The worker evaluates every rule once a cycle with the time of that      *)
(* evaluation; rules share no engine state, so a cycle is a sequence of    *)
(* single evaluations with the clock advancing at will between them.       *)
(***************************************************************************)
EXTENDS RuleEvaluation

CONSTANTS Rules,        \* ids of the rules
          Configs       \* the configurations a rule may be saved with

ASSUME ConfigsAssumption ==
    /\ Configs \subseteq TimingConfigs
    /\ \A c \in Configs : \A t \in Targets : c.debounce[t] <= Horizon
    /\ \A c \in Configs : c.cooldown <= Horizon

VARIABLES
    rules,      \* the rules table: the configuration of each rule
    states,     \* RuleEngine._states
    verdict,    \* what the rule's monitor shows: the input of the next evaluation
    history     \* history variable: what has been observed and emitted, per rule

vars == <<rules, states, verdict, history>>

(***************************************************************************)
(* history[r] is bookkeeping of the specification, written by the actions  *)
(* and read only by the properties:                                        *)
(*   run, runAge    the verdict all evaluations have agreed on since runAge*)
(*                  ("none": disabled, faulted or never evaluated)         *)
(*   announced      the state whose action list was handed out last        *)
(*   sinceEmission  how long ago that was                                  *)
(*   parity         of the number of emissions                             *)
(*   entry          how the present state was entered: by an evaluation or *)
(*                  by disabling, with the age of the last emission and    *)
(*                  the cooldown in force at that moment                   *)
(***************************************************************************)
Entries == [by : {"evaluation", "disabling"}, gap : Times, cooldown : Int]
Histories ==
    [run : Targets \cup {"none"}, runAge : Ages, announced : {"unknown"} \cup Stable,
     sinceEmission : Times, parity : {0, 1}, entry : Entries]

NoHistory ==
    [run |-> "none", runAge |-> 0, announced |-> "unknown", sinceEmission |-> NoTime,
     parity |-> 0,
     entry |-> [by |-> "evaluation", gap |-> NoTime, cooldown |-> 0]]

RunAfter(rule, v) == IF rule.enabled /\ v \in Targets THEN v ELSE "none"

Recorded(h, rule, rt, result, v) ==
    [run |-> RunAfter(rule, v),
     runAge |-> IF RunAfter(rule, v) = h.run THEN h.runAge ELSE 0,
     announced |-> IF result.fires THEN result.runtime.state ELSE h.announced,
     sinceEmission |-> IF result.fires THEN 0 ELSE h.sinceEmission,
     parity |-> IF result.fires THEN 1 - h.parity ELSE h.parity,
     entry |-> IF result.runtime.state = rt.state THEN h.entry
               ELSE [by |-> IF rule.enabled THEN "evaluation" ELSE "disabling",
                     gap |-> h.sinceEmission,
                     cooldown |-> rule.cooldown]]

-----------------------------------------------------------------------------
Init ==
    /\ rules \in [Rules -> Configs]
    /\ states = [r \in Rules |-> NewRuntime]
    /\ verdict \in [Rules -> Verdicts]
    /\ history = [r \in Rules |-> NoHistory]

\* The worker's rule loop reaches rule r.
EvaluateRule(r) ==
    LET result == Evaluate(rules[r], states[r], verdict[r])
    IN  /\ states' = [states EXCEPT ![r] = result.runtime]
        /\ history' = [history EXCEPT
                ![r] = Recorded(@, rules[r], states[r], result, verdict[r])]
        /\ UNCHANGED <<rules, verdict>>

\* External: people move, a camera fails or recovers.
SceneChanges(r) ==
    /\ \E v \in Verdicts \ {verdict[r]} : verdict' = [verdict EXCEPT ![r] = v]
    /\ UNCHANGED <<rules, states, history>>

\* The API process saves the rule's form; the engine's entry for the rule stays.
SaveRule(r) ==
    /\ \E c \in Configs \ {rules[r]} : rules' = [rules EXCEPT ![r] = c]
    /\ UNCHANGED <<states, verdict, history>>

\* The worker process dies, of an exception in its loop or any other cause, and is
\* started again with a new engine.
Restart ==
    /\ states' = [r \in Rules |-> NewRuntime]
    /\ history' = [r \in Rules |-> [NoHistory EXCEPT !.parity = history[r].parity]]
    /\ UNCHANGED <<rules, verdict>>

\* One unit of time passes.
Tick ==
    /\ states' = [r \in Rules |-> Aged(states[r])]
    /\ history' = [r \in Rules |->
            [history[r] EXCEPT !.runAge = Older(@), !.sinceEmission = Older(@)]]
    /\ UNCHANGED <<rules, verdict>>

Next ==
    \/ \E r \in Rules : EvaluateRule(r) \/ SceneChanges(r) \/ SaveRule(r)
    \/ Restart
    \/ Tick

\* The worker's loop runs forever and reaches every rule in every cycle, and time
\* passes.  The scene, the operator and crashes are under no obligation.
Fairness ==
    /\ \A r \in Rules : WF_vars(EvaluateRule(r))
    /\ WF_vars(Tick)

Spec == Init /\ [][Next]_vars
FairSpec == Spec /\ Fairness

-----------------------------------------------------------------------------
\* The state, the configurations and the bookkeeping stay in their sets: every state
\* the engine reaches is a RuleState, every timestamp an age or none.
TypeOK ==
    /\ rules \in [Rules -> Configs]
    /\ states \in [Rules -> Runtimes]
    /\ verdict \in [Rules -> Verdicts]
    /\ history \in [Rules -> Histories]

\* A rule that waits in TRUE_PENDING or FALSE_PENDING has a start time, and every
\* evaluation since that time asked for the same target: a wait never outlives the
\* observation that started it, whatever was edited, disabled or faulted meanwhile.
PendingIsWitnessed ==
    \A r \in Rules : \A t \in Targets :
        states[r].state = PendingFor(t) =>
            /\ states[r].pendingSince # NoTime
            /\ history[r].run = t
            /\ states[r].pendingSince <= history[r].runAge

\* An enabled rule becomes TRUE (or FALSE) only when the evaluations have asked for that
\* target without interruption for at least the debounce now configured, or the debounce
\* is off.  _debounced_state, under every mix of edits, faults and disabling.
DebounceHonoured ==
    [][\A r \in Rules : \A t \in Targets :
        states'[r].state = t /\ states[r].state # t /\ rules[r].enabled =>
            \/ rules[r].debounce[t] <= 0
            \/ history[r].run = t /\ history[r].runAge >= rules[r].debounce[t]]_vars

\* While the engine lives, two emissions of a rule's actions are at least the configured
\* cooldown apart, whatever states they announce.  _transition_actions.
CooldownSpacing ==
    [][\A r \in Rules :
        history'[r].parity # history[r].parity =>
            \/ rules[r].cooldown <= 0
            \/ history[r].sinceEmission = NoTime
            \/ history[r].sinceEmission >= rules[r].cooldown]_vars

\* A rule may rest in TRUE, FALSE or FAULT with its actions for that state never handed
\* out, and this is exactly when: it was disabled into FALSE, or it entered the state
\* while the cooldown of an earlier emission ran.  Nothing else loses actions.
UnannouncedHasACause ==
    \A r \in Rules :
        states[r].state \in Stable /\ states[r].state # history[r].announced =>
            \/ history[r].entry.by = "disabling"
            \/ /\ history[r].entry.gap # NoTime
               /\ history[r].entry.gap < history[r].entry.cooldown

\* If the scene of a rule stops changing, the rule stays enabled and the worker stops
\* crashing, the rule settles in the state the scene calls for: no sequence of flicker,
\* edits and faults before that leaves it stuck in a pending state.
Settles ==
    \A r \in Rules : \A v \in Verdicts :
        (<>[][~Restart]_vars /\ <>[](verdict[r] = v /\ rules[r].enabled))
            => <>[](states[r].state = v)
=============================================================================
