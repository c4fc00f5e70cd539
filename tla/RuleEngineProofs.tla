-------------------------- MODULE RuleEngineProofs --------------------------
(***************************************************************************)
(* What RuleEngine guarantees for every set of rules, every set of         *)
(* configurations and every horizon; and, as its run has the zones of      *)
(* ObjectCount and the forms of Conditions too, what a zone counts on a    *)
(* picture of every size and what a saved rule answers to every count.     *)
(***************************************************************************)
EXTENDS RuleEngine, RuleEvaluationProofs, Conditions, FiniteSetTheorems

-----------------------------------------------------------------------------
(* Type correctness. *)

\* A saved configuration is a timing configuration.
LEMMA SavedConfig ==
    ASSUME TypeOK, NEW r \in Rules
    PROVE  /\ rules[r] \in TimingConfigs
           /\ states[r] \in Runtimes
           /\ verdict[r] \in Verdicts
           /\ history[r] \in Histories
BY ConfigsAssumption DEF TypeOK

\* The bookkeeping of an evaluation stays in its type.
LEMMA RecordedType ==
    ASSUME NEW h \in Histories, NEW rule \in TimingConfigs, NEW rt \in Runtimes,
           NEW v \in Verdicts
    PROVE  Recorded(h, rule, rt, Evaluate(rule, rt, v), v) \in Histories
<1> DEFINE result == Evaluate(rule, rt, v)
<1>1. /\ result \in [runtime : Runtimes, fires : BOOLEAN]
      /\ result.fires => result.runtime.state \in Stable
  BY EvaluateFacts
<1> HIDE DEF result
<1>2. RunAfter(rule, v) \in Targets \cup {"none"}
  BY DEF RunAfter
<1>3. {0} \subseteq Ages /\ {0} \subseteq Times
  BY HorizonAssumption DEF Ages, Times
<1>4. [by |-> IF rule.enabled THEN "evaluation" ELSE "disabling",
       gap |-> h.sinceEmission, cooldown |-> rule.cooldown] \in Entries
  BY DEF Entries, Histories, TimingConfigs
<1>5. 1 - h.parity \in {0, 1}
  BY DEF Histories
<1>6. Recorded(h, rule, rt, result, v) \in Histories
  BY <1>1, <1>2, <1>3, <1>4, <1>5 DEF Recorded, Histories
<1>7. QED
  BY <1>6 DEF result

LEMMA InitType == Init => TypeOK
<1> SUFFICES ASSUME Init PROVE TypeOK
  OBVIOUS
<1>1. {0, NoTime} \subseteq Times /\ 0 \in Ages
  BY HorizonAssumption DEF Times, Ages
<1>2. NewRuntime \in Runtimes
  BY <1>1 DEF NewRuntime, Runtimes, RuleStates
<1>3. NoHistory \in Histories
  BY <1>1 DEF NoHistory, Histories, Entries
<1>4. QED
  BY <1>2, <1>3 DEF Init, TypeOK

LEMMA StepType == TypeOK /\ [Next]_vars => TypeOK'
<1> SUFFICES ASSUME TypeOK, [Next]_vars PROVE TypeOK'
  OBVIOUS
<1>1. ASSUME NEW r \in Rules, EvaluateRule(r) PROVE TypeOK'
  <2> DEFINE result == Evaluate(rules[r], states[r], verdict[r])
  <2>1. result.runtime \in Runtimes
    BY SavedConfig, EvaluateFacts
  <2>2. Recorded(history[r], rules[r], states[r], result, verdict[r]) \in Histories
    BY SavedConfig, RecordedType
  <2>3. QED
    BY <1>1, <2>1, <2>2 DEF TypeOK, EvaluateRule
<1>2. ASSUME NEW r \in Rules, SceneChanges(r) PROVE TypeOK'
  BY <1>2 DEF TypeOK, SceneChanges
<1>3. ASSUME NEW r \in Rules, SaveRule(r) PROVE TypeOK'
  BY <1>3 DEF TypeOK, SaveRule
<1>4. CASE Restart
  <2>1. \A r \in Rules : [NoHistory EXCEPT !.parity = history[r].parity] \in Histories
    BY HorizonAssumption DEF TypeOK, NoHistory, Histories, Entries, Times, Ages
  <2>2. NewRuntime \in Runtimes
    BY DEF NewRuntime, Runtimes, RuleStates, Times
  <2>3. QED
    BY <1>4, <2>1, <2>2 DEF TypeOK, Restart
<1>5. CASE Tick
  <2>1. \A r \in Rules : Aged(states[r]) \in Runtimes
    BY OlderFacts DEF TypeOK, Aged, Runtimes
  <2>2. \A r \in Rules :
           [history[r] EXCEPT !.runAge = Older(@), !.sinceEmission = Older(@)]
             \in Histories
    BY OlderFacts DEF TypeOK, Histories
  <2>3. QED
    BY <1>5, <2>1, <2>2 DEF TypeOK, Tick
<1>6. CASE UNCHANGED vars
  BY <1>6 DEF TypeOK, vars
<1>7. QED
  BY <1>1, <1>2, <1>3, <1>4, <1>5, <1>6 DEF Next

\* Every reachable state of the engine is well formed, for every set of rules,
\* configurations and horizon.
THEOREM TypeCorrect == Spec => []TypeOK
<1>1. QED
  BY InitType, StepType, PTL DEF Spec

-----------------------------------------------------------------------------
(***************************************************************************)
(* The inductive invariant.  The engine's own last_actions_at is the age   *)
(* of the last emission as the history counted it, without reading the     *)
(* engine: this is what the properties about emissions rest on.            *)
(***************************************************************************)
EmissionClock ==
    \A r \in Rules : states[r].lastActionsAt = history[r].sinceEmission

IInv == TypeOK /\ PendingIsWitnessed /\ EmissionClock /\ UnannouncedHasACause

LEMMA InitInv == Init => IInv
BY InitType
   DEF Init, IInv, PendingIsWitnessed, EmissionClock, UnannouncedHasACause,
       NewRuntime, NoHistory, PendingFor, Stable, Targets

\* An evaluation keeps every wait witnessed.
LEMMA WitnessedByEvaluation ==
    ASSUME IInv, NEW r \in Rules, EvaluateRule(r)
    PROVE  PendingIsWitnessed'
<1> DEFINE result == Evaluate(rules[r], states[r], verdict[r])
<1>1. /\ states'[r] = result.runtime
      /\ history'[r] = Recorded(history[r], rules[r], states[r], result, verdict[r])
      /\ \A q \in Rules \ {r} : states'[q] = states[q] /\ history'[q] = history[q]
  BY DEF IInv, TypeOK, EvaluateRule
<1>2. SUFFICES ASSUME NEW t \in Targets, result.runtime.state = PendingFor(t)
               PROVE  /\ result.runtime.pendingSince # NoTime
                      /\ history'[r].run = t
                      /\ result.runtime.pendingSince <= history'[r].runAge
  BY <1>1 DEF IInv, PendingIsWitnessed
<1>3. /\ rules[r] \in TimingConfigs /\ states[r] \in Runtimes
      /\ verdict[r] \in Verdicts /\ history[r] \in Histories
  BY SavedConfig DEF IInv
<1>4. rules[r].enabled /\ verdict[r] = t
  BY <1>2, <1>3, EvaluateFacts DEF Verdicts, Stable, Targets, PendingFor, TimingConfigs
<1>5. history'[r].run = t
  BY <1>1, <1>4 DEF Recorded, RunAfter
<1>6. result.runtime = Debounced(rules[r], states[r], t)
  <2>1. /\ Debounced(rules[r], states[r], t) \in Runtimes
        /\ states[r].state \in RuleStates
    BY <1>3, DebouncedFacts DEF Runtimes
  <2>2. PendingFor(t) # t /\ verdict[r] # "fault"
    BY <1>4 DEF PendingFor, Targets
  <2>3. result = IF Debounced(rules[r], states[r], t).state = t
                 THEN Transition(rules[r], states[r].state, Debounced(rules[r], states[r], t))
                 ELSE [runtime |-> Debounced(rules[r], states[r], t), fires |-> FALSE]
    BY <1>4, <2>2 DEF Evaluate
  <2> HIDE DEF result
  <2>4. QED
    BY <1>2, <1>3, <2>1, <2>2, <2>3, TransitionFacts
<1>7. CASE states[r].state = PendingFor(t)
  <2>1. /\ states[r].pendingSince # NoTime
        /\ history[r].run = t
        /\ states[r].pendingSince <= history[r].runAge
    BY <1>7 DEF IInv, PendingIsWitnessed
  <2>2. history'[r].runAge = history[r].runAge
    BY <1>1, <1>4, <2>1 DEF Recorded, RunAfter
  <2>3. result.runtime = states[r]
    BY <1>2, <1>6, <1>7, <2>1, <1>3
       DEF Debounced, Reached, PendingFor, Targets, Runtimes
  <2>4. QED
    BY <1>5, <2>1, <2>2, <2>3
<1>8. CASE states[r].state # PendingFor(t)
  <2>1. result.runtime = Started(states[r], t)
    BY <1>2, <1>3, <1>6, <1>8
       DEF Debounced, Reached, Elapsed, PendingFor, Targets, Runtimes
  <2>2. result.runtime.pendingSince = 0
    BY <1>3, <2>1 DEF Started, Runtimes
  <2>3. history'[r].runAge \in Ages
    BY <1>1, <1>3, HorizonAssumption DEF Recorded, Histories, Ages
  <2>4. QED
    BY <1>5, <2>2, <2>3, HorizonAssumption DEF Ages, NoTime
<1>9. QED
  BY <1>7, <1>8

\* An evaluation keeps the engine's clock and the history's together, and leaves a rule
\* unannounced only for one of the two causes.
LEMMA AnnouncedByEvaluation ==
    ASSUME IInv, NEW r \in Rules, EvaluateRule(r)
    PROVE  EmissionClock' /\ UnannouncedHasACause'
<1> DEFINE result == Evaluate(rules[r], states[r], verdict[r])
<1>1. /\ states'[r] = result.runtime
      /\ history'[r] = Recorded(history[r], rules[r], states[r], result, verdict[r])
      /\ \A q \in Rules \ {r} : states'[q] = states[q] /\ history'[q] = history[q]
  BY DEF IInv, TypeOK, EvaluateRule
<1>2. /\ rules[r] \in TimingConfigs /\ states[r] \in Runtimes
      /\ verdict[r] \in Verdicts /\ history[r] \in Histories
  BY SavedConfig DEF IInv
<1>3. states[r].lastActionsAt = history[r].sinceEmission
  BY DEF IInv, EmissionClock
<1>4. /\ result.fires => result.runtime.lastActionsAt = 0
      /\ ~result.fires => result.runtime.lastActionsAt = states[r].lastActionsAt
      /\ ~result.fires /\ rules[r].enabled /\ result.runtime.state \in Stable =>
            result.runtime.state = states[r].state \/ CoolingDown(rules[r], states[r])
  BY <1>2, EvaluateFacts
<1> HIDE DEF result
<1>5. EmissionClock'
  <2>1. history'[r].sinceEmission = IF result.fires THEN 0 ELSE history[r].sinceEmission
    BY <1>1 DEF Recorded
  <2>2. QED
    BY <1>1, <1>3, <1>4, <2>1 DEF IInv, EmissionClock
<1>6. UnannouncedHasACause'
  <2>1. SUFFICES ASSUME result.runtime.state \in Stable,
                        result.runtime.state # history'[r].announced
                 PROVE  \/ history'[r].entry.by = "disabling"
                        \/ /\ history'[r].entry.gap # NoTime
                           /\ history'[r].entry.gap < history'[r].entry.cooldown
    BY <1>1 DEF IInv, UnannouncedHasACause
  <2>2. ~result.fires /\ history'[r].announced = history[r].announced
    BY <1>1, <2>1 DEF Recorded
  <2>3. CASE result.runtime.state = states[r].state
    BY <1>1, <2>1, <2>2, <2>3 DEF Recorded, IInv, UnannouncedHasACause
  <2>4. CASE result.runtime.state # states[r].state
    <3>1. history'[r].entry =
            [by |-> IF rules[r].enabled THEN "evaluation" ELSE "disabling",
             gap |-> history[r].sinceEmission, cooldown |-> rules[r].cooldown]
      BY <1>1, <2>4 DEF Recorded
    <3>2. rules[r].enabled => CoolingDown(rules[r], states[r])
      BY <1>4, <2>1, <2>2, <2>4
    <3>3. QED
      BY <1>3, <3>1, <3>2 DEF CoolingDown
  <2>5. QED
    BY <2>3, <2>4
<1>7. QED
  BY <1>5, <1>6

LEMMA StepInv == IInv /\ [Next]_vars => IInv'
<1> SUFFICES ASSUME IInv, [Next]_vars PROVE IInv'
  OBVIOUS
<1>1. TypeOK /\ TypeOK'
  BY StepType DEF IInv
<1>2. ASSUME NEW r \in Rules, EvaluateRule(r) PROVE IInv'
  BY <1>1, <1>2, WitnessedByEvaluation, AnnouncedByEvaluation DEF IInv
<1>3. ASSUME NEW r \in Rules, SceneChanges(r) PROVE IInv'
  BY <1>1, <1>3
     DEF IInv, SceneChanges, PendingIsWitnessed, EmissionClock, UnannouncedHasACause
<1>4. ASSUME NEW r \in Rules, SaveRule(r) PROVE IInv'
  BY <1>1, <1>4
     DEF IInv, SaveRule, PendingIsWitnessed, EmissionClock, UnannouncedHasACause
<1>5. CASE Restart
  <2>1. \A r \in Rules : /\ states'[r] = NewRuntime
                         /\ history'[r].sinceEmission = NoTime
    BY <1>5 DEF Restart, NoHistory
  <2>2. QED
    BY <1>1, <2>1
       DEF IInv, PendingIsWitnessed, EmissionClock, UnannouncedHasACause, NewRuntime,
           PendingFor, Stable, Targets
<1>6. CASE Tick
  <2>1. \A r \in Rules : states[r] \in Runtimes /\ history[r] \in Histories
    BY <1>1 DEF TypeOK
  <2>2. \A r \in Rules :
          /\ states'[r] = [states[r] EXCEPT !.pendingSince = Older(@),
                                            !.lastActionsAt = Older(@)]
          /\ history'[r] = [history[r] EXCEPT !.runAge = Older(@),
                                              !.sinceEmission = Older(@)]
    BY <1>6 DEF Tick, Aged
  <2>3. \A r \in Rules :
          /\ states'[r].state = states[r].state
          /\ states'[r].pendingSince = Older(states[r].pendingSince)
          /\ states'[r].lastActionsAt = Older(states[r].lastActionsAt)
          /\ history'[r].run = history[r].run
          /\ history'[r].runAge = Older(history[r].runAge)
          /\ history'[r].sinceEmission = Older(history[r].sinceEmission)
          /\ history'[r].announced = history[r].announced
          /\ history'[r].entry = history[r].entry
    BY <2>1, <2>2 DEF Runtimes, Histories
  <2>4. PendingIsWitnessed'
    <3>1. \A r \in Rules : /\ states[r].pendingSince # NoTime =>
                                 states[r].pendingSince \in Ages
                           /\ states[r].pendingSince \in Times
                           /\ history[r].runAge \in Ages
      BY <2>1 DEF Runtimes, Histories, Times
    <3>2. QED
      BY <2>3, <3>1, OlderFacts DEF IInv, PendingIsWitnessed
  <2>5. EmissionClock' /\ UnannouncedHasACause'
    BY <2>3 DEF IInv, EmissionClock, UnannouncedHasACause
  <2>6. QED
    BY <1>1, <2>4, <2>5 DEF IInv
<1>7. CASE UNCHANGED vars
  BY <1>1, <1>7
     DEF IInv, vars, PendingIsWitnessed, EmissionClock, UnannouncedHasACause
<1>8. QED
  BY <1>2, <1>3, <1>4, <1>5, <1>6, <1>7 DEF Next

LEMMA InvHolds == Spec => []IInv
BY InitInv, StepInv, PTL DEF Spec

-----------------------------------------------------------------------------
(* The safety properties of the runs. *)

\* Waits are witnessed in every reachable state.
THEOREM WaitsAreWitnessed == Spec => []PendingIsWitnessed
BY InvHolds, PTL DEF IInv

\* Actions are withheld for the two named causes only, in every reachable state.
THEOREM UnannouncedOnlyForACause == Spec => []UnannouncedHasACause
BY InvHolds, PTL DEF IInv

\* What a step does to the state and the emissions of a rule it does not evaluate.
LEMMA OtherSteps ==
    ASSUME TypeOK, [Next]_vars, NEW r \in Rules, ~EvaluateRule(r)
    PROVE  /\ states'[r].state \in {states[r].state, "unknown"}
           /\ history'[r].parity = history[r].parity
<1>1. states[r] \in Runtimes /\ history[r] \in Histories
  BY DEF TypeOK
<1>2. ASSUME NEW q \in Rules, EvaluateRule(q)
      PROVE  states'[r] = states[r] /\ history'[r] = history[r]
  BY <1>2 DEF EvaluateRule, TypeOK
<1>3. CASE Restart
  BY <1>3 DEF Restart, NewRuntime, NoHistory
<1>4. CASE Tick
  BY <1>1, <1>4 DEF Tick, Aged, Runtimes, Histories
<1>5. QED
  BY <1>2, <1>3, <1>4 DEF Next, SceneChanges, SaveRule, vars

\* The debounce is honoured by every step, whatever the configurations.
THEOREM DebounceIsHonoured == Spec => DebounceHonoured
<1>1. ASSUME IInv, [Next]_vars, NEW r \in Rules, NEW t \in Targets,
             states'[r].state = t, states[r].state # t, rules[r].enabled
      PROVE  \/ rules[r].debounce[t] <= 0
             \/ history[r].run = t /\ history[r].runAge >= rules[r].debounce[t]
  <2> DEFINE next == Debounced(rules[r], states[r], t)
             result == Evaluate(rules[r], states[r], verdict[r])
  <2>1. EvaluateRule(r)
    BY <1>1, OtherSteps DEF IInv, Targets
  <2>2. /\ rules[r] \in TimingConfigs /\ states[r] \in Runtimes
        /\ verdict[r] \in Verdicts /\ history[r] \in Histories
    BY <1>1, SavedConfig DEF IInv
  <2>3. states'[r] = result.runtime
    BY <1>1, <2>1 DEF EvaluateRule, IInv, TypeOK
  <2>4. verdict[r] = t /\ t # "fault"
    BY <1>1, <2>2, <2>3, EvaluateFacts
       DEF Verdicts, Stable, Targets, PendingFor, TimingConfigs
  <2>5. next.state = t
    <3>1. next \in Runtimes /\ states[r].state \in RuleStates
      BY <2>2, DebouncedFacts DEF Runtimes
    <3>2. result = IF next.state = t THEN Transition(rules[r], states[r].state, next)
                   ELSE [runtime |-> next, fires |-> FALSE]
      BY <1>1, <2>4 DEF Evaluate
    <3> HIDE DEF next, result
    <3>3. QED
      BY <1>1, <2>2, <2>3, <3>1, <3>2, TransitionFacts
  <2>6. rules[r].debounce[t] <= 0 \/ Elapsed(rules[r], states[r], t)
    BY <1>1, <2>2, <2>5 DEF Debounced, Started, Runtimes, PendingFor, Targets
  <2>7. CASE Elapsed(rules[r], states[r], t)
    <3>1. /\ history[r].run = t
          /\ states[r].pendingSince <= history[r].runAge
          /\ states[r].pendingSince >= rules[r].debounce[t]
      BY <1>1, <2>7 DEF IInv, PendingIsWitnessed, Elapsed
    <3>2. /\ states[r].pendingSince \in Int /\ history[r].runAge \in Int
          /\ rules[r].debounce[t] \in Int
      BY <2>2, HorizonAssumption
         DEF Runtimes, Histories, Times, Ages, NoTime, TimingConfigs
    <3>3. QED
      BY <3>1, <3>2
  <2>8. QED
    BY <2>6, <2>7
<1>2. IInv /\ [Next]_vars =>
        [\A r \in Rules : \A t \in Targets :
            states'[r].state = t /\ states[r].state # t /\ rules[r].enabled =>
                \/ rules[r].debounce[t] <= 0
                \/ history[r].run = t /\ history[r].runAge >= rules[r].debounce[t]]_vars
  BY <1>1
<1>3. QED
  BY <1>2, InvHolds, PTL DEF Spec, DebounceHonoured

\* Emissions keep the cooldown's distance in every behaviour.
THEOREM CooldownIsSpaced == Spec => CooldownSpacing
<1>1. ASSUME IInv, [Next]_vars, NEW r \in Rules,
             history'[r].parity # history[r].parity
      PROVE  \/ rules[r].cooldown <= 0
             \/ history[r].sinceEmission = NoTime
             \/ history[r].sinceEmission >= rules[r].cooldown
  <2> DEFINE result == Evaluate(rules[r], states[r], verdict[r])
  <2>1. EvaluateRule(r)
    BY <1>1, OtherSteps DEF IInv
  <2>2. /\ rules[r] \in TimingConfigs /\ states[r] \in Runtimes
        /\ verdict[r] \in Verdicts /\ history[r] \in Histories
    BY <1>1, SavedConfig DEF IInv
  <2>3. result.fires
    BY <1>1, <2>1 DEF EvaluateRule, Recorded, IInv, TypeOK
  <2>4. ~CoolingDown(rules[r], states[r])
    BY <2>2, <2>3, EvaluateFacts
  <2>5. states[r].lastActionsAt = history[r].sinceEmission
    BY <1>1 DEF IInv, EmissionClock
  <2>6. history[r].sinceEmission \in Int /\ rules[r].cooldown \in Int
    BY <2>2, HorizonAssumption DEF Histories, Times, Ages, NoTime, TimingConfigs
  <2>7. QED
    BY <2>4, <2>5, <2>6 DEF CoolingDown
<1>2. IInv /\ [Next]_vars =>
        [\A r \in Rules :
            history'[r].parity # history[r].parity =>
                \/ rules[r].cooldown <= 0
                \/ history[r].sinceEmission = NoTime
                \/ history[r].sinceEmission >= rules[r].cooldown]_vars
  BY <1>1
<1>3. QED
  BY <1>2, InvHolds, PTL DEF Spec, CooldownSpacing

-----------------------------------------------------------------------------
(***************************************************************************)
(* Zones: from the rectangle as drawn, through both normalisations.        *)
(***************************************************************************)

\* What both normalisations leave of a rectangle that bounds something: its part in the
\* picture.
Bounded(z) ==
    [x |-> Atleast(z.x, 0), y |-> Atleast(z.y, 0),
     width  |-> Atmost(z.width, Side - Atleast(z.x, 0)),
     height |-> Atmost(z.height, Side - Atleast(z.y, 0))]

\* The worker reads such a rectangle as the API has stored it, and no zone otherwise.
LEMMA ReadZone ==
    ASSUME NEW form \in ZoneForms
    PROVE  MonitorZone(StoredZone(form)) = IF Unbound(form) THEN {} ELSE {Bounded(form.area)}
<1> DEFINE z == form.area
           n == NormalizedZone(z)
           fits(s) == s.width > 0 /\ s.height > 0
           Read(s) == [x |-> Clamped(s.x), y |-> Clamped(s.y),
                       width  |-> Atmost(s.width, Side - Clamped(s.x)),
                       height |-> Atmost(s.height, Side - Clamped(s.y))]
<1>1. /\ z.x \in Int /\ z.y \in Int /\ z.width \in Int /\ z.height \in Int
      /\ Side \in Nat /\ Side > 0 /\ form.enabled \in BOOLEAN
  BY SideAssumption DEF ZoneForms, Rectangles
<1>2. /\ n.x = Clamped(z.x) /\ n.y = Clamped(z.y)
      /\ n.width = Atmost(Atleast(z.width, 0), Side - Clamped(z.x))
      /\ n.height = Atmost(Atleast(z.height, 0), Side - Clamped(z.y))
  BY DEF NormalizedZone
<1>3. StoredZone(form) = IF form.enabled /\ fits(z) THEN {n} ELSE {}
  BY DEF StoredZone
<1>4. \A s : MonitorZone({s}) = IF fits(s) THEN {Read(s)} ELSE {}
  BY DEF MonitorZone
<1>5. MonitorZone({}) = {}
  BY DEF MonitorZone
<1> HIDE DEF n
<1>6. form.enabled /\ fits(z) /\ fits(n) <=> ~Unbound(form)
  BY <1>1, <1>2 DEF Unbound, Clamped, Atmost, Atleast
<1>7. ASSUME ~Unbound(form)
      PROVE  Read(n) = Bounded(z)
  <2>1. /\ Clamped(n.x) = Atleast(z.x, 0) /\ Clamped(n.y) = Atleast(z.y, 0)
        /\ Atmost(n.width, Side - Clamped(n.x)) = Atmost(z.width, Side - Atleast(z.x, 0))
        /\ Atmost(n.height, Side - Clamped(n.y)) = Atmost(z.height, Side - Atleast(z.y, 0))
    BY <1>1, <1>2, <1>7 DEF Unbound, Clamped, Atmost, Atleast
  <2>2. QED
    BY <2>1 DEF Bounded
<1>8. QED
  BY <1>3, <1>4, <1>5, <1>6, <1>7

\* The far edges of the rectangle as drawn and of its part in the picture bound the same
\* boxes.
LEMMA BoundedFacts ==
    ASSUME NEW form \in ZoneForms, NEW box \in Boxes, ~Unbound(form)
    PROVE  LET s == Bounded(form.area)
           IN  /\ CentreX(box) \in 2 * s.x .. 2 * (s.x + s.width)
               /\ CentreY(box) \in 2 * s.y .. 2 * (s.y + s.height)
               <=> Within(box, MovedIn(form.area))
<1> DEFINE z == form.area
<1>1. /\ z.x \in Int /\ z.y \in Int /\ z.width \in Int /\ z.height \in Int
      /\ Side \in Nat /\ Side > 0
  BY SideAssumption DEF ZoneForms, Rectangles
<1>2. /\ box.x \in Nat /\ box.y \in Nat /\ box.width \in Nat /\ box.height \in Nat
      /\ box.x + box.width <= Side /\ box.y + box.height <= Side
  BY <1>1 DEF Boxes
<1>3. /\ MovedIn(z).x = Atleast(z.x, 0) /\ MovedIn(z).y = Atleast(z.y, 0)
      /\ MovedIn(z).width = z.width /\ MovedIn(z).height = z.height
  BY DEF MovedIn, ZoneForms, Rectangles
<1>4. /\ Bounded(z).x = Atleast(z.x, 0) /\ Bounded(z).y = Atleast(z.y, 0)
      /\ Bounded(z).width = Atmost(z.width, Side - Atleast(z.x, 0))
      /\ Bounded(z).height = Atmost(z.height, Side - Atleast(z.y, 0))
  BY DEF Bounded
<1>5. ~Unbound(form) => z.width > 0 /\ z.height > 0 /\ z.x < Side /\ z.y < Side
  BY <1>1 DEF Unbound
<1> HIDE DEF z
<1>6. QED
  BY <1>5, <1>1, <1>2, <1>3, <1>4 DEF Within, CentreX, CentreY, Atmost, Atleast, z

\* A box is counted when its centre is in the zone that the worker reads, if it reads one.
LEMMA CountsFacts ==
    ASSUME NEW box
    PROVE  Counts(box) <=>
           \A s \in MonitorZone(zone) :
                /\ CentreX(box) \in 2 * s.x .. 2 * (s.x + s.width)
                /\ CentreY(box) \in 2 * s.y .. 2 * (s.y + s.height)
<1> DEFINE config == [class |-> "person", threshold |-> 1, zone |-> zone]
           detection == [class |-> "person", confidence |-> 1, bbox |-> box]
<1>1. Counts(box) <=> DetectionInZone(detection, MonitorZone(zone))
  BY DEF Counts, Matches
<1>2. QED
  BY <1>1 DEF DetectionInZone

ZoneInv ==
    \/ drawn = {} /\ zone = {}
    \/ \E form \in ZoneForms : drawn = {form} /\ zone = StoredZone(form)

\* On a picture of any size and for every rectangle the form can send, the zone counts
\* what was drawn, with the exceptions that ZoneCountsWhatWasDrawn names.
THEOREM ZoneTheorem == ZoneSpec => []ZoneCountsWhatWasDrawn
<1>1. ZoneInit => ZoneInv
  BY DEF ZoneInit, ZoneInv
<1>2. ZoneInv /\ [\E form \in ZoneForms : UpdateMonitor(form)]_zones => ZoneInv'
  BY DEF ZoneInv, UpdateMonitor, zones
<1>3. ZoneInv => ZoneCountsWhatWasDrawn
  <2> SUFFICES ASSUME NEW form \in ZoneForms, zone = StoredZone(form), NEW box \in Boxes
               PROVE  Counts(box) <=> Unbound(form) \/ Within(box, MovedIn(form.area))
    BY DEF ZoneInv, ZoneCountsWhatWasDrawn
  <2>1. CASE Unbound(form)
    BY <2>1, CountsFacts, ReadZone
  <2>2. CASE ~Unbound(form)
    BY <2>2, CountsFacts, ReadZone, BoundedFacts
  <2>3. QED
    BY <2>1, <2>2
<1>4. QED
  BY <1>1, <1>2, <1>3, PTL DEF ZoneSpec

-----------------------------------------------------------------------------
(***************************************************************************)
(* Conditions: from the form to the verdict on a count.                    *)
(***************************************************************************)

\* What the engine makes of a form's condition, and of a count of n on its metric.
ConditionOf(form) ==
    [metric |-> form.metric, operator |-> form.operator,
     value |-> ParseConditionValue(Received(form.value))]
ValueOf(metric, n) ==
    IF metric[2] = "present" THEN Value("bool", IF n > 0 THEN 2 ELSE 0)
    ELSE Value("int", 2 * n)

\* What a text is read as: a number that is the one typed, or none.
LEMMA ParsedFacts ==
    ASSUME NEW raw \in Texts
    PROVE  LET v == ParseConditionValue(Received(raw))
           IN  /\ raw \in {"true", "false"} => v.type = "bool"
               /\ raw \in DOMAIN Whole \cup {""} => v.type = "int"
               /\ raw \in DOMAIN Decimal => v.type = "float"
               /\ raw = "nan" => v.type = "nan"
               /\ raw \in {"blank", "many"} => v.type = "str"
               /\ v.half \in Nat /\ Typed(raw) \in Int
               /\ v.type \in Numeric => v.half = Typed(raw)
               /\ v.type \notin Numeric => Typed(raw) = -1
<1>1. /\ Whole["0"] = 0 /\ Whole["1"] = 2 /\ Whole["2"] = 4 /\ DOMAIN Whole = {"0", "1", "2"}
      /\ Decimal["1.0"] = 2 /\ Decimal["1.5"] = 3 /\ DOMAIN Decimal = {"1.0", "1.5"}
  BY DEF Whole, Decimal
<1>2. Texts = {"true", "false", "nan", "", "blank", "many", "0", "1", "2", "1.0", "1.5"}
  BY <1>1 DEF Texts
<1>3. /\ Value("bool", 2).type = "bool" /\ Value("bool", 2).half = 2
      /\ Value("bool", 0).type = "bool" /\ Value("bool", 0).half = 0
      /\ Value("nan", 0).type = "nan" /\ Value("nan", 0).half = 0
      /\ Value("str", 0).type = "str" /\ Value("str", 0).half = 0
      /\ \A h : Value("int", h).type = "int" /\ Value("int", h).half = h
      /\ \A h : Value("float", h).type = "float" /\ Value("float", h).half = h
  BY DEF Value
<1>4. CASE raw = "true"
  <2>1. ParseConditionValue(Received(raw)) = Value("bool", 2)
    BY <1>1, <1>4 DEF ParseConditionValue, Received
  <2>2. Typed(raw) = 2
    BY <1>1, <1>4 DEF Typed
  <2>3. QED
    BY <1>1, <1>3, <1>4, <2>1, <2>2 DEF Numeric
<1>5. CASE raw = "false"
  <2>1. ParseConditionValue(Received(raw)) = Value("bool", 0)
    BY <1>1, <1>5 DEF ParseConditionValue, Received
  <2>2. Typed(raw) = 0
    BY <1>1, <1>5 DEF Typed
  <2>3. QED
    BY <1>1, <1>3, <1>5, <2>1, <2>2 DEF Numeric
<1>6. CASE raw = "nan"
  <2>1. ParseConditionValue(Received(raw)) = Value("nan", 0)
    BY <1>1, <1>6 DEF ParseConditionValue, Received
  <2>2. Typed(raw) = -1
    BY <1>1, <1>6 DEF Typed
  <2>3. QED
    BY <1>1, <1>3, <1>6, <2>1, <2>2 DEF Numeric
<1>7. CASE raw \in {"blank", "many"}
  <2>1. ParseConditionValue(Received(raw)) = Value("str", 0)
    BY <1>1, <1>7 DEF ParseConditionValue, Received
  <2>2. Typed(raw) = -1
    BY <1>1, <1>7 DEF Typed
  <2>3. ParseConditionValue(Received(raw)).type = "str" /\ ParseConditionValue(Received(raw)).half = 0
    BY <1>3, <2>1
  <2>4. /\ raw \notin {"true", "false"} /\ raw \notin DOMAIN Whole
        /\ raw \notin DOMAIN Decimal /\ raw \notin {"nan", ""}
    BY <1>1, <1>7
  <2>5. "str" \notin Numeric /\ 0 \in Nat
    BY DEF Numeric
  <2>6. raw # "nan" /\ raw # "" /\ raw \notin DOMAIN Whole \cup {""}
    BY <2>4
  <2>7. Typed(raw) \in Int /\ ParseConditionValue(Received(raw)).half \in Nat
    BY <2>2, <2>3
  <2>8. QED
    BY <2>2, <2>3, <2>4, <2>5, <2>6, <2>7, Zenon
<1>8. CASE raw \in {"0", "1", "2"}
  <2>1. ParseConditionValue(Received(raw)) = Value("int", Whole[raw])
    BY <1>1, <1>8 DEF ParseConditionValue, Received
  <2>2. Typed(raw) = Whole[raw]
    BY <1>1, <1>8 DEF Typed
  <2>3. ParseConditionValue(Received(raw)).type = "int" /\ "int" \in Numeric
    BY <1>3, <2>1 DEF Numeric
  <2>4. ParseConditionValue(Received(raw)).half = Typed(raw) /\ Typed(raw) \in Nat
    BY <1>1, <1>3, <1>8, <2>1, <2>2
  <2>5. Typed(raw) \in Int
    BY <2>4
  <2>6. /\ raw \notin {"true", "false"} /\ raw \notin DOMAIN Decimal
        /\ raw # "nan" /\ raw \notin {"blank", "many", ""}
    BY <1>1, <1>8
  <2>7. QED
    BY <2>3, <2>4, <2>5, <2>6
<1>9. CASE raw \in {"1.0", "1.5"}
  <2>1. ParseConditionValue(Received(raw)) = Value("float", Decimal[raw])
    BY <1>1, <1>9 DEF ParseConditionValue, Received
  <2>2. Typed(raw) = Decimal[raw]
    BY <1>1, <1>9 DEF Typed
  <2>3. ParseConditionValue(Received(raw)).type = "float" /\ "float" \in Numeric
    BY <1>3, <2>1 DEF Numeric
  <2>4. ParseConditionValue(Received(raw)).half = Typed(raw) /\ Typed(raw) \in Nat
    BY <1>1, <1>3, <1>9, <2>1, <2>2
  <2>5. Typed(raw) \in Int
    BY <2>4
  <2>6. /\ raw \notin {"true", "false"} /\ raw \notin DOMAIN Whole
        /\ raw # "nan" /\ raw \notin {"blank", "many", ""}
    BY <1>1, <1>9
  <2>7. QED
    BY <2>3, <2>4, <2>5, <2>6
<1>10. CASE raw = ""
  <2>1. Received(raw) = "2"
    BY <1>10 DEF Received
  <2>2. ParseConditionValue(Received(raw)) = Value("int", Whole["2"])
    BY <1>1, <2>1 DEF ParseConditionValue
  <2>3. Typed(raw) = 4
    BY <1>1, <1>10 DEF Typed
  <2>4. /\ ParseConditionValue(Received(raw)).type = "int" /\ "int" \in Numeric
        /\ ParseConditionValue(Received(raw)).half = 4
    BY <1>1, <1>3, <2>2 DEF Numeric
  <2>5. /\ raw \notin {"true", "false"} /\ raw \notin DOMAIN Decimal
        /\ raw # "nan" /\ raw \notin {"blank", "many"}
    BY <1>1, <1>10
  <2>6. QED
    BY <2>3, <2>4, <2>5
<1>11. QED
  BY <1>2, <1>4, <1>5, <1>6, <1>7, <1>8, <1>9, <1>10

\* The comparison of a form's condition with an observation of its metric answers what was
\* meant.
LEMMA ConditionFacts ==
    ASSUME NEW form \in Forms, NEW n \in Nat, NEW monitor
    PROVE  ConditionMatches(ConditionOf(form),
                            [monitor |-> monitor, metric |-> form.metric,
                             value |-> ValueOf(form.metric, n)])
           = Means(form, n)
<1> DEFINE c == ConditionOf(form)
           o == [monitor |-> monitor, metric |-> form.metric, value |-> ValueOf(form.metric, n)]
           left == ValueOf(form.metric, n)
           right == ParseConditionValue(Received(form.value))
           truth == form.metric[2] = "present"
           number == IF truth THEN (IF n > 0 THEN 2 ELSE 0) ELSE 2 * n
<1>1. /\ c.metric = o.metric /\ c.operator = form.operator /\ c.value = right
      /\ o.value = left
  BY DEF ConditionOf
<1>2. /\ left = Value(IF truth THEN "bool" ELSE "int", number)
      /\ left.type = (IF truth THEN "bool" ELSE "int") /\ left.half = number
      /\ number \in Nat
  BY DEF ValueOf, Value
<1>3. /\ form.value \in Texts /\ form.operator \in Operators \cup {"between"}
  BY DEF Forms
<1> HIDE DEF c, o, left, right
<1>4. CASE form.operator = "between"
  <2>1. ConditionMatches(c, o) = "raises"
    BY <1>1, <1>4 DEF ConditionMatches, Ordered
  <2>2. Means(form, n) = "raises"
    BY <1>4 DEF Means
  <2>3. QED
    BY <2>1, <2>2 DEF c, o
<1>5. CASE form.operator = "exists"
  <2>1. ConditionMatches(c, o) = "true"
    BY <1>1, <1>5 DEF ConditionMatches, Ordered
  <2>2. Means(form, n) = "true"
    BY <1>5 DEF Means
  <2>3. QED
    BY <2>1, <2>2 DEF c, o
<1>6. CASE form.operator = "is_true"
  <2>1. ConditionMatches(c, o) = Verdict(left = Value("bool", 2))
    BY <1>1, <1>6 DEF ConditionMatches, Ordered
  <2>2. Means(form, n) = Verdict(truth /\ n > 0)
    BY <1>6 DEF Means
  <2>3. left = Value("bool", 2) <=> truth /\ n > 0
    BY <1>2 DEF Value
  <2>4. QED
    BY <2>1, <2>2, <2>3 DEF c, o, Verdict
<1>7. CASE form.operator = "is_false"
  <2>1. ConditionMatches(c, o) = Verdict(left = Value("bool", 0))
    BY <1>1, <1>7 DEF ConditionMatches, Ordered
  <2>2. Means(form, n) = Verdict(truth /\ n = 0)
    BY <1>7 DEF Means
  <2>3. left = Value("bool", 0) <=> truth /\ n = 0
    BY <1>2 DEF Value
  <2>4. QED
    BY <2>1, <2>2, <2>3 DEF c, o, Verdict
<1>8. CASE form.operator \in {"==", "!="}
  <2>1. ConditionMatches(c, o) = Verdict(IF form.operator = "==" THEN SameValue(left, right)
                                         ELSE ~SameValue(left, right))
    BY <1>1, <1>8 DEF ConditionMatches, Ordered
  <2>2. Means(form, n) = Verdict(IF form.operator = "==" THEN number = Typed(form.value)
                                 ELSE number # Typed(form.value))
    BY <1>8 DEF Means, Compares
  <2>3. SameValue(left, right) <=> number = Typed(form.value)
    <3>1. left.type \in Numeric /\ left.type # "str"
      BY <1>2 DEF Numeric
    <3>2. CASE right.type \in Numeric
      BY <1>2, <1>3, <3>1, <3>2, ParsedFacts DEF SameValue, right
    <3>3. CASE right.type \notin Numeric
      <4>1. ~SameValue(left, right)
        BY <3>1, <3>3 DEF SameValue
      <4>2. Typed(form.value) = -1
        BY <1>3, <3>3, ParsedFacts DEF right
      <4>3. QED
        BY <1>2, <4>1, <4>2
    <3>4. QED
      BY <3>2, <3>3
  <2>4. QED
    BY <2>1, <2>2, <2>3 DEF c, o, Verdict
<1>9. CASE form.operator \in Ordered
  <2> DEFINE refused == truth \/ form.value \in {"true", "false", "blank", "many"}
  <2>1. ConditionMatches(c, o) = OrderedMatches(form.operator, left, right)
    BY <1>1, <1>9 DEF ConditionMatches, Ordered
  <2>2. Means(form, n) =
            IF refused THEN "raises"
            ELSE Verdict(form.value # "nan" /\ Compares(form.operator, number, Typed(form.value)))
    BY <1>9 DEF Means, Ordered
  <2>3. /\ "bool" \in {left.type, right.type} \/ right.type = "str" <=> refused
        /\ right.type = "nan" <=> form.value = "nan"
    <3>1. form.value \in {"true", "false"} \cup DOMAIN Whole \cup DOMAIN Decimal
                         \cup {"nan", ""} \cup {"blank", "many"}
      BY <1>3 DEF Texts
    <3>2. /\ form.value \in {"true", "false"} => right.type = "bool"
          /\ form.value \in DOMAIN Whole \cup {""} => right.type = "int"
          /\ form.value \in DOMAIN Decimal => right.type = "float"
          /\ form.value = "nan" => right.type = "nan"
          /\ form.value \in {"blank", "many"} => right.type = "str"
      BY <1>3, ParsedFacts DEF right
    <3>3. left.type = "bool" <=> truth
      BY <1>2
    <3>4. DOMAIN Whole = {"0", "1", "2"} /\ DOMAIN Decimal = {"1.0", "1.5"}
      BY DEF Whole, Decimal
    <3>5. QED
      BY <3>1, <3>2, <3>3, <3>4
  <2>4. CASE refused
    BY <2>1, <2>2, <2>3, <2>4 DEF OrderedMatches, c, o
  <2>5. CASE ~refused /\ form.value = "nan"
    BY <2>1, <2>2, <2>3, <2>5 DEF OrderedMatches, Verdict, c, o
  <2>6. CASE ~refused /\ form.value # "nan"
    <3>1. right.half = Typed(form.value)
      <4>1. right.type \in Numeric
        BY <1>3, <2>3, <2>6, ParsedFacts DEF right, Texts, Numeric
      <4>2. QED
        BY <1>3, <4>1, ParsedFacts DEF right
    <3>2. OrderedMatches(form.operator, left, right)
            = Verdict(Compares(form.operator, number, Typed(form.value)))
      <4>1. /\ ~("bool" \in {left.type, right.type} \/ right.type = "str")
            /\ right.type # "nan"
        BY <2>3, <2>6
      <4>2. /\ left.half = number /\ number \in Nat
            /\ right.half = Typed(form.value)
        BY <1>2, <3>1
      <4>3. CASE form.operator = ">"
        BY <4>1, <4>2, <4>3 DEF OrderedMatches, Compares
      <4>4. CASE form.operator = ">="
        BY <4>1, <4>2, <4>4 DEF OrderedMatches, Compares
      <4>5. CASE form.operator = "<"
        BY <4>1, <4>2, <4>5 DEF OrderedMatches, Compares
      <4>6. CASE form.operator = "<="
        BY <4>1, <4>2, <4>6 DEF OrderedMatches, Compares
      <4>7. QED
        BY <1>9, <4>3, <4>4, <4>5, <4>6 DEF Ordered
    <3>3. QED
      BY <2>1, <2>2, <2>6, <3>2 DEF Verdict, c, o
  <2>7. QED
    BY <2>4, <2>5, <2>6
<1>10. QED
  BY <1>3, <1>4, <1>5, <1>6, <1>7, <1>8, <1>9 DEF Operators

\* Every answer that was meant is one of the three that an evaluation gives.
LEMMA MeansFacts ==
    ASSUME NEW form \in Forms, NEW n \in Nat
    PROVE  Means(form, n) \in {"true", "false", "raises"}
<1>1. \A holds : Verdict(holds) \in {"true", "false"}
  BY DEF Verdict
<1>2. CASE form.operator = "between" \/ form.operator = "exists"
  BY <1>2 DEF Means
<1>3. CASE form.operator = "is_true" \/ form.operator = "is_false"
  BY <1>1, <1>3 DEF Means
<1>4. CASE form.operator \in {"==", "!="}
  BY <1>1, <1>4 DEF Means
<1>5. CASE form.operator \in Ordered
  <2> DEFINE truth == form.metric[2] = "present"
             number == IF truth THEN (IF n > 0 THEN 2 ELSE 0) ELSE 2 * n
             holds == form.value # "nan" /\ Compares(form.operator, number, Typed(form.value))
  <2>1. Means(form, n) = IF truth \/ form.value \in {"true", "false", "blank", "many"} THEN "raises"
                         ELSE Verdict(holds)
    BY <1>5 DEF Means, Ordered
  <2> HIDE DEF truth, holds
  <2>2. QED
    BY <1>1, <2>1
<1>6. form.operator \in Operators \cup {"between"}
  BY DEF Forms
<1>7. QED
  BY <1>2, <1>3, <1>4, <1>5, <1>6 DEF Operators

\* A crowd of n is counted as n.
LEMMA SeenFacts ==
    ASSUME NEW monitor, NEW c, NEW n \in Nat
    PROVE  Seen(monitor, c, n) =
           << [monitor |-> monitor, metric |-> <<c, "count">>,
               value |-> ValueOf(<<c, "count">>, n)],
              [monitor |-> monitor, metric |-> <<c, "present">>,
               value |-> ValueOf(<<c, "present">>, n)] >>
<1> DEFINE config == [class |-> c, threshold |-> 1, zone |-> {}]
<1>1. MonitorZone({}) = {}
  BY DEF MonitorZone
<1>2. Matches(config, Crowd(c, n)) = 1 .. n
  BY <1>1 DEF Matches, Crowd, DetectionInZone
<1>3. Cardinality(1 .. n) = n
  BY FS_Interval
<1>4. Cardinality(Matches(config, Crowd(c, n))) = n
  BY <1>2, <1>3
<1>5. /\ ValueOf(<<c, "count">>, n) = [type |-> "int", half |-> 2 * n]
      /\ ValueOf(<<c, "present">>, n) = [type |-> "bool", half |-> IF n > 0 THEN 2 ELSE 0]
  BY DEF ValueOf, Value
<1>6. config.class = c
  OBVIOUS
<1> HIDE DEF config
<1>7. ObservationsFor(monitor, config, Crowd(c, n)) =
           << [monitor |-> monitor, metric |-> <<c, "count">>,
               value |-> ValueOf(<<c, "count">>, n)],
              [monitor |-> monitor, metric |-> <<c, "present">>,
               value |-> ValueOf(<<c, "present">>, n)] >>
  BY <1>4, <1>5, <1>6 DEF ObservationsFor
<1>8. QED
  BY <1>7 DEF Seen, config

\* A rule of the gate sees both observations of its monitor.
LEMMA ScopedFacts ==
    ASSUME NEW n \in Nat, NEW other \in Nat, NEW rule, rule.monitor = "gate"
    PROVE  LET seen == Scoped(rule, Observed(n, other)["gate"])
           IN  /\ Observed(n, other)["gate"] # << >>
               /\ DOMAIN seen = {1, 2}
               /\ seen[1] = [monitor |-> "gate", metric |-> <<class, "count">>,
                             value |-> ValueOf(<<class, "count">>, n)]
               /\ seen[2] = [monitor |-> "gate", metric |-> <<class, "present">>,
                             value |-> ValueOf(<<class, "present">>, n)]
<1> DEFINE counted == [monitor |-> "gate", metric |-> <<class, "count">>,
                       value |-> ValueOf(<<class, "count">>, n)]
           told == [monitor |-> "gate", metric |-> <<class, "present">>,
                    value |-> ValueOf(<<class, "present">>, n)]
           all == Observed(n, other)["gate"]
<1>1. all = << counted, told >>
  BY SeenFacts DEF Observed
<1>2. counted.monitor = "gate" /\ told.monitor = "gate"
  OBVIOUS
<1> HIDE DEF counted, told, all
<1>3. DOMAIN all = {1, 2} /\ all[1] = counted /\ all[2] = told /\ all # << >>
  BY <1>1
<1>4. {i \in DOMAIN all : all[i].monitor \in {rule.monitor, "None"}} = {1, 2}
  BY <1>2, <1>3
<1>5. Scoped(rule, all) = [i \in {1, 2} |-> all[i]]
  BY <1>4 DEF Scoped, Restrict
<1>6. QED
  BY <1>3, <1>5 DEF all, counted, told

\* A group of one condition answers what the first observation of its metric answers, and
\* false where there is none.
LEMMA GroupFacts ==
    ASSUME NEW c, NEW seen, NEW i, NEW answer \in {"true", "false", "raises"},
           LET found == {j \in DOMAIN seen : seen[j].metric = c.metric}
           IN  \/ found = {} /\ answer = "false"
               \/ found = {i} /\ i \in Int /\ answer = ConditionMatches(c, seen[i])
    PROVE  GroupMatches([mode |-> "all", conditions |-> <<c>>], seen) = answer
<1> DEFINE group == [mode |-> "all", conditions |-> <<c>>]
           Of(d) == {j \in DOMAIN seen : seen[j].metric = d.metric}
           Answer(d) == IF Of(d) = {} THEN "false" ELSE ConditionMatches(d, seen[Min(Of(d))])
           verdicts == {Answer(d) : d \in ToSet(group.conditions)}
<1>1. ToSet(group.conditions) = {c}
  BY DEF ToSet
<1> HIDE DEF Answer, Of
<1>2. verdicts = {Answer(c)}
  BY <1>1
<1>3. Answer(c) = answer
  <2>1. CASE Of(c) = {} /\ answer = "false"
    BY <2>1 DEF Answer
  <2>2. CASE Of(c) = {i} /\ i \in Int /\ answer = ConditionMatches(c, seen[i])
    <3>1. Min({i}) = i
      BY <2>2 DEF Min
    <3>2. QED
      BY <2>2, <3>1 DEF Answer
  <2>3. QED
    BY <2>1, <2>2 DEF Of
<1>4. GroupMatches(group, seen) =
        IF "raises" \in verdicts \/ group.mode \notin {"any", "all"} THEN "raises"
        ELSE Verdict(IF group.mode = "any" THEN "true" \in verdicts ELSE "false" \notin verdicts)
  BY DEF GroupMatches, Answer, Of
<1> HIDE DEF verdicts
<1>5. GroupMatches(group, seen) =
        IF "raises" = answer THEN "raises" ELSE Verdict("false" # answer)
  BY <1>2, <1>3, <1>4
<1>6. QED
  BY <1>5 DEF Verdict

\* What a saved rule answers, for every form, on every count of either monitor.
LEMMA AnswerFacts ==
    ASSUME NEW form \in Forms, NEW n \in Nat, NEW other \in Nat, NEW r,
           RuleFromRow(r) = [monitor |-> "gate",
                             group |-> [mode |-> "all", conditions |-> <<ConditionOf(form)>>]]
    PROVE  EvaluateRow(r, Observed(n, other))
           = IF form.metric[1] = class THEN Means(form, n) ELSE "false"
<1> DEFINE rule == RuleFromRow(r)
           seen == Scoped(rule, Observed(n, other)["gate"])
           c == ConditionOf(form)
           found == {j \in DOMAIN seen : seen[j].metric = c.metric}
           counted == [monitor |-> "gate", metric |-> <<class, "count">>,
                       value |-> ValueOf(<<class, "count">>, n)]
           told == [monitor |-> "gate", metric |-> <<class, "present">>,
                    value |-> ValueOf(<<class, "present">>, n)]
<1>1. rule.monitor = "gate" /\ rule.group = [mode |-> "all", conditions |-> <<c>>]
  OBVIOUS
<1>2. EvaluateRow(r, Observed(n, other)) = GroupMatches(rule.group, seen)
  <2>1. "gate" \in DOMAIN Observed(n, other) /\ Observed(n, other)["gate"] # << >>
    BY <1>1, ScopedFacts DEF Observed
  <2> HIDE DEF rule
  <2>2. QED
    BY <1>1, <2>1 DEF EvaluateRow, rule
<1>3. DOMAIN seen = {1, 2} /\ seen[1] = counted /\ seen[2] = told
  BY <1>1, ScopedFacts
<1>4. c.metric = form.metric
  BY DEF ConditionOf
<1>5. /\ form.metric = <<form.metric[1], form.metric[2]>>
      /\ form.metric[2] \in {"count", "present"}
  BY DEF Forms
<1>6. counted.metric = <<class, "count">> /\ told.metric = <<class, "present">>
  OBVIOUS
<1> HIDE DEF rule, seen, c
<1>7. CASE form.metric[1] # class
  <2>1. form.metric # <<class, "count">> /\ form.metric # <<class, "present">>
    BY <1>5, <1>7
  <2>2. found = {}
    BY <1>3, <1>4, <1>6, <2>1
  <2>3. GroupMatches([mode |-> "all", conditions |-> <<c>>], seen) = "false"
    BY <2>2, GroupFacts
  <2>4. QED
    BY <1>1, <1>2, <1>7, <2>3
<1>8. CASE form.metric = <<class, "count">>
  <2>1. form.metric # <<class, "present">> /\ form.metric[1] = class
    BY <1>8
  <2>2. found = {1}
    BY <1>3, <1>4, <1>6, <1>8, <2>1
  <2>3. ConditionMatches(c, seen[1]) = Means(form, n)
    BY <1>3, <1>8, ConditionFacts DEF c
  <2>4. Means(form, n) \in {"true", "false", "raises"}
    BY MeansFacts
  <2>5. GroupMatches([mode |-> "all", conditions |-> <<c>>], seen) = Means(form, n)
    BY <2>2, <2>3, <2>4, GroupFacts
  <2>6. QED
    BY <1>1, <1>2, <2>1, <2>5
<1>9. CASE form.metric = <<class, "present">>
  <2>1. form.metric # <<class, "count">> /\ form.metric[1] = class
    BY <1>9
  <2>2. found = {2}
    BY <1>3, <1>4, <1>6, <1>9, <2>1
  <2>3. ConditionMatches(c, seen[2]) = Means(form, n)
    BY <1>3, <1>9, ConditionFacts DEF c
  <2>4. Means(form, n) \in {"true", "false", "raises"}
    BY MeansFacts
  <2>5. GroupMatches([mode |-> "all", conditions |-> <<c>>], seen) = Means(form, n)
    BY <2>2, <2>3, <2>4, GroupFacts
  <2>6. QED
    BY <1>1, <1>2, <2>1, <2>5
<1>10. QED
  BY <1>5, <1>7, <1>8, <1>9

\* A row with a monitor reads back as the rule of the form, whichever version wrote it;
\* one without is read as a rule of a camera.
RuleOf(form) == [monitor |-> "gate",
                 group |-> [mode |-> "all", conditions |-> <<ConditionOf(form)>>]]
RowInv ==
    /\ typed \subseteq Forms
    /\ \A form \in typed, r \in row :
          IF r.monitor = "" THEN RuleFromRow(r).monitor \notin {"gate", "yard"}
          ELSE RuleFromRow(r) = RuleOf(form)

\* A row of any age reads back so.
LEMMA RowFacts ==
    ASSUME NEW form \in Forms, NEW rule \in BuiltRule(form), NEW cameras \in CameraLists,
           NEW r \in LegacyRowsOf(rule, cameras) \cup {RowOf(rule)}
    PROVE  IF r.monitor = "" THEN RuleFromRow(r).monitor \notin {"gate", "yard"}
           ELSE RuleFromRow(r) = RuleOf(form)
<1> DEFINE c == ConditionOf(form)
           group == [mode |-> "all", conditions |-> <<c>>]
           empty == [mode |-> "all", conditions |-> << >>]
<1>1. rule = [monitor |-> "gate", group |-> group]
  BY DEF BuiltRule, ConditionOf, Forms
<1> HIDE DEF c
<1>2. rule.monitor = "gate" /\ rule.group = group /\ Head(rule.group.conditions) = c
  BY <1>1
<1>3. RowOf(rule) = [monitor |-> "gate", cameras |-> << >>, group |-> group, condition |-> c]
  BY <1>2 DEF RowOf
<1>4. \/ r = RowOf(rule)
      \/ r = [monitor |-> "gate", cameras |-> cameras, group |-> empty, condition |-> c]
      \/ r = [monitor |-> "", cameras |-> cameras, group |-> empty, condition |-> c]
  BY <1>2 DEF LegacyRowsOf
<1>5. group.conditions # << >> /\ empty.conditions = << >> /\ empty.mode = "all"
  OBVIOUS
<1> HIDE DEF empty, group
<1>6. CASE r = RowOf(rule)
  <2>1. r.monitor = "gate" /\ r.group = group
    BY <1>3, <1>6
  <2>2. group.conditions # << >> /\ "gate" # ""
    BY <1>5
  <2>3. RuleFromRow(r) = [monitor |-> "gate", group |-> group]
    BY <2>1, <2>2 DEF RuleFromRow
  <2>4. QED
    BY <2>1, <2>3 DEF RuleOf, group, c
<1>7. CASE r = [monitor |-> "gate", cameras |-> cameras, group |-> empty, condition |-> c]
  <2>1. r.monitor = "gate" /\ r.group = empty /\ r.condition = c
    BY <1>7
  <2>2. RuleFromRow(r) = [monitor |-> "gate", group |-> group]
    BY <1>5, <2>1 DEF RuleFromRow, group
  <2>3. QED
    BY <2>1, <2>2 DEF RuleOf, group, c
<1>8. CASE r = [monitor |-> "", cameras |-> cameras, group |-> empty, condition |-> c]
  <2>1. RuleFromRow(r).monitor = FirstMonitorIdFromLegacy(r)
    BY <1>8 DEF RuleFromRow
  <2>2. r.cameras \in CameraLists /\ r.monitor = ""
    BY <1>8
  <2>3. FirstMonitorIdFromLegacy(r) \in {"", "cam-1", "cam-2"}
    <3>1. CASE r.cameras = << >>
      BY <3>1 DEF FirstMonitorIdFromLegacy
    <3>2. CASE r.cameras = <<"cam-1">>
      BY <3>2 DEF FirstMonitorIdFromLegacy
    <3>3. CASE r.cameras = <<"cam-2", "cam-1">>
      BY <3>3 DEF FirstMonitorIdFromLegacy
    <3>4. QED
      BY <2>2, <3>1, <3>2, <3>3 DEF CameraLists
  <2>4. QED
    BY <2>1, <2>2, <2>3
<1>9. QED
  BY <1>4, <1>6, <1>7, <1>8

\* The rule that the form's handler saved answers what was typed, whatever the counts and
\* the class that the monitor was given since; so does an earlier version's that names its
\* monitor, and one that names none is in fault.
THEOREM FormTheorem == FormSpec => []RulesMeanWhatWasTyped
<1>1. FormInit => RowInv
  BY DEF FormInit, RowInv
<1>2. RowInv /\ [\/ \E form \in Forms : SaveForm(form)
                \/ \E form \in Forms, cameras \in CameraLists : Upgrade(form, cameras)
                \/ \E c \in Classes : ChangeClass(c)]_forms => RowInv'
  <2> SUFFICES ASSUME RowInv,
                      [\/ \E form \in Forms : SaveForm(form)
                       \/ \E form \in Forms, cameras \in CameraLists : Upgrade(form, cameras)
                       \/ \E c \in Classes : ChangeClass(c)]_forms
               PROVE  RowInv'
    OBVIOUS
  <2>1. ASSUME NEW form \in Forms, SaveForm(form) PROVE RowInv'
    <3>1. typed' = {form} /\ row' = {RowOf(rule) : rule \in BuiltRule(form)}
      BY <2>1 DEF SaveForm
    <3>2. << >> \in CameraLists
      BY DEF CameraLists
    <3>3. QED
      BY <3>1, <3>2, RowFacts DEF RowInv
  <2>2. ASSUME NEW form \in Forms, NEW cameras \in CameraLists, Upgrade(form, cameras)
        PROVE  RowInv'
    <3>1. PICK rule \in BuiltRule(form) : \E r \in LegacyRowsOf(rule, cameras) : row' = {r}
      BY <2>2 DEF Upgrade
    <3>2. PICK r \in LegacyRowsOf(rule, cameras) : row' = {r}
      BY <3>1
    <3>3. IF r.monitor = "" THEN RuleFromRow(r).monitor \notin {"gate", "yard"}
          ELSE RuleFromRow(r) = RuleOf(form)
      BY <3>2, RowFacts
    <3>4. typed' = {form}
      BY <2>2 DEF Upgrade
    <3>5. QED
      BY <3>2, <3>3, <3>4 DEF RowInv
  <2>3. CASE UNCHANGED <<typed, row>>
    BY <2>3 DEF RowInv
  <2>4. QED
    BY <2>1, <2>2, <2>3 DEF ChangeClass, forms
<1>3. RowInv => RulesMeanWhatWasTyped
  <2> SUFFICES ASSUME RowInv, NEW form \in typed, NEW r \in row,
                      NEW n \in Numbers, NEW other \in Numbers
               PROVE  EvaluateRow(r, Observed(n, other)) =
                        CASE r.monitor = "" -> "fault"
                          [] r.monitor # "" /\ form.metric[1] = class -> Means(form, n)
                          [] OTHER -> "false"
    BY DEF RulesMeanWhatWasTyped
  <2>1. n \in Nat /\ other \in Nat /\ form \in Forms
    <3>1. Numbers \subseteq Nat
      BY DEF Numbers
    <3>2. QED
      BY <3>1 DEF RowInv
  <2>2. CASE r.monitor = ""
    <3>1. RuleFromRow(r).monitor \notin DOMAIN Observed(n, other)
      BY <2>2 DEF RowInv, Observed
    <3>2. EvaluateRow(r, Observed(n, other)) = "fault"
      BY <3>1 DEF EvaluateRow
    <3>3. QED
      BY <2>2, <3>2
  <2>3. CASE r.monitor # ""
    <3>1. EvaluateRow(r, Observed(n, other))
            = IF form.metric[1] = class THEN Means(form, n) ELSE "false"
      BY <2>1, <2>3, AnswerFacts DEF RowInv, RuleOf
    <3>2. QED
      BY <2>3, <3>1
  <2>4. QED
    BY <2>2, <2>3
<1>4. QED
  BY <1>1, <1>2, <1>3, PTL DEF FormSpec
=============================================================================
