------------------------- MODULE RuleEvaluationProofs -------------------------
(***************************************************************************)
(* What one evaluation of a rule returns, for every configuration and      *)
(* every runtime state: the lemmas that the proofs about the engine, the   *)
(* event log and the relays rest on.                                       *)
(***************************************************************************)
EXTENDS RuleEvaluation, TLAPS

-----------------------------------------------------------------------------
(* The operators of one evaluation. *)

\* Ageing keeps a timestamp a timestamp and never makes an age smaller.
LEMMA OlderFacts ==
    /\ \A a \in Times : Older(a) \in Times /\ (Older(a) = NoTime <=> a = NoTime)
    /\ \A a \in Ages : Older(a) \in Ages /\ Older(a) >= a
    /\ \A a, b \in Ages : a <= b => Older(a) <= Older(b)
BY HorizonAssumption DEF Older, Times, Ages, NoTime

\* The debounce step leaves a rule in its target or in the pending state before it.
LEMMA DebouncedFacts ==
    ASSUME NEW rule \in TimingConfigs, NEW rt \in Runtimes, NEW t \in Targets
    PROVE  /\ Debounced(rule, rt, t) \in Runtimes
           /\ Debounced(rule, rt, t).state \in {t, PendingFor(t)}
           /\ Debounced(rule, rt, t).lastActionsAt = rt.lastActionsAt
<1>1. /\ t \in RuleStates
      /\ PendingFor(t) \in RuleStates
      /\ {0, NoTime} \subseteq Times
  BY HorizonAssumption
     DEF RuleStates, Stable, Pendings, Targets, PendingFor, Times, Ages
<1>2. /\ Reached(rt, t) \in Runtimes
      /\ Reached(rt, t).state = t
      /\ Reached(rt, t).lastActionsAt = rt.lastActionsAt
  BY <1>1 DEF Reached, Runtimes
<1>3. /\ Started(rt, t) \in Runtimes
      /\ Started(rt, t).state = PendingFor(t)
      /\ Started(rt, t).lastActionsAt = rt.lastActionsAt
  BY <1>1 DEF Started, Runtimes
<1>4. QED
  BY <1>2, <1>3 DEF Debounced

\* _transition_actions never changes the state it is given.
LEMMA TransitionFacts ==
    ASSUME NEW rule \in TimingConfigs, NEW rt \in Runtimes, NEW previous \in RuleStates
    PROVE  LET result == Transition(rule, previous, rt)
           IN  /\ result \in [runtime : Runtimes, fires : BOOLEAN]
               /\ result.runtime.state = rt.state
               /\ result.runtime.pendingSince = rt.pendingSince
               /\ result.fires =>
                     result.runtime.lastActionsAt = 0 /\ ~CoolingDown(rule, rt)
               /\ ~result.fires =>
                     /\ result.runtime = rt
                     /\ rt.state = previous \/ CoolingDown(rule, rt)
BY HorizonAssumption DEF Transition, Runtimes, Times, Ages, NoTime, CoolingDown

\* evaluate returns a runtime state, in FALSE for a disabled rule, in FAULT for a faulted
\* one, and in the target or its pending state otherwise.
LEMMA EvaluateFacts ==
    ASSUME NEW rule \in TimingConfigs, NEW rt \in Runtimes, NEW v \in Verdicts
    PROVE  LET result == Evaluate(rule, rt, v)
           IN  /\ result \in [runtime : Runtimes, fires : BOOLEAN]
               /\ ~rule.enabled => result.runtime.state = "false" /\ ~result.fires
               /\ rule.enabled /\ v = "fault" => result.runtime.state = "fault"
               /\ rule.enabled /\ v \in Targets =>
                     result.runtime.state \in {v, PendingFor(v)}
               /\ result.fires => 
                     /\ result.runtime.lastActionsAt = 0 
                     /\ result.runtime.state \in Stable
                     /\ ~CoolingDown(rule, rt)
               /\ ~result.fires => result.runtime.lastActionsAt = rt.lastActionsAt
               /\ ~result.fires /\ rule.enabled /\ result.runtime.state \in Stable =>
                     result.runtime.state = rt.state \/ CoolingDown(rule, rt)
<1> DEFINE result == Evaluate(rule, rt, v)
<1>1. CASE ~rule.enabled
  BY <1>1 DEF Evaluate, Runtimes, RuleStates, Stable, Targets
<1>2. CASE rule.enabled /\ v = "fault"
  <2> DEFINE entering == [rt EXCEPT !.state = "fault", !.pendingSince = NoTime]
  <2>1. /\ entering \in Runtimes
        /\ entering.state = "fault"
        /\ entering.lastActionsAt = rt.lastActionsAt
        /\ rt.state \in RuleStates
        /\ CoolingDown(rule, entering) <=> CoolingDown(rule, rt)
    BY DEF Runtimes, RuleStates, Stable, Times, NoTime, CoolingDown
  <2>2. result = Transition(rule, rt.state, entering)
    BY <1>2 DEF Evaluate
  <2> HIDE DEF entering, result
  <2>3. QED
    BY <1>2, <2>1, <2>2, TransitionFacts DEF Stable, Targets, result
<1>3. CASE rule.enabled /\ v \in Targets
  <2> DEFINE next == Debounced(rule, rt, v)
  <2>1. /\ next \in Runtimes
        /\ next.state \in {v, PendingFor(v)}
        /\ next.lastActionsAt = rt.lastActionsAt
        /\ rt.state \in RuleStates
        /\ CoolingDown(rule, next) <=> CoolingDown(rule, rt)
    BY <1>3, DebouncedFacts DEF Runtimes, CoolingDown
  <2>2. PendingFor(v) \notin Stable /\ v \in Stable /\ v # "fault"
    BY <1>3 DEF PendingFor, Stable, Targets
  <2>3. result = IF next.state = v THEN Transition(rule, rt.state, next)
                 ELSE [runtime |-> next, fires |-> FALSE]
    BY <1>3, <2>2 DEF Evaluate
  <2> HIDE DEF next, result
  <2>4. QED
    BY <1>3, <2>1, <2>2, <2>3, TransitionFacts DEF result
<1>4. QED
  BY <1>1, <1>2, <1>3 DEF Verdicts, Stable, TimingConfigs

-----------------------------------------------------------------------------
(* Configurations with more to them than their timing. *)

Timing(rule) ==
    [enabled |-> rule.enabled, debounce |-> rule.debounce, cooldown |-> rule.cooldown]

\* evaluate reads the timing of a configuration and nothing else.
LEMMA OnlyTimingMatters ==
    ASSUME NEW rule, NEW rt, NEW v
    PROVE  Evaluate(rule, rt, v) = Evaluate(Timing(rule), rt, v)
<1>1. /\ Timing(rule).enabled = rule.enabled
      /\ Timing(rule).debounce = rule.debounce
      /\ Timing(rule).cooldown = rule.cooldown
  BY DEF Timing
<1>2. ASSUME NEW t
      PROVE  Debounced(rule, rt, t) = Debounced(Timing(rule), rt, t)
  BY <1>1, Zenon DEF Debounced, Elapsed
<1>3. ASSUME NEW s, NEW next
      PROVE  Transition(rule, s, next) = Transition(Timing(rule), s, next)
  BY <1>1, Zenon DEF Transition, CoolingDown
<1>4. Debounced(rule, rt, v) = Debounced(Timing(rule), rt, v)
  BY <1>2
<1>5. \A s, next : Transition(rule, s, next) = Transition(Timing(rule), s, next)
  BY <1>3
<1> HIDE DEF Timing
<1>6. CASE ~rule.enabled
  BY <1>1, <1>6, Zenon DEF Evaluate
<1>7. CASE rule.enabled /\ v = "fault"
  <2>1. /\ Timing(rule).enabled
        /\ rule.enabled
    BY <1>1, <1>7
  <2>2. QED
    BY <2>1, <1>7, <1>5 DEF Evaluate
<1>8. CASE rule.enabled /\ v # "fault"
  <2>1. /\ Timing(rule).enabled
        /\ rule.enabled
    BY <1>1, <1>8
  <2>2. QED
    BY <2>1, <1>8, <1>4, <1>5 DEF Evaluate
<1>9. QED
  BY <1>6, <1>7, <1>8
=============================================================================
