---------------------------- MODULE EventLogProofs ----------------------------
(***************************************************************************)
(* Proofs about the event log: for any rules, sightings, forms and window, *)
(* the types, the agreement of the rows with the log, the log that repeats *)
(* nothing, and the webhook that names its own event.                      *)
(***************************************************************************)
EXTENDS EventLog, RuleEvaluationProofs, FiniteSetTheorems, SequenceTheorems

-----------------------------------------------------------------------------
(***************************************************************************)
(* The inductive invariant.  None of the three properties is inductive:    *)
(* what a step may do next depends on what the turn in progress has        *)
(* already read of the row and of the log.                                 *)
(***************************************************************************)

\* What the locals of a turn hold at each stage.
TurnOK ==
    /\ stage \in {"read", "keep", "create", "settle"} => turn.state \in Targets
    /\ stage \in {"read", "keep", "create", "settle", "find"} => turn.event = 0
    /\ turn.post => turn.state = "true"
    /\ stage = "send" => turn.post
    /\ stage \in {"attach", "status"} => turn.event # 0
    /\ stage \in {"attach", "send", "status"} /\ turn.event # 0 =>
            turn.event \in DOMAIN events

\* A rule without a row lost it to a deletion.
DeletedAreTorn == \A r \in Rules : r \in DOMAIN rules \/ r \in history.torn

\* The newest event that the window holds of a rule is the newest that was ever logged.
NewestIsLast ==
    \A j \in DOMAIN events :
        (\A k \in DOMAIN events : events[k].rule = events[j].rule => k <= j)
            => events[j].key = history.last[events[j].rule]

\* What the turn has read of the row still tells what the log's newest event is.
TurnMatchesLog ==
    LET logged == history.last[turn.rule] = KeyOf(turn)
        torn   == turn.rule \in history.torn
    IN  /\ stage = "keep" => logged \/ torn
        /\ stage = "create" => ~logged \/ torn
        /\ stage = "settle" => logged
        /\ stage \in {"find", "attach", "send"} /\ turn.post => logged \/ torn

\* The event that a turn has found for its webhook is the one it tells of.
EventNamed ==
    /\ stage \in {"attach", "send"}
    /\ turn.post /\ turn.event # 0 /\ turn.rule \notin history.torn
    => events[turn.event].key = KeyOf(turn)

IInv ==
    /\ TypeOK
    /\ TurnOK
    /\ RowMatchesLog
    /\ DeletedAreTorn
    /\ NewestIsLast
    /\ TurnMatchesLog
    /\ EventNamed

-----------------------------------------------------------------------------
(* The log and what the worker reads of it. *)

\* NewestOf finds the largest of a non-empty set of positions.
LEMMA NewestFacts ==
    ASSUME NEW n \in Nat, NEW S \in SUBSET (1 .. n), S # {}
    PROVE  NewestOf(S) \in S /\ \A j \in S : j <= NewestOf(S)
<1> DEFINE Rests == {i .. n : i \in S}
<1>1. Rests \subseteq FiniteSubsetsOf(1 .. n) /\ Rests # {}
  <2>1. ASSUME NEW i \in S
        PROVE  /\ i .. n \in SUBSET (1 .. n)
               /\ IsFiniteSet(i .. n)
    BY FS_Interval
  <2>2. QED
    BY <2>1 DEF FiniteSubsetsOf
<1>2. PICK X \in Rests : \A Y \in Rests : <<Y, X>> \notin StrictSubsetOrdering(1 .. n)
  <2> HIDE DEF Rests
  <2>1. QED
    BY <1>1, WFMin, FS_StrictSubsetOrderingWellFounded
<1>3. PICK i \in S : X = i .. n
  BY <1>2
<1>4. ASSUME NEW j \in S
      PROVE  j <= i
  <2>1. SUFFICES ASSUME i < j
                 PROVE  FALSE
    OBVIOUS
  <2>2. j .. n \subseteq i .. n /\ j .. n # i .. n
    BY <2>1
  <2>3. j .. n \in Rests
    OBVIOUS
  <2>4. /\ j .. n \in SUBSET (1 .. n)
        /\ i .. n \in SUBSET (1 .. n)
    OBVIOUS
  <2>5. <<j .. n, i .. n>> \in StrictSubsetOrdering(1 .. n)
    BY <2>2, <2>4, Zenon DEF StrictSubsetOrdering
  <2> HIDE DEF Rests
  <2>6. QED
    BY <1>2, <1>3, <2>3, <2>5
<1>5. QED
  BY <1>4 DEF NewestOf

\* create_event puts the new entry last; the window may lose its oldest entry.
LEMMA CreatedFacts ==
    ASSUME NEW old \in Seq(Entries), Len(old) <= Window, NEW entry \in Entries
    PROVE  LET log == Append(old, entry)
               new == IF Len(log) > Window THEN Latest(log) ELSE log
           IN  /\ new \in Seq(Entries)
               /\ Len(new) \in 1 .. Window
               /\ new[Len(new)] = entry
               /\ \E lost \in {0, 1} :
                    /\ Len(new) = Len(old) + 1 - lost
                    /\ \A i \in 1 .. Len(new) - 1 : new[i] = old[i + lost]
<1> DEFINE log == Append(old, entry)
           new == IF Len(log) > Window THEN Latest(log) ELSE log
<1>1. /\ log \in Seq(Entries)
      /\ Len(log) = Len(old) + 1
      /\ \A i \in 1 .. Len(old) : log[i] = old[i]
      /\ log[Len(old) + 1] = entry
      /\ Len(old) \in Nat
  BY AppendProperties, LenProperties
<1>2. Window \in Nat /\ Window > 0
  BY EventLogAssumption
<1> HIDE DEF log
<1>3. CASE Len(log) <= Window
  <2>1. new = log
    BY <1>1, <1>2, <1>3
  <2> HIDE DEF new
  <2>2. /\ Len(new) = Len(old) + 1 - 0
        /\ \A i \in 1 .. Len(new) - 1 : new[i] = old[i + 0]
    BY <1>1, <2>1
  <2>3. QED
    BY <1>1, <1>2, <1>3, <2>1, <2>2 DEF log, new
<1>4. CASE Len(log) > Window
  <2>1. new = SubSeq(log, 2, Len(log)) /\ Len(log) = Window + 1
    BY <1>1, <1>2, <1>4 DEF Latest
  <2> HIDE DEF new
  <2>2. \A i \in 2 .. Len(log) : log[i] \in Entries
    BY <1>1, ElementOfSeq
  <2>3. /\ new \in Seq(Entries)
        /\ Len(new) = Window
        /\ \A i \in 1 .. Window : new[i] = log[i + 1]
    BY <1>1, <1>2, <2>1, <2>2, SubSeqProperties
  <2>4. /\ Len(new) = Len(old) + 1 - 1
        /\ \A i \in 1 .. Len(new) - 1 : new[i] = old[i + 1]
    BY <1>1, <1>2, <2>1, <2>3
  <2>5. QED
    BY <1>1, <1>2, <2>1, <2>3, <2>4 DEF log, new
<1>5. QED
  BY <1>1, <1>2, <1>3, <1>4

\* What the evaluation of a rule with one of its forms returns.
LEMMA FormEvaluated ==
    ASSUME NEW r \in Rules, NEW form \in Forms[r], NEW rt \in Runtimes,
           NEW v \in Verdicts
    PROVE  Evaluate(form, rt, v) \in [runtime : Runtimes, fires : BOOLEAN]
<1>1. Timing(form) \in TimingConfigs
  BY EventLogAssumption DEF FormConfigs, Timing, TimingConfigs
<1>2. Evaluate(form, rt, v) = Evaluate(Timing(form), rt, v)
  BY OnlyTimingMatters
<1>3. QED
  BY <1>1, <1>2, EvaluateFacts

\* A clock unit keeps a runtime state a runtime state.
LEMMA AgedRuntime == \A rt \in Runtimes : Aged(rt) \in Runtimes
BY OlderFacts DEF Aged, Runtimes


\* A turn that has just begun and the new runtime state are of their types.
LEMMA NewTypes == NoTurn \in Turns /\ NewRuntime \in Runtimes
<1>1. 0 \in 0 .. Window
  BY EventLogAssumption
<1>2. QED
  BY <1>1 DEF NoTurn, Turns, NewRuntime, Runtimes, RuleStates, Times, NoTime

\* The turn that an evaluation begins: the rule and the sighting it was evaluated with,
\* no event yet, and a webhook only for a rule that has become true.
LEMMA BegunTurn ==
    ASSUME TypeOK, NEW r \in Rules, EvaluateRule(r)
    PROVE  /\ stage = "rules"
           /\ engine' \in [Rules -> Runtimes]
           /\ todo' = [q \in DOMAIN todo \ {r} |-> todo[q]]
           /\ UNCHANGED <<scene, editing, rules, events, history>>
           /\ \/ stage' = "rules" /\ turn' = NoTurn
              \/ /\ turn' \in Turns
                 /\ turn'.rule = r /\ turn'.seen \in Sightings /\ turn'.event = 0
                 /\ turn'.post => turn'.state = "true"
                 /\ stage' = IF turn'.state \in Targets THEN "read" ELSE "find"
<1> DEFINE form   == todo[r]
           result == Evaluate(form, engine[r], scene[r].verdict)
           seen   == IF form.enabled THEN scene[r].seen ELSE Nothing
           state  == result.runtime.state
           post   == form.hook /\ result.fires /\ state = "true"
           new    == [NoTurn EXCEPT !.rule = r, !.state = state, !.seen = seen,
                                    !.post = post]
<1>1. /\ form \in Forms[r] /\ r \in DOMAIN todo /\ stage = "rules"
      /\ engine[r] \in Runtimes
      /\ scene[r] \in AllScenes
  BY EventLogAssumption DEF EvaluateRule, TypeOK
<1>2. result \in [runtime : Runtimes, fires : BOOLEAN]
  BY <1>1, FormEvaluated DEF AllScenes
<1>3. /\ engine' = [engine EXCEPT ![r] = result.runtime]
      /\ IF seen = Nothing THEN stage' = "rules" /\ turn' = NoTurn
         ELSE turn' = new /\ stage' = IF state \in Targets THEN "read" ELSE "find"
      /\ todo' = [q \in DOMAIN todo \ {r} |-> todo[q]]
      /\ UNCHANGED <<scene, editing, rules, events, history>>
  BY DEF EvaluateRule, Over, inputs
<1>4. /\ seen \in Sightings \cup {Nothing}
      /\ state \in RuleStates
      /\ post \in BOOLEAN
      /\ post => state = "true"
  BY <1>1, <1>2 DEF AllScenes, Runtimes
<1>5. engine' \in [Rules -> Runtimes]
  BY <1>2, <1>3 DEF TypeOK
<1> HIDE DEF form, result, seen, state, post
<1>6. /\ new \in Turns
      /\ new.rule = r /\ new.seen = seen /\ new.state = state /\ new.post = post
      /\ new.event = 0
  BY <1>4, NewTypes DEF Turns, NoTurn
<1> HIDE DEF new
<1>7. QED
  BY <1>1, <1>3, <1>4, <1>5, <1>6

-----------------------------------------------------------------------------
(* The invariant is inductive. *)

\* The types hold initially.
LEMMA TypeInit == Init => TypeOK
<1> SUFFICES ASSUME Init
             PROVE  TypeOK
  OBVIOUS
<1>1. events \in Seq(Entries) /\ Len(events) <= Window
  BY EmptySeq, EventLogAssumption DEF Init
<1>2. engine \in [Rules -> Runtimes]
  BY NewTypes DEF Init
<1>3. QED
  BY <1>1, <1>2, NewTypes DEF Init, TypeOK, NoTurn

\* Every step keeps every variable in its set.
LEMMA TypeStep == TypeOK /\ TurnOK /\ [Next]_vars => TypeOK'
<1> SUFFICES ASSUME TypeOK, TurnOK, [Next]_vars
             PROVE  TypeOK'
  OBVIOUS
<1> USE DEF inputs, locals
<1>1. CASE BeginCycle
  BY <1>1 DEF BeginCycle, TypeOK
<1>2. CASE EndCycle
  BY <1>2 DEF EndCycle, TypeOK
<1>3. ASSUME NEW r \in Rules, EvaluateRule(r)
      PROVE  TypeOK'
  <2>1. /\ engine' \in [Rules -> Runtimes]
        /\ todo' = [q \in DOMAIN todo \ {r} |-> todo[q]]
        /\ UNCHANGED <<scene, editing, rules, events, history>>
    BY <1>3, BegunTurn
  <2>2. /\ turn' \in Turns
        /\ \/ stage' = "rules"
           \/ /\ stage' \in {"read", "find"}
              /\ turn'.rule \in Rules /\ turn'.seen \in Sightings
    BY <1>3, BegunTurn, NewTypes
  <2>3. QED
    BY <2>1, <2>2 DEF TypeOK
<1>4. CASE ReadRow
  BY <1>4 DEF ReadRow, TypeOK
<1>5. CASE CreateEvent
  <2> DEFINE entry == [rule |-> turn.rule, key |-> KeyOf(turn), file |-> TRUE,
                       status |-> "none"]
             log   == Append(events, entry)
  <2>1. turn.rule \in Rules /\ KeyOf(turn) \in Keys
    BY <1>5 DEF CreateEvent, TypeOK, TurnOK, KeyOf, Keys
  <2>2. entry \in Entries
    BY <2>1 DEF Entries
  <2>3. events' = IF Len(log) > Window THEN Latest(log) ELSE log
    BY <1>5 DEF CreateEvent
  <2>4. events' \in Seq(Entries) /\ Len(events') <= Window
    <3> HIDE DEF entry
    <3>1. QED
      BY <2>2, <2>3, CreatedFacts, EventLogAssumption DEF TypeOK
  <2>5. history' \in [last : [Rules -> Keys \cup {NoKey}], torn : SUBSET Rules]
    BY <1>5, <2>1 DEF CreateEvent, TypeOK
  <2>6. QED
    BY <1>5, <2>4, <2>5 DEF CreateEvent, TypeOK
<1>6. CASE RecordKey
  <2>1. turn.rule \in Rules /\ KeyOf(turn) \in Keys
    BY <1>6 DEF RecordKey, TypeOK, TurnOK, KeyOf, Keys
  <2>2. QED
    BY <1>6, <2>1 DEF RecordKey, TypeOK
<1>7. CASE FindEvent
  <2> DEFINE found == EventsFor(turn.rule, turn.seen)
             t     == [turn EXCEPT !.event = NewestOf(found)]
  <2>1. IF found = {} THEN Proceed(turn)
        ELSE IF events[t.event].file THEN stage' = "attach" /\ turn' = t
        ELSE Proceed(t)
    BY <1>7 DEF FindEvent
  <2>2. found # {} => t \in Turns /\ t.rule = turn.rule /\ t.seen = turn.seen
    <3> SUFFICES ASSUME found # {}
                 PROVE  NewestOf(found) \in 0 .. Window
      BY DEF TypeOK, Turns
    <3>1. found \in SUBSET (1 .. Len(events)) /\ Len(events) \in Nat
      BY LenProperties DEF EventsFor, TypeOK
    <3>2. NewestOf(found) \in found
      <4> HIDE DEF found
      <4>1. QED
        BY <3>1, NewestFacts
    <3>3. QED
      BY <3>1, <3>2, EventLogAssumption DEF TypeOK
  <2> HIDE DEF found, t
  <2>3. /\ turn' \in Turns
        /\ \/ stage' = "rules"
           \/ /\ stage' \in {"attach", "send"}
              /\ turn'.rule \in Rules /\ turn'.seen \in Sightings
    BY <1>7, <2>1, <2>2, NewTypes DEF FindEvent, Proceed, Over, TypeOK
  <2>4. QED
    BY <1>7, <2>1, <2>3 DEF FindEvent, TypeOK
<1>8. CASE AttachSnapshot
  <2>1. turn' \in {turn, NoTurn} /\ stage' \in {"send", "rules"} 
        /\ (stage' = "send" => turn' = turn)
    BY <1>8 DEF AttachSnapshot, Proceed, Over
  <2>2. QED
    BY <1>8, <2>1, NewTypes DEF AttachSnapshot, TypeOK
<1>9. CASE Send
  <2>1. \/ stage' = "rules" /\ turn' = NoTurn
        \/ /\ stage' = "status"
           /\ \E outcome \in Outcomes : turn' = [turn EXCEPT !.outcome = outcome]
    BY <1>9 DEF Send, Over
  <2>2. turn' \in Turns /\ (stage' = "status" => turn'.rule = turn.rule /\ turn'.seen = turn.seen)
    BY <2>1, NewTypes DEF TypeOK, Turns
  <2>3. QED
    BY <1>9, <2>1, <2>2 DEF Send, TypeOK
<1>10. CASE RecordStatus
  <2>1. turn.event \in 1 .. Len(events)
    BY <1>10, LenProperties DEF RecordStatus, TurnOK, TypeOK
  <2> DEFINE entry == [events[turn.event] EXCEPT !.status = turn.outcome]
  <2>2. events[turn.event] \in Entries
    BY <2>1, ElementOfSeq DEF TypeOK
  <2>3. turn.outcome \in Outcomes \cup {"none"}
    BY DEF TypeOK, Turns
  <2>4. entry \in Entries
    BY <2>2, <2>3 DEF Entries
  <2>5. events' = [events EXCEPT ![turn.event] = entry]
    BY <1>10 DEF RecordStatus
  <2>6. events' \in Seq(Entries) /\ Len(events') = Len(events)
    <3> HIDE DEF entry
    <3>1. QED
      BY <2>1, <2>4, <2>5, ExceptSeq DEF TypeOK
  <2>7. QED
    BY <1>10, <2>6, NewTypes DEF RecordStatus, Over, TypeOK
<1>11. ASSUME NEW r \in Rules, FindRule(r) \/ SaveRule(r) \/ DeleteRule(r)
       PROVE  TypeOK'
  <2>1. CASE FindRule(r)
    BY <2>1 DEF FindRule, TypeOK
  <2>2. CASE SaveRule(r)
    BY <2>2 DEF SaveRule, Row, TypeOK
  <2>3. CASE DeleteRule(r)
    BY <2>3 DEF DeleteRule, TypeOK
  <2>4. QED
    BY <1>11, <2>1, <2>2, <2>3
<1>12. ASSUME NEW r \in Rules, SceneChanges(r)
       PROVE  TypeOK'
  BY <1>12 DEF SceneChanges, TypeOK
<1>13. ASSUME NEW i \in 1 .. Window, PruneSnapshot(i)
       PROVE  TypeOK'
  <2> DEFINE entry == [events[i] EXCEPT !.file = FALSE]
  <2>1. i \in 1 .. Len(events)
    BY <1>13, LenProperties DEF PruneSnapshot, TypeOK
  <2>2. events[i] \in Entries
    BY <2>1, ElementOfSeq DEF TypeOK
  <2>3. entry \in Entries
    BY <2>2 DEF Entries
  <2>4. events' = [events EXCEPT ![i] = entry]
    BY <1>13 DEF PruneSnapshot
  <2>5. events' \in Seq(Entries) /\ Len(events') = Len(events)
    <3> HIDE DEF entry
    <3>1. QED
      BY <2>1, <2>3, <2>4, ExceptSeq DEF TypeOK
  <2>6. QED
    BY <1>13, <2>5 DEF PruneSnapshot, TypeOK
<1>14. CASE Tick
  <2>1. engine' \in [Rules -> Runtimes]
    BY <1>14, AgedRuntime DEF Tick, TypeOK
  <2>2. QED
    BY <1>14, <2>1 DEF Tick, TypeOK
<1>15. CASE Crash
  <2>1. engine' \in [Rules -> Runtimes]
    BY <1>15, NewTypes DEF Crash
  <2>2. history' \in [last : [Rules -> Keys \cup {NoKey}], torn : SUBSET Rules]
    BY <1>15 DEF Crash, TypeOK
  <2>3. QED
    BY <1>15, <2>1, <2>2, NewTypes DEF Crash, TypeOK
<1>16. CASE UNCHANGED vars
  BY <1>16 DEF vars, TypeOK
<1>17. QED
  BY <1>1, <1>2, <1>3, <1>4, <1>5, <1>6, <1>7, <1>8, <1>9, <1>10, <1>11, <1>12, <1>13,
     <1>14, <1>15, <1>16, EventLogAssumption
     DEF Next, WorkerStep, SnapshotVanished

\* A turn that is over constrains nothing.
LEMMA TurnOver ==
    ASSUME stage' = "rules" \/ stage' = "idle", turn' = NoTurn
    PROVE  TurnOK' /\ TurnMatchesLog' /\ EventNamed'
BY DEF TurnOK, TurnMatchesLog, EventNamed, NoTurn

\* Every step keeps the invariant.
LEMMA IInvStep == IInv /\ [Next]_vars => IInv'
<1> SUFFICES ASSUME IInv, [Next]_vars
             PROVE  IInv'
  OBVIOUS
<1> DEFINE Others == /\ TurnOK /\ RowMatchesLog /\ DeletedAreTorn
                     /\ NewestIsLast /\ TurnMatchesLog /\ EventNamed
<1> USE DEF inputs, locals
<1>1. TypeOK'
  BY TypeStep DEF IInv
<1>2. /\ TypeOK /\ TurnOK /\ RowMatchesLog /\ DeletedAreTorn
      /\ NewestIsLast /\ TurnMatchesLog /\ EventNamed
      /\ DOMAIN events = 1 .. Len(events)
      /\ Len(events) \in Nat
  BY LenProperties DEF IInv, TypeOK
<1> USE <1>2
<1> SUFFICES Others'
  BY <1>1 DEF IInv
<1>3. CASE BeginCycle
  BY <1>3 DEF BeginCycle, TurnOK, RowMatchesLog, DeletedAreTorn, NewestIsLast,
              TurnMatchesLog, EventNamed
<1>4. CASE EndCycle
  BY <1>4 DEF EndCycle, TurnOK, RowMatchesLog, DeletedAreTorn, NewestIsLast,
              TurnMatchesLog, EventNamed
<1>5. ASSUME NEW r \in Rules, EvaluateRule(r)
      PROVE  Others'
  <2>1. RowMatchesLog' /\ DeletedAreTorn' /\ NewestIsLast'
    BY <1>5, BegunTurn DEF RowMatchesLog, DeletedAreTorn, NewestIsLast
  <2>2. TurnOK' /\ TurnMatchesLog' /\ EventNamed'
    <3>1. CASE stage' = "rules" /\ turn' = NoTurn
      BY <3>1, TurnOver
    <3>2. CASE stage' = "read" /\ turn'.state \in Targets
      BY <3>2, <1>5, BegunTurn, NewTypes DEF TurnOK, TurnMatchesLog, EventNamed, NoTurn
    <3>3. CASE stage' = "find" /\ turn'.event = 0 /\ ~turn'.post
      BY <3>3 DEF TurnOK, TurnMatchesLog, EventNamed
    <3>4. QED
      BY <1>5, <3>1, <3>2, <3>3, BegunTurn DEF Targets, Turns
  <2>3. QED
    BY <2>1, <2>2
<1>6. CASE ReadRow
  BY <1>6 DEF ReadRow, Row, KeyOf, NoKey, Targets, TypeOK, TurnOK, RowMatchesLog,
              DeletedAreTorn, NewestIsLast, TurnMatchesLog, EventNamed
<1>7. CASE CreateEvent
  <2> DEFINE key   == KeyOf(turn)
             entry == [rule |-> turn.rule, key |-> key, file |-> TRUE, 
                       status |-> "none"]
             log   == Append(events, entry)
             new   == IF Len(log) > Window THEN Latest(log) ELSE log
  <2>1. /\ stage = "create" /\ stage' = "settle"
        /\ events' = new
        /\ history' = [history EXCEPT !.last[turn.rule] = key]
        /\ UNCHANGED <<rules, turn>>
    BY <1>7 DEF CreateEvent
  <2>2. turn.rule \in Rules /\ turn.state \in Targets /\ key \in Keys
    BY <2>1 DEF TypeOK, TurnOK, KeyOf, Keys
  <2>3. /\ history'.last = [history.last EXCEPT ![turn.rule] = key]
        /\ history'.torn = history.torn
    BY <2>1, <2>2 DEF TypeOK
  <2>4. TurnOK' /\ RowMatchesLog' /\ DeletedAreTorn' /\ TurnMatchesLog' /\ EventNamed'
    BY <2>1, <2>2, <2>3
       DEF TypeOK, TurnOK, RowMatchesLog, DeletedAreTorn, TurnMatchesLog, EventNamed, KeyOf
  <2>5. NewestIsLast'
    <3>1. entry \in Entries /\ entry.rule = turn.rule /\ entry.key = key
      BY <2>2 DEF Entries
    <3> HIDE DEF key, entry
    <3>2. /\ new \in Seq(Entries)
          /\ Len(new) \in 1 .. Window
          /\ new[Len(new)] = entry
          /\ \E lost \in {0, 1} :
                /\ Len(new) = Len(events) + 1 - lost
                /\ \A i \in 1 .. Len(new) - 1 : new[i] = events[i + lost]
      BY <3>1, CreatedFacts DEF TypeOK
    <3> HIDE DEF new
    <3>3. /\ DOMAIN events' = 1 .. Len(events')
          /\ Len(events') \in Nat \ {0}
          /\ events'[Len(events')] = entry
      BY <2>1, <3>2, LenProperties
    <3>4. PICK lost \in {0, 1} :
                /\ Len(events') = Len(events) + 1 - lost
                /\ \A i \in 1 .. Len(events') - 1 : events'[i] = events[i + lost]
      BY <2>1, <3>2
    <3>5. SUFFICES ASSUME NEW j \in 1 .. Len(events'),
                          \A k \in 1 .. Len(events') :
                                events'[k].rule = events'[j].rule => k <= j
                   PROVE  events'[j].key = history'.last[events'[j].rule]
      BY <3>3 DEF NewestIsLast
    <3>6. CASE j = Len(events')
      BY <3>1, <3>3, <3>6, <2>2, <2>3 DEF TypeOK
    <3>7. CASE j # Len(events')
      <4>1. /\ j \in 1 .. Len(events') - 1
            /\ j + lost \in 1 .. Len(events)
            /\ events'[j] = events[j + lost]
        BY <3>3, <3>4, <3>7
      <4>2. events'[j].rule # turn.rule
        <5> DEFINE end == Len(events')
        <5> HIDE DEF end
        <5>1. end \in Nat \ {0} /\ j \in 1 .. end /\ j # end
          BY <3>3, <3>7 DEF end
        <5>2. end \in 1 .. end /\ ~(end <= j)
          BY <5>1
        <5>3. events'[Len(events')].rule # events'[j].rule
          BY <3>5, <5>2 DEF end
        <5>4. QED
          BY <3>1, <3>3, <5>3
      <4>3. ASSUME NEW k \in 1 .. Len(events),
                   events[k].rule = events[j + lost].rule
            PROVE  k <= j + lost
        <5>1. CASE k <= lost
          BY <5>1, <3>4, <4>1
        <5>2. CASE k > lost
          <6>1. k - lost \in 1 .. Len(events') - 1 /\ (k - lost) + lost = k
            BY <5>2, <3>4
          <6>2. events'[k - lost] = events[k]
            BY <6>1, <3>4
          <6>3. /\ k - lost \in 1 .. Len(events')
                /\ events'[k - lost].rule = events'[j].rule
            BY <6>1, <6>2, <4>1, <4>3
          <6>4. k - lost <= j
            BY <6>3, <3>5
          <6>5. QED
            BY <6>4, <3>4
        <5>3. QED
          BY <5>1, <5>2, <3>4
      <4>4. events[j + lost].key = history.last[events[j + lost].rule]
        BY <4>1, <4>3 DEF NewestIsLast
      <4>5. QED
        BY <4>1, <4>2, <4>4, <2>2, <2>3, ElementOfSeq DEF TypeOK, Entries
    <3>8. QED
      BY <3>6, <3>7
  <2>6. QED
    BY <2>4, <2>5
<1>8. CASE RecordKey
  <2>1. /\ turn.rule \in Rules
        /\ history'.last = history.last
        /\ UNCHANGED <<events, turn>>
        /\ stage \in {"keep", "settle"} /\ stage' = "find"
    BY <1>8 DEF RecordKey, TypeOK
  <2>2. TurnOK' /\ NewestIsLast'
    BY <2>1 DEF TurnOK, NewestIsLast
  <2>3. RowMatchesLog' /\ DeletedAreTorn' /\ TurnMatchesLog' /\ EventNamed'
    BY <1>8 DEF RecordKey, TypeOK, TurnOK, RowMatchesLog, DeletedAreTorn, TurnMatchesLog,
                EventNamed
  <2>4. QED
    BY <2>2, <2>3
<1>9. CASE FindEvent
  <2>1. RowMatchesLog' /\ DeletedAreTorn' /\ NewestIsLast'
    BY <1>9 DEF FindEvent, RowMatchesLog, DeletedAreTorn, NewestIsLast
  <2> DEFINE found == EventsFor(turn.rule, turn.seen)
             t     == [turn EXCEPT !.event = NewestOf(found)]
  <2>2. /\ stage = "find"
        /\ IF found = {} THEN Proceed(turn)
           ELSE IF events[t.event].file THEN stage' = "attach" /\ turn' = t
           ELSE Proceed(t)
        /\ UNCHANGED <<events, history>>
    BY <1>9 DEF FindEvent
  <2>3. CASE found = {}
    <3>1. CASE turn.post
      BY <2>2, <2>3, <3>1, <2>1 DEF Proceed, TurnOK, TurnMatchesLog, EventNamed
    <3>2. CASE ~turn.post
      BY <2>2, <2>3, <3>2, <2>1, TurnOver DEF Proceed, Over
    <3>3. QED
      BY <3>1, <3>2
  <2>4. CASE found # {}
    <3> DEFINE newest == NewestOf(found)
    <3>1. found \in SUBSET (1 .. Len(events))
      BY DEF EventsFor
    <3>2. newest \in found /\ \A j \in found : j <= newest
      BY <2>4, <3>1, NewestFacts
    <3>3. /\ t.event = newest
          /\ t.rule = turn.rule /\ t.post = turn.post
          /\ KeyOf(t) = KeyOf(turn)
      BY DEF TypeOK, Turns, KeyOf
    <3>4. newest \in DOMAIN events /\ newest # 0
      BY <3>1, <3>2
    <3>5. ASSUME turn.post, turn.rule \notin history.torn
          PROVE  events[newest].key = KeyOf(turn)
      <4> DEFINE mine == {i \in DOMAIN events : events[i].rule = turn.rule}
                 last == NewestOf(mine)
      <4>1. mine \in SUBSET (1 .. Len(events)) /\ found \subseteq mine
        BY DEF EventsFor
      <4>2. last \in mine /\ \A j \in mine : j <= last
        BY <2>4, <4>1, NewestFacts
      <4> HIDE DEF last
      <4>3. events[last].key = KeyOf(turn)
        <5>1. history.last[turn.rule] = KeyOf(turn)
          BY <2>2, <3>5 DEF TurnMatchesLog
        <5>2. QED
          BY <4>2, <5>1 DEF NewestIsLast
      <4>4. last \in found
        BY <4>2, <4>3 DEF EventsFor, KeyOf
      <4>5. last = newest
        BY <3>1, <3>2, <4>1, <4>2, <4>4
      <4>6. QED
        BY <4>3, <4>5
    <3> HIDE DEF found, t, newest
    <3>6. TurnOK' /\ TurnMatchesLog' /\ EventNamed'
      <4>1. CASE turn' = t /\ (stage' = "attach" \/ (stage' = "send" /\ t.post))
        <5>1. TurnOK'
          BY <2>2, <3>3, <3>4, <4>1 DEF TurnOK, KeyOf
        <5>2. TurnMatchesLog' /\ EventNamed'
          BY <2>2, <3>3, <3>4, <3>5, <4>1 DEF TurnMatchesLog, EventNamed
        <5>3. QED
          BY <5>1, <5>2
      <4>2. CASE stage' = "rules" /\ turn' = NoTurn
        BY <4>2, TurnOver
      <4>3. QED
        <5>1. \/ stage' = "attach" /\ turn' = t
              \/ Proceed(t)
          BY <2>2, <2>4
        <5>2. QED
          BY <5>1, <4>1, <4>2 DEF Proceed, Over
    <3>7. QED
      BY <2>1, <3>6
  <2>5. QED
    BY <2>1, <2>3, <2>4
<1>10. CASE AttachSnapshot
  BY <1>10 DEF AttachSnapshot, Proceed, Over, NoTurn, TurnOK, RowMatchesLog,
               DeletedAreTorn, NewestIsLast, TurnMatchesLog, EventNamed
<1>11. CASE Send
  <2>1. RowMatchesLog' /\ DeletedAreTorn' /\ NewestIsLast'
    BY <1>11 DEF Send, RowMatchesLog, DeletedAreTorn, NewestIsLast
  <2>2. CASE turn.event = 0
    BY <1>11, <2>1, <2>2, TurnOver DEF Send, Over
  <2>3. CASE turn.event # 0
    <3>1. /\ stage' = "status"
          /\ turn'.event = turn.event /\ turn'.post = turn.post
          /\ turn'.state = turn.state
          /\ stage = "send" /\ events' = events
      BY <1>11, <2>3 DEF Send, TypeOK, Turns
    <3>2. QED
      BY <2>1, <2>3, <3>1 DEF TurnOK, TurnMatchesLog, EventNamed
  <2>4. QED
    BY <2>2, <2>3
<1>12. CASE RecordStatus
  BY <1>12 DEF RecordStatus, Over, NoTurn, TurnOK, RowMatchesLog, DeletedAreTorn,
               NewestIsLast, TurnMatchesLog, EventNamed, TypeOK
<1>13. ASSUME NEW r \in Rules, FindRule(r)
       PROVE  Others'
  BY <1>13 DEF FindRule, TurnOK, RowMatchesLog, DeletedAreTorn, NewestIsLast,
               TurnMatchesLog, EventNamed
<1>14. ASSUME NEW r \in Rules, SaveRule(r)
       PROVE  Others'
  BY <1>14 DEF SaveRule, Row, TypeOK, TurnOK, RowMatchesLog, DeletedAreTorn, NewestIsLast,
               TurnMatchesLog, EventNamed
<1>15. ASSUME NEW r \in Rules, DeleteRule(r)
       PROVE  Others'
  BY <1>15 DEF DeleteRule, TypeOK, TurnOK, RowMatchesLog, DeletedAreTorn, NewestIsLast,
               TurnMatchesLog, EventNamed
<1>16. ASSUME NEW r \in Rules, SceneChanges(r)
       PROVE  Others'
  BY <1>16, Zenon DEF SceneChanges, TurnOK, RowMatchesLog, DeletedAreTorn, NewestIsLast,
               TurnMatchesLog, EventNamed, KeyOf
<1>17. ASSUME NEW i \in 1 .. Window, PruneSnapshot(i)
       PROVE  Others'
  <2>1. /\ DOMAIN events' = DOMAIN events
        /\ \A j \in DOMAIN events : 
                /\ events'[j].rule = events[j].rule
                /\ events'[j].key = events[j].key
        /\ UNCHANGED <<rules, turn, stage, history>>
    <3>1. \A j \in DOMAIN events : events[j] \in Entries
      BY ElementOfSeq DEF TypeOK
    <3>2. QED
      BY <1>17, <3>1 DEF PruneSnapshot, Entries
  <2>2. NewestIsLast'
    BY <2>1 DEF NewestIsLast
  <2>3. TurnOK' /\ EventNamed'
    BY <2>1 DEF TurnOK, EventNamed, KeyOf
  <2>4. RowMatchesLog' /\ DeletedAreTorn' /\ TurnMatchesLog'
    BY <2>1 DEF RowMatchesLog, DeletedAreTorn, TurnMatchesLog, KeyOf
  <2>5. QED
    BY <2>2, <2>3, <2>4
<1>18. CASE Tick
  BY <1>18 DEF Tick, TurnOK, RowMatchesLog, DeletedAreTorn, NewestIsLast,
               TurnMatchesLog, EventNamed
<1>19. CASE Crash
  BY <1>19 DEF Crash, NoTurn, TypeOK, TurnOK, RowMatchesLog, DeletedAreTorn, NewestIsLast,
               TurnMatchesLog, EventNamed
<1>20. CASE UNCHANGED vars
  BY <1>20 DEF vars, TurnOK, RowMatchesLog, DeletedAreTorn, NewestIsLast, TurnMatchesLog,
               EventNamed, KeyOf
<1>21. QED
  BY <1>3, <1>4, <1>5, <1>6, <1>7, <1>8, <1>9, <1>10, <1>11, <1>12, <1>13, <1>14,
     <1>15, <1>16, <1>17, <1>18, <1>19, <1>20, EventLogAssumption
     DEF Next, WorkerStep, SnapshotVanished

\* Every reachable state satisfies the invariant.
LEMMA Invariance == Spec => []IInv
<1>1. Init => IInv
  <2> SUFFICES ASSUME Init
               PROVE  IInv
    OBVIOUS
  <2>1. TypeOK
    BY TypeInit
  <2>2. TurnOK /\ RowMatchesLog /\ DeletedAreTorn /\ TurnMatchesLog /\ EventNamed
    BY DEF Init, NoTurn, TurnOK, RowMatchesLog, DeletedAreTorn, TurnMatchesLog, EventNamed
  <2>3. NewestIsLast
    BY DEF Init, NewestIsLast
  <2>4. QED
    BY <2>1, <2>2, <2>3 DEF IInv
<1>2. QED
  BY <1>1, IInvStep, PTL DEF Spec

-----------------------------------------------------------------------------
(***************************************************************************)
(* The properties, for every value of the constants.                       *)
(***************************************************************************)

\* The worker, its table of rules and its log of events stay within their types.
THEOREM TypeCorrect == Spec => []TypeOK
<1>1. IInv => TypeOK
  BY DEF IInv
<1>2. QED
  BY <1>1, Invariance, PTL

\* The dedupe key in a rule's row is that of its newest event, however the steps of the
\* worker and of the API process interleave and wherever the worker crashes, with the
\* exceptions that RowMatchesLog names.
THEOREM RowTheorem == Spec => []RowMatchesLog
<1>1. IInv => RowMatchesLog
  BY DEF IInv
<1>2. QED
  BY <1>1, Invariance, PTL

\* A webhook goes out under the id of an event that tells of the observation it carries.
THEOREM WebhookTheorem == Spec => []WebhookNamesItsEvent
<1>1. IInv => WebhookNamesItsEvent
  BY DEF IInv, TurnOK, EventNamed, WebhookNamesItsEvent
<1>2. QED
  BY <1>1, Invariance, PTL

\* create_event never logs what the newest event of the rule already says.
THEOREM NoRepeatTheorem == Spec => NoRepeatedEvent
<1>1. IInv => (stage = "create" => 
                  KeyOf(turn) # history.last[turn.rule] \/ turn.rule \in history.torn)
  BY DEF IInv, TurnMatchesLog
<1>2. IInv /\ [Next]_vars =>
        [\A r \in Rules :
            stage = "create" /\ stage' = "settle" /\ turn.rule = r =>
                KeyOf(turn) # history.last[r] \/ r \in history.torn]_vars
  BY <1>1
<1>3. QED
  BY <1>2, Invariance, PTL DEF Spec, NoRepeatedEvent
=============================================================================
