----------------------------- MODULE WorkerProofs -----------------------------
(***************************************************************************)
(* Proofs about the worker's relay cycle: for any rules, relays and forms, *)
(* the types, the order of the commands, the record that tracks the board, *)
(* and the board that follows the rules.                                   *)
(***************************************************************************)
EXTENDS Worker, RuleEvaluationProofs, FiniteSetTheorems, SequenceTheorems

-----------------------------------------------------------------------------
(***************************************************************************)
(* The inductive invariant.                                                *)
(***************************************************************************)

Issuing == {commands[i].source : i \in DOMAIN commands}

\* Between cycles nothing is left over, and rules are only evaluated before arbitration.
PhaseOK ==
    /\ pc = "idle" => commands = <<>>
    /\ pc # "rules" => todo = <<>>

\* The rules still to be evaluated are listed by falling priority, each once; no command
\* of this cycle is theirs or has a lower priority than theirs.
QueueOK ==
    /\ \A i, j \in DOMAIN todo : i <= j => todo[j].config.priority <= todo[i].config.priority
    /\ \A i, j \in DOMAIN todo : todo[i].id = todo[j].id => i = j
    /\ \A i \in DOMAIN todo : \A k \in DOMAIN commands :
        /\ commands[k].source # todo[i].id
        /\ todo[i].config.priority <= commands[k].priority

\* The commands that one rule issues in a cycle have one priority.
SameRank ==
    \A i, k \in DOMAIN commands :
        commands[i].source = commands[k].source => commands[i].priority = commands[k].priority

\* The state being recorded is the one the board was driven to.
WritingTracksBoard ==
    pc = "record" => writing \in Relays \X States /\ writing[2] = board[writing[1]]

Unexcused(r, ch, s) == Stands(r, ch, s) /\ history.excuse[r] = "none"

\* Until arbitration, what an unexcused rule stands for is on the board, or is asked for by
\* the rule's commands of this cycle.
IssuedOrShown ==
    pc \in {"idle", "rules"} /\ driver =>
        \A r \in Rules, ch \in Relays, s \in States :
            Unexcused(r, ch, s) =>
                IF r \in Issuing
                THEN \E i \in For(commands, ch) :
                        commands[i].source = r /\ commands[i].state = s
                ELSE board[ch] = s

\* After it, what an unexcused rule stands for is on the board, or is about to be put there
\* on a command of that rule.
PendingOrShown ==
    pc \in {"apply", "record"} /\ driver =>
        \A r \in Rules, ch \in Relays, s \in States :
            Unexcused(r, ch, s) =>
                IF pending[ch] = "none" THEN board[ch] = s
                ELSE pending[ch] = s /\ r \in Issuers(ch)

IInv ==
    /\ TypeOK
    /\ PhaseOK
    /\ QueueOK
    /\ SameRank
    /\ CommandsInPriorityOrder
    /\ WritingTracksBoard
    /\ RecordTracksBoard
    /\ IssuedOrShown
    /\ PendingOrShown

-----------------------------------------------------------------------------
(* What the evaluation of a configuration returns, and the commands it issues. *)

\* evaluate returns a runtime state, and actions only on entering a stable one.
LEMMA ConfigEvaluated ==
    ASSUME NEW config \in RuleConfigs, NEW rt \in Runtimes, NEW v \in Verdicts
    PROVE  LET result == Evaluate(config, rt, v)
           IN  /\ result \in [runtime : Runtimes, fires : BOOLEAN]
               /\ result.fires => result.runtime.state \in Stable
<1>1. Timing(config) \in TimingConfigs
  BY DEF RuleConfigs, Timing, TimingConfigs
<1>2. Evaluate(config, rt, v) = Evaluate(Timing(config), rt, v)
  BY OnlyTimingMatters
<1>3. QED
  BY <1>1, <1>2, EvaluateFacts

\* A clock unit leaves a runtime state in the state it was in.
LEMMA AgedRuntime == \A rt \in Runtimes : Aged(rt) \in Runtimes /\ Aged(rt).state = rt.state
BY OlderFacts DEF Aged, Runtimes

\* A restarted engine stands in no stable state.
LEMMA NewFacts == NewRuntime \in Runtimes /\ NewRuntime.state \notin Stable
BY DEF NewRuntime, Runtimes, RuleStates, Stable, Targets, Times, NoTime

\* The commands of a rule are those of its action list, under its name and priority.
LEMMA IssueFacts ==
    ASSUME NEW r \in Rules, NEW config \in RuleConfigs, NEW state \in Stable
    PROVE  LET issued == Issue(r, config, state)
               list   == config.actions[state]
           IN  /\ issued \in Seq(Commands)
               /\ DOMAIN issued = DOMAIN list
               /\ \A i \in DOMAIN list :
                    /\ issued[i].channel = list[i].channel
                    /\ issued[i].state = list[i].state
                    /\ issued[i].source = r
                    /\ issued[i].priority = config.priority
<1> DEFINE issued == Issue(r, config, state)
           list   == config.actions[state]
<1>1. /\ list \in Seq(RelayActions)
      /\ config.priority \in Int
  BY DEF RuleConfigs
<1>2. /\ Len(list) \in Nat
      /\ DOMAIN list = 1 .. Len(list)
      /\ \A i \in 1 .. Len(list) : list[i] \in RelayActions
  BY <1>1
<1>3. issued = [i \in 1 .. Len(list) |->
                  [channel |-> list[i].channel, state |-> list[i].state,
                   source |-> r, priority |-> config.priority]]
  BY <1>2 DEF Issue
<1> HIDE DEF list, issued
<1>4. \A i \in 1 .. Len(list) : /\ issued[i] \in Commands
                                /\ issued[i].channel = list[i].channel
                                /\ issued[i].state = list[i].state
                                /\ issued[i].source = r
                                /\ issued[i].priority = config.priority
  BY <1>1, <1>2, <1>3, WorkerAssumption DEF Commands, RelayActions
<1>5. issued \in Seq(Commands) /\ DOMAIN issued = 1 .. Len(list)
  BY <1>2, <1>3, <1>4
<1>6. QED
  BY <1>2, <1>4, <1>5 DEF list, issued

-----------------------------------------------------------------------------
(* The invariant is inductive: one lemma for each step that takes more than a leaf. *)

\* Excusing rules gives those that stand in a stable state the excuse, and changes
\* nothing else.
LEMMA ExcusedFacts ==
    ASSUME TypeOK, NEW rs, NEW why \in Excuses
    PROVE  LET new == Excused(rs, why)
           IN  /\ new \in [excuse : [Rules -> Excuses], doubt : SUBSET Relays]
               /\ new.doubt = history.doubt
               /\ \A r \in Rules :
                    new.excuse[r] = IF r \in rs /\ engine[r].state \in Stable THEN why
                                    ELSE history.excuse[r]
BY DEF TypeOK, Excused

\* Only an evaluation can make a rule stand, without an excuse, for something new.
LEMMA NothingNewStands ==
    ASSUME IInv, [Next]_vars, ~EvaluateNext
    PROVE  \A r \in Rules, ch \in Relays, s \in States :
                Unexcused(r, ch, s)' => Unexcused(r, ch, s)
<1> USE DEF db, cycle
<1> SUFFICES ASSUME NEW q \in Rules, NEW relay \in Relays, NEW s \in States,
                    Unexcused(q, relay, s)'
             PROVE  Unexcused(q, relay, s)
  OBVIOUS
<1>1. TypeOK
  BY DEF IInv
<1>2. CASE BeginCycle
  BY <1>1, <1>2, NewFacts DEF BeginCycle, TypeOK, Unexcused, Stands
<1>3. CASE Refuse
  BY <1>1, <1>3, ExcusedFacts DEF Refuse, Unexcused, Stands, Excuses
<1>4. CASE Arbitrate
  BY <1>1, <1>4, ExcusedFacts DEF Arbitrate, Unexcused, Stands, Excuses
<1>5. ASSUME NEW ch \in Channels, SkipUnknown(ch) \/ SetChannel(ch) \/ DryRun(ch)
      PROVE  Unexcused(q, relay, s)
  BY <1>5 DEF SkipUnknown, SetChannel, DryRun, Unexcused, Stands
<1>6. ASSUME NEW ch \in Channels, DriverFails(ch)
      PROVE  Unexcused(q, relay, s)
  <2>1. history'.excuse = Excused(Issuers(ch), "lost").excuse
    BY <1>1, <1>6, ExcusedFacts DEF DriverFails, Excuses
  <2>2. QED
    BY <1>1, <1>6, <2>1, ExcusedFacts DEF DriverFails, Unexcused, Stands, Excuses
<1>7. CASE RecordState
  BY <1>1, <1>7 DEF RecordState, TypeOK, Unexcused, Stands
<1>8. CASE EndCycle
  BY <1>8 DEF EndCycle, Unexcused, Stands
<1>9. CASE Sleep
  BY <1>1, <1>9, AgedRuntime DEF Sleep, TypeOK, Unexcused, Stands
<1>10. CASE Crash
  BY <1>10, NewFacts DEF Crash, Unexcused, Stands
<1>11. ASSUME NEW r \in Rules, SaveRule(r)
       PROVE  Unexcused(q, relay, s)
  <2>1. /\ history' = Excused({r}, "edited")
        /\ engine' = engine
        /\ \A p \in DOMAIN rules : p # r => rules'[p] = rules[p]
        /\ DOMAIN rules' = DOMAIN rules \cup {r}
    BY <1>11 DEF SaveRule
  <2>2. QED
    BY <1>1, <2>1, ExcusedFacts DEF Unexcused, Stands, Excuses
<1>12. ASSUME NEW r \in Rules, DeleteRule(r)
       PROVE  Unexcused(q, relay, s)
  BY <1>12 DEF DeleteRule, Unexcused, Stands
<1>13. ASSUME NEW ch \in Tested, TestRelay(ch)
       PROVE  Unexcused(q, relay, s)
  BY <1>1, <1>13 DEF TestRelay, TypeOK, Unexcused, Stands
<1>14. CASE UNCHANGED vars
  BY <1>14 DEF vars, Unexcused, Stands
<1>15. QED
  BY <1>2, <1>3, <1>4, <1>5, <1>6, <1>7, <1>8, <1>9, <1>10, <1>11, <1>12, <1>13, <1>14
     DEF Next, Cycle, Api

\* list_rules: every rule of the table once, by falling priority.
LEMMA BeginCycleKeeps ==
    ASSUME IInv, [Next]_vars, BeginCycle
    PROVE  IInv'
<1> USE DEF db, cycle
<1>1. TypeOK /\ pc = "idle" /\ pc' = "rules" /\ commands = <<>>
  BY DEF IInv, PhaseOK, BeginCycle
<1>2. DOMAIN rules \subseteq Rules /\ Cardinality(DOMAIN rules) \in Nat
  BY <1>1, WorkerAssumption, FS_Subset, FS_CardinalityType DEF TypeOK
<1> DEFINE n == Cardinality(DOMAIN rules)
<1>3. PICK order \in [1 .. n -> DOMAIN rules] :
        /\ Listed(rules, order)
        /\ todo' = [i \in DOMAIN order |-> [id |-> order[i], config |-> rules[order[i]]]]
  BY DEF BeginCycle
<1> HIDE DEF n
<1>4. /\ \A i, j \in 1 .. n : i # j => order[i] # order[j]
      /\ \A i, j \in 1 .. n : i <= j => rules[order[j]].priority <= rules[order[i]].priority
      /\ DOMAIN order = 1 .. n /\ n \in Nat
  BY <1>2, <1>3 DEF Listed, SetToSeqs, n
<1>5. \A i \in 1 .. n : order[i] \in Rules /\ rules[order[i]] \in RuleConfigs
  BY <1>1, <1>2, <1>3, WorkerAssumption DEF TypeOK
<1>6. /\ DOMAIN todo' = 1 .. n
      /\ \A i \in 1 .. n : /\ todo'[i] \in [id : Rules, config : RuleConfigs]
                           /\ todo'[i].id = order[i]
                           /\ todo'[i].config = rules[order[i]]
      /\ todo' \in Seq([id : Rules, config : RuleConfigs])
  BY <1>3, <1>4, <1>5
<1>7. TypeOK'
  <2>1. engine' \in [Rules -> Runtimes]
    BY <1>1, NewFacts DEF BeginCycle, TypeOK
  <2>2. history' \in [excuse : [Rules -> Excuses], doubt : SUBSET Relays]
    BY <1>1 DEF BeginCycle, TypeOK, Excuses
  <2>3. QED
    BY <1>1, <1>6, <2>1, <2>2 DEF BeginCycle, TypeOK
<1>8. /\ commands' = <<>> /\ DOMAIN commands' = {}
      /\ pc' = "rules"
  BY <1>1 DEF BeginCycle
<1>9. QueueOK'
  BY <1>4, <1>6, <1>8 DEF QueueOK
<1>10. PhaseOK' /\ SameRank' /\ CommandsInPriorityOrder'
  BY <1>8 DEF PhaseOK, SameRank, CommandsInPriorityOrder, Sorted
<1>11. WritingTracksBoard' /\ RecordTracksBoard'
  BY <1>1, <1>8 DEF BeginCycle, IInv, TypeOK, WritingTracksBoard, RecordTracksBoard
<1>12. IssuedOrShown'
  <2>1. Issuing' = {} /\ Issuing = {}
    BY <1>1, <1>8 DEF Issuing
  <2>2. \A r \in Rules, ch \in Relays, s \in States :
            Unexcused(r, ch, s)' => Unexcused(r, ch, s)
    BY <1>1, NothingNewStands DEF EvaluateNext
  <2>3. driver' = driver /\ board' = board
    BY DEF BeginCycle
  <2>4. QED
    BY <1>1, <2>1, <2>2, <2>3 DEF IInv, IssuedOrShown
<1>13. PendingOrShown'
  BY <1>8 DEF PendingOrShown
<1>14. QED
  BY <1>7, <1>9, <1>10, <1>11, <1>12, <1>13 DEF IInv

\* The evaluation of the rule at the head of the list.
LEMMA EvaluateNextKeeps ==
    ASSUME IInv, EvaluateNext
    PROVE  IInv'
<1> USE DEF db, cycle
<1>1. /\ TypeOK /\ QueueOK /\ SameRank /\ CommandsInPriorityOrder
      /\ pc = "rules" /\ todo # <<>>
      /\ todo' = Tail(todo)
      /\ UNCHANGED <<rules, recorded, board, driver, pc, pending, writing>>
  BY DEF IInv, EvaluateNext
<1> DEFINE r      == Head(todo).id
           config == Head(todo).config
<1>2. PICK v \in Verdicts :
        LET result == Evaluate(config, engine[r], v)
        IN  /\ engine' = [engine EXCEPT ![r] = result.runtime]
            /\ commands' = commands \o
                 (IF result.fires THEN Issue(r, config, result.runtime.state) ELSE <<>>)
            /\ history' = [history EXCEPT
                    !.excuse[r] = ExcuseAfter(r, config, engine[r], result)]
  BY DEF EvaluateNext
<1> DEFINE result == Evaluate(config, engine[r], v)
           issued == IF result.fires THEN Issue(r, config, result.runtime.state) ELSE <<>>
           asked  == config.actions[result.runtime.state]
           n      == Len(commands)
<1>3. /\ todo[1] = Head(todo) /\ 1 \in DOMAIN todo
      /\ r \in Rules /\ config \in RuleConfigs
      /\ todo' \in Seq([id : Rules, config : RuleConfigs])
      /\ DOMAIN todo' = 1 .. Len(todo) - 1 /\ DOMAIN todo = 1 .. Len(todo)
      /\ \A i \in DOMAIN todo' : todo'[i] = todo[i + 1]
      /\ Len(todo) \in Nat \ {0}
  <2>1. /\ todo \in Seq([id : Rules, config : RuleConfigs])
        /\ Len(todo) \in Nat \ {0}
        /\ DOMAIN todo = 1 .. Len(todo)
    BY <1>1, EmptySeq, LenProperties DEF TypeOK
  <2>2. /\ todo' \in Seq([id : Rules, config : RuleConfigs])
        /\ Len(todo') = Len(todo) - 1
        /\ \A i \in 1 .. Len(todo') : todo'[i] = todo[i + 1]
        /\ Head(todo) \in [id : Rules, config : RuleConfigs]
    BY <1>1, <2>1, HeadTailProperties
  <2>3. QED
    BY <2>1, <2>2, LenProperties
<1>4. /\ result \in [runtime : Runtimes, fires : BOOLEAN]
      /\ result.fires => result.runtime.state \in Stable
      /\ engine[r] \in Runtimes
  BY <1>1, <1>3, ConfigEvaluated DEF TypeOK
<1>5. /\ engine' = [engine EXCEPT ![r] = result.runtime]
      /\ commands' = commands \o issued
      /\ history' = [history EXCEPT !.excuse[r] =
                        ExcuseAfter(r, config, engine[r], result)]
  BY <1>2
<1> HIDE DEF r, config, result
<1>6. /\ issued \in Seq(Commands)
      /\ \A i \in DOMAIN issued : issued[i].source = r /\ issued[i].priority = config.priority
      /\ result.fires => /\ DOMAIN issued = DOMAIN asked
                         /\ \A i \in DOMAIN asked : /\ issued[i].channel = asked[i].channel
                                                    /\ issued[i].state = asked[i].state
      /\ ~result.fires => issued = <<>>
  <2>1. CASE result.fires
    BY <2>1, <1>3, <1>4, IssueFacts
  <2>2. CASE ~result.fires
    BY <2>2, EmptySeq
  <2>3. QED
    BY <2>1, <2>2
<1> HIDE DEF issued, asked
<1>7. /\ commands' \in Seq(Commands)
      /\ DOMAIN commands = 1 .. n /\ n \in Nat
      /\ DOMAIN issued = 1 .. Len(issued) /\ Len(issued) \in Nat
      /\ DOMAIN commands' = 1 .. n + Len(issued)
      /\ \A i \in 1 .. n + Len(issued) :
            commands'[i] = IF i <= n THEN commands[i] ELSE issued[i - n]
  <2>1. commands \in Seq(Commands)
    BY <1>1 DEF TypeOK
  <2>2. QED
    BY <2>1, <1>5, <1>6, ConcatProperties, LenProperties
<1> HIDE DEF n
<1>8. /\ \A k \in DOMAIN commands : k \in DOMAIN commands' /\ commands'[k] = commands[k]
      /\ \A k \in DOMAIN commands' \ DOMAIN commands :
            /\ k > n
            /\ commands'[k].source = r /\ commands'[k].priority = config.priority
      /\ result.fires => \A i \in DOMAIN asked :
            /\ n + i \in DOMAIN commands'
            /\ commands'[n + i].channel = asked[i].channel
            /\ commands'[n + i].state = asked[i].state
            /\ commands'[n + i].source = r
      /\ ~result.fires => DOMAIN commands' = DOMAIN commands
  <2>1. \A k \in DOMAIN commands : k \in DOMAIN commands' /\ commands'[k] = commands[k]
    BY <1>7
  <2>2. ASSUME NEW k \in DOMAIN commands' \ DOMAIN commands
        PROVE  /\ k > n
               /\ commands'[k].source = r /\ commands'[k].priority = config.priority
    <3>1. k > n /\ k - n \in DOMAIN issued /\ commands'[k] = issued[k - n]
      BY <1>7
    <3>2. QED
      BY <3>1, <1>6
  <2>3. ASSUME result.fires, NEW i \in DOMAIN asked
        PROVE  /\ n + i \in DOMAIN commands'
               /\ commands'[n + i].channel = asked[i].channel
               /\ commands'[n + i].state = asked[i].state
               /\ commands'[n + i].source = r
    <3>1. i \in DOMAIN issued /\ i \in 1 .. Len(issued)
      BY <2>3, <1>6, <1>7
    <3>2. n + i \in 1 .. n + Len(issued) /\ ~(n + i <= n) /\ (n + i) - n = i
      BY <3>1, <1>7
    <3>3. n + i \in DOMAIN commands' /\ commands'[n + i] = issued[i]
      BY <3>2, <1>7
    <3>4. QED
      BY <2>3, <3>1, <3>3, <1>6
  <2>4. ~result.fires => DOMAIN commands' = DOMAIN commands
    BY <1>6, <1>7
  <2>5. QED
    BY <2>1, <2>2, <2>3, <2>4
<1>9. /\ config.priority \in Int
      /\ \A k \in DOMAIN commands : commands[k].priority \in Int
      /\ \A i \in DOMAIN todo : todo[i].config.priority \in Int
      /\ \A k \in DOMAIN commands : /\ commands[k].source # r
                                    /\ config.priority <= commands[k].priority
      /\ \A i \in DOMAIN todo : todo[i].config.priority <= config.priority
      /\ \A i \in DOMAIN todo : i # 1 => todo[i].id # r
  <2>1. todo[1].id = r /\ todo[1].config = config
    BY <1>3 DEF r, config
  <2>2. /\ \A k \in DOMAIN commands : commands[k] \in Commands
        /\ \A i \in DOMAIN todo : todo[i] \in [id : Rules, config : RuleConfigs]
    <3>1. /\ commands \in Seq(Commands) /\ todo \in Seq([id : Rules, config : RuleConfigs])
      BY <1>1 DEF TypeOK
    <3>2. QED
      BY <3>1, ElementOfSeq, LenProperties
  <2>3. /\ config.priority \in Int
        /\ \A k \in DOMAIN commands : commands[k].priority \in Int
        /\ \A i \in DOMAIN todo : todo[i].config.priority \in Int
    BY <1>3, <2>2 DEF Commands, RuleConfigs
  <2>4. \A i \in DOMAIN todo : 1 <= i
    BY <1>3
  <2>5. QED
    BY <1>1, <1>3, <2>1, <2>3, <2>4 DEF QueueOK
<1>10. TypeOK'
  <2>1. engine' \in [Rules -> Runtimes]
    BY <1>1, <1>3, <1>4, <1>5 DEF TypeOK
  <2>2. ExcuseAfter(r, config, engine[r], result) \in Excuses
    BY <1>1, <1>3 DEF ExcuseAfter, TypeOK, Excuses
  <2>3. history' \in [excuse : [Rules -> Excuses], doubt : SUBSET Relays]
    BY <1>1, <1>3, <1>5, <2>2 DEF TypeOK
  <2>4. QED
    BY <1>1, <1>3, <1>7, <2>1, <2>3 DEF TypeOK
<1>11. PhaseOK' /\ WritingTracksBoard' /\ PendingOrShown'
  BY <1>1 DEF PhaseOK, WritingTracksBoard, PendingOrShown
<1>12. QueueOK'
  <2>1. \A i \in DOMAIN todo' : /\ i + 1 \in DOMAIN todo
                                /\ todo'[i] = todo[i + 1]
                                /\ i + 1 # 1
    BY <1>3
  <2>2. ASSUME NEW i \in DOMAIN todo', NEW j \in DOMAIN todo'
        PROVE  /\ i <= j => todo'[j].config.priority <= todo'[i].config.priority
               /\ todo'[i].id = todo'[j].id => i = j
    <3>1. i \in Int /\ j \in Int
      BY <1>3
    <3>2. /\ i + 1 <= j + 1 => todo[j + 1].config.priority <= todo[i + 1].config.priority
          /\ todo[i + 1].id = todo[j + 1].id => i + 1 = j + 1
      BY <1>1, <2>1 DEF QueueOK
    <3>3. QED
      BY <2>1, <3>1, <3>2
  <2>3. ASSUME NEW i \in DOMAIN todo', NEW k \in DOMAIN commands'
        PROVE  /\ commands'[k].source # todo'[i].id
               /\ todo'[i].config.priority <= commands'[k].priority
    <3>1. CASE k \in DOMAIN commands
      BY <1>1, <1>8, <2>1, <3>1 DEF QueueOK
    <3>2. CASE k \notin DOMAIN commands
      BY <1>8, <1>9, <2>1, <3>2
    <3>3. QED
      BY <3>1, <3>2
  <2>4. QED
    BY <2>2, <2>3 DEF QueueOK
<1>13. SameRank'
  <2>1. SUFFICES ASSUME NEW i \in DOMAIN commands', NEW k \in DOMAIN commands',
                        commands'[i].source = commands'[k].source
                 PROVE  commands'[i].priority = commands'[k].priority
    BY DEF SameRank
  <2>2. CASE i \in DOMAIN commands /\ k \in DOMAIN commands
    BY <1>1, <1>8, <2>1, <2>2 DEF SameRank
  <2>3. CASE i \notin DOMAIN commands /\ k \notin DOMAIN commands
    BY <1>8, <2>3
  <2>4. QED
    BY <1>8, <1>9, <2>1, <2>2, <2>3
<1>14. CommandsInPriorityOrder'
  <2>1. SUFFICES ASSUME NEW i \in DOMAIN commands', NEW j \in DOMAIN commands', i <= j
                 PROVE  commands'[j].priority <= commands'[i].priority
    BY DEF CommandsInPriorityOrder, Sorted
  <2>2. CASE j \in DOMAIN commands
    <3>1. i \in DOMAIN commands
      BY <1>7, <2>1, <2>2
    <3>2. QED
      BY <1>1, <1>8, <2>1, <2>2, <3>1 DEF CommandsInPriorityOrder, Sorted
  <2>3. CASE j \notin DOMAIN commands
    BY <1>8, <1>9, <2>3
  <2>4. QED
    BY <2>2, <2>3
<1>15. RecordTracksBoard'
  <2>1. history'.doubt = history.doubt
    BY <1>1, <1>5 DEF TypeOK
  <2>2. QED
    BY <1>1, <2>1 DEF IInv, RecordTracksBoard
<1>16. IssuedOrShown'
  <2>1. SUFFICES ASSUME driver,
                        NEW q \in Rules, NEW ch \in Relays, NEW s \in States,
                        Unexcused(q, ch, s)'
                 PROVE  IF q \in Issuing'
                        THEN \E i \in For(commands', ch) :
                                commands'[i].source = q /\ commands'[i].state = s
                        ELSE board[ch] = s
    BY <1>1 DEF IssuedOrShown
  <2>2. CASE q # r
    <3>1. Unexcused(q, ch, s)
      BY <1>1, <1>5, <2>1, <2>2 DEF Unexcused, Stands, TypeOK
    <3>2. q \in Issuing <=> q \in Issuing'
      BY <1>8, <2>2 DEF Issuing
    <3>3. For(commands, ch) \subseteq For(commands', ch)
      BY <1>8 DEF For
    <3>4. IF q \in Issuing
          THEN \E i \in For(commands, ch) :
                    commands[i].source = q /\ commands[i].state = s
          ELSE board[ch] = s
      BY <1>1, <2>1, <3>1 DEF IInv, IssuedOrShown
    <3>5. QED
      BY <1>8, <3>2, <3>3, <3>4 DEF For
  <2>3. CASE q = r
    <3>1. /\ engine'[r] = result.runtime
          /\ history'.excuse[r] = ExcuseAfter(r, config, engine[r], result)
      BY <1>1, <1>3, <1>5 DEF TypeOK
    <3>2. /\ ExcuseAfter(r, config, engine[r], result) = "none"
          /\ r \in DOMAIN rules
          /\ result.runtime.state \in Stable
          /\ \E i \in DOMAIN rules[r].actions[result.runtime.state] :
                rules[r].actions[result.runtime.state][i] = [channel |-> ch, state |-> s]
      BY <1>1, <2>1, <2>3, <3>1 DEF Unexcused, Stands
    <3>3. CASE result.fires
      <4>1. rules[r] = config
        BY <3>2, <3>3 DEF ExcuseAfter
      <4>2. PICK i \in DOMAIN asked : asked[i] = [channel |-> ch, state |-> s]
        BY <3>2, <4>1 DEF asked
      <4>3. /\ n + i \in DOMAIN commands'
            /\ commands'[n + i].channel = ch
            /\ commands'[n + i].state = s
            /\ commands'[n + i].source = r
        BY <1>8, <3>3, <4>2
      <4>4. QED
        BY <2>3, <4>3 DEF Issuing, For
    <3>4. CASE ~result.fires
      <4>1. result.runtime.state = engine[r].state /\ history.excuse[r] = "none"
        BY <3>2, <3>4 DEF ExcuseAfter
      <4>2. Unexcused(r, ch, s)
        BY <3>2, <4>1 DEF Unexcused, Stands
      <4>3. r \notin Issuing /\ r \notin Issuing'
        BY <1>8, <1>9, <3>4 DEF Issuing
      <4>4. board[ch] = s
        BY <1>1, <1>3, <2>1, <4>2, <4>3 DEF IInv, IssuedOrShown
      <4>5. QED
        BY <2>3, <4>3, <4>4
    <3>5. QED
      BY <1>4, <3>3, <3>4
  <2>4. QED
    BY <2>2, <2>3
<1>17. QED
  BY <1>10, <1>11, <1>12, <1>13, <1>14, <1>15, <1>16 DEF IInv

\* Every other step.
LEMMA OthersKeep ==
    ASSUME IInv, [Next]_vars, ~BeginCycle, ~EvaluateNext
    PROVE  IInv'
<1> DEFINE Order == /\ PhaseOK /\ QueueOK /\ SameRank /\ CommandsInPriorityOrder
                    /\ WritingTracksBoard /\ RecordTracksBoard
<1> USE DEF db, cycle
<1>1. /\ TypeOK /\ PhaseOK /\ QueueOK /\ SameRank /\ CommandsInPriorityOrder
      /\ WritingTracksBoard /\ RecordTracksBoard /\ IssuedOrShown /\ PendingOrShown
  BY DEF IInv
<1>2. \A r \in Rules, ch \in Relays, s \in States :
        Unexcused(r, ch, s)' => Unexcused(r, ch, s)
  BY NothingNewStands
<1>3. <<>> \in Seq(Commands) /\ <<>> \in Seq([id : Rules, config : RuleConfigs])
      /\ DOMAIN <<>> = {}
  BY EmptySeq
<1> USE <1>1
<1>4. CASE Refuse
  <2>1. TypeOK'
    BY <1>3, <1>4, ExcusedFacts DEF Refuse, TypeOK, Excuses
  <2>2. Order'
    BY <1>4 DEF Refuse, TypeOK, Sorted, PhaseOK, QueueOK, SameRank, CommandsInPriorityOrder,
       WritingTracksBoard, RecordTracksBoard, Excused
  <2>3. IssuedOrShown' /\ PendingOrShown'
    <3>1. SUFFICES ASSUME driver, NEW q \in Rules, NEW relay \in Relays, NEW s \in States,
                          Unexcused(q, relay, s)'
                   PROVE  q \notin Issuing' /\ board'[relay] = s
      BY <1>4 DEF Refuse, IssuedOrShown, PendingOrShown
    <3>2. q \notin Issuing
      <4>1. /\ engine'[q].state \in Stable /\ history'.excuse[q] = "none"
            /\ history' = Excused(Issuing, "lost") /\ engine' = engine
        BY <1>4, <3>1 DEF Refuse, Issuing, Unexcused, Stands
      <4>2. QED
        BY <4>1, ExcusedFacts DEF Excuses
    <3>3. board[relay] = s
      BY <1>2, <1>4, <3>1, <3>2 DEF Refuse, IssuedOrShown
    <3>4. QED
      BY <1>3, <1>4, <3>3 DEF Refuse, Issuing
  <2>4. QED
    BY <2>1, <2>2, <2>3 DEF IInv
<1>5. CASE Arbitrate
  <2>1. TypeOK'
    BY <1>5, ExcusedFacts DEF Arbitrate, TypeOK, Excuses
  <2>2. Order'
    BY <1>5 DEF Arbitrate, TypeOK, Sorted, PhaseOK, QueueOK, SameRank, CommandsInPriorityOrder,
       WritingTracksBoard, RecordTracksBoard, Excused
  <2>3. IssuedOrShown' /\ PendingOrShown'
    <3>1. PICK result \in [Channels -> States \cup {"none"}] :
                /\ IsVerdict(commands, result)
                /\ pending' = result
                /\ history' = Excused(Overridden(result), "overridden")
      BY <1>5 DEF Arbitrate
    <3>2. SUFFICES ASSUME driver, NEW q \in Rules, NEW relay \in Relays, NEW s \in States,
                          Unexcused(q, relay, s)'
                   PROVE  IF result[relay] = "none" THEN board[relay] = s
                          ELSE result[relay] = s /\ q \in Issuers(relay)
      BY <1>5, <3>1 DEF Arbitrate, IssuedOrShown, PendingOrShown, Issuers
    <3>3. /\ Unexcused(q, relay, s)
          /\ relay \in Channels
          /\ IF q \in Issuing
             THEN \E i \in For(commands, relay) :
                    commands[i].source = q /\ commands[i].state = s
             ELSE board[relay] = s
      BY <1>2, <1>5, <3>2, WorkerAssumption DEF Arbitrate, IssuedOrShown
    <3>4. CASE result[relay] = "none"
      BY <3>1, <3>3, <3>4 DEF IsVerdict
    <3>5. CASE result[relay] # "none"
      <4>1. q \notin Overridden(result)
        <5>1. /\ engine'[q].state \in Stable /\ history'.excuse[q] = "none"
              /\ engine' = engine
          BY <1>5, <3>2 DEF Arbitrate, Unexcused, Stands
        <5>2. QED
          BY <3>1, <5>1, ExcusedFacts DEF Excuses
      <4>2. PICK k \in Top(commands, relay) : commands[k].source = q
        BY <3>3, <3>5, <4>1 DEF Overridden, Unexcused, Stands
      <4>3. k \in For(commands, relay) /\ q \in Issuing /\ q \in Issuers(relay)
        BY <4>2 DEF Top, For, Issuing, Issuers
      <4>4. PICK i \in For(commands, relay) : commands[i].source = q /\ commands[i].state = s
        BY <3>3, <4>3
      <4>5. commands[i].priority = commands[k].priority
        BY <4>2, <4>3, <4>4 DEF SameRank, For
      <4>6. i \in Top(commands, relay)
        BY <4>2, <4>4, <4>5 DEF Top
      <4>7. result[relay] = s
        BY <3>1, <3>3, <4>4, <4>6 DEF IsVerdict
      <4>8. QED
        BY <3>5, <4>3, <4>7
    <3>6. QED
      BY <3>4, <3>5
  <2>4. QED
    BY <2>1, <2>2, <2>3 DEF IInv
<1>6. ASSUME NEW ch \in Channels, SkipUnknown(ch)
      PROVE  IInv'
  <2>1. TypeOK'
    BY <1>6 DEF SkipUnknown, TypeOK
  <2>2. Order'
    BY <1>6 DEF SkipUnknown, TypeOK, Sorted, PhaseOK, QueueOK, SameRank, CommandsInPriorityOrder,
       WritingTracksBoard, RecordTracksBoard
  <2>3. IssuedOrShown' /\ PendingOrShown'
    BY <1>2, <1>6 DEF SkipUnknown, TypeOK, IssuedOrShown, PendingOrShown, Issuers, For
  <2>4. QED
    BY <2>1, <2>2, <2>3 DEF IInv
<1>7. ASSUME NEW ch \in Channels, SetChannel(ch)
      PROVE  IInv'
  <2>1. TypeOK'
    BY <1>7 DEF SetChannel, ToApply, TypeOK
  <2>2. Order'
    BY <1>7 DEF SetChannel, TypeOK, Sorted, PhaseOK, QueueOK, SameRank, CommandsInPriorityOrder,
       WritingTracksBoard, RecordTracksBoard, ToApply
  <2>3. IssuedOrShown' /\ PendingOrShown'
    BY <1>2, <1>7 DEF SetChannel, ToApply, TypeOK, IssuedOrShown, PendingOrShown,
                      Issuers, For
  <2>4. QED
    BY <2>1, <2>2, <2>3 DEF IInv
<1>8. ASSUME NEW ch \in Channels, DriverFails(ch)
      PROVE  IInv'
  <2>1. TypeOK'
    <3>1. /\ ch \in Relays /\ pending[ch] \in States
          /\ history' = [Excused(Issuers(ch), "lost") EXCEPT !.doubt =
                IF board'[ch] = recorded[ch] THEN @ \ {ch} ELSE @ \cup {ch}]
      BY <1>8 DEF DriverFails, ToApply, TypeOK
    <3>2. history' \in [excuse : [Rules -> Excuses], doubt : SUBSET Relays]
      BY <3>1, ExcusedFacts DEF Excuses
    <3>3. QED
      BY <1>8, <3>1, <3>2 DEF DriverFails, TypeOK
  <2>2. Order'
    BY <1>8 DEF DriverFails, TypeOK, Sorted, PhaseOK, QueueOK, SameRank, CommandsInPriorityOrder,
       WritingTracksBoard, RecordTracksBoard, ToApply, Excused
  <2>3. IssuedOrShown' /\ PendingOrShown'
    <3>1. SUFFICES ASSUME driver, NEW q \in Rules, NEW relay \in Relays, NEW s \in States,
                          Unexcused(q, relay, s)'
                   PROVE  IF pending'[relay] = "none" THEN board'[relay] = s
                          ELSE pending'[relay] = s /\ q \in Issuers(relay)
      BY <1>8 DEF DriverFails, IssuedOrShown, PendingOrShown, Issuers, For
    <3>2. IF pending[relay] = "none" THEN board[relay] = s
          ELSE pending[relay] = s /\ q \in Issuers(relay)
      BY <1>2, <1>8, <3>1 DEF DriverFails, PendingOrShown
    <3>3. CASE relay # ch
      BY <1>8, <3>2, <3>3 DEF DriverFails, TypeOK
    <3>4. CASE relay = ch
      <4>1. q \in Issuers(ch)
        BY <1>8, <3>2, <3>4 DEF DriverFails, ToApply
      <4>2. /\ history'.excuse = Excused(Issuers(ch), "lost").excuse
            /\ engine'[q].state \in Stable /\ history'.excuse[q] = "none"
            /\ engine' = engine
        BY <1>8, <3>1, ExcusedFacts DEF DriverFails, Unexcused, Stands, Excuses
      <4>3. QED
        BY <4>1, <4>2, ExcusedFacts DEF Excuses
    <3>5. QED
      BY <3>3, <3>4
  <2>4. QED
    BY <2>1, <2>2, <2>3 DEF IInv
<1>9. ASSUME NEW ch \in Channels, DryRun(ch)
      PROVE  IInv'
  <2>1. TypeOK'
    BY <1>9 DEF DryRun, ToApply, TypeOK
  <2>2. Order'
    BY <1>9 DEF DryRun, TypeOK, Sorted, PhaseOK, QueueOK, SameRank, CommandsInPriorityOrder,
       WritingTracksBoard, RecordTracksBoard, ToApply
  <2>3. IssuedOrShown' /\ PendingOrShown'
    BY <1>9 DEF DryRun, IssuedOrShown, PendingOrShown
  <2>4. QED
    BY <2>1, <2>2, <2>3 DEF IInv
<1>10. CASE RecordState
  <2>1. TypeOK'
    BY <1>10 DEF RecordState, WritingTracksBoard, TypeOK
  <2>2. Order'
    BY <1>10 DEF RecordState, TypeOK, Sorted, PhaseOK, QueueOK, SameRank, CommandsInPriorityOrder,
       WritingTracksBoard, RecordTracksBoard
  <2>3. IssuedOrShown' /\ PendingOrShown'
    BY <1>2, <1>10 DEF RecordState, IssuedOrShown, PendingOrShown, Issuers, For
  <2>4. QED
    BY <2>1, <2>2, <2>3 DEF IInv
<1>11. CASE EndCycle
  <2>1. TypeOK'
    BY <1>3, <1>11 DEF EndCycle, TypeOK
  <2>2. Order'
    BY <1>11 DEF EndCycle, TypeOK, Sorted, PhaseOK, QueueOK, SameRank, CommandsInPriorityOrder,
       WritingTracksBoard, RecordTracksBoard
  <2>3. IssuedOrShown' /\ PendingOrShown'
    <3>1. \A relay \in Relays : pending[relay] = "none"
      BY <1>11, WorkerAssumption DEF EndCycle, ToApply
    <3>2. Issuing' = {}
      BY <1>3, <1>11 DEF EndCycle, Issuing
    <3>3. QED
      BY <1>2, <1>11, <3>1, <3>2 DEF EndCycle, IssuedOrShown, PendingOrShown
  <2>4. QED
    BY <2>1, <2>2, <2>3 DEF IInv
<1>12. CASE Sleep
  <2>1. TypeOK'
    BY <1>12, AgedRuntime DEF Sleep, TypeOK
  <2>2. Order'
    BY <1>12 DEF Sleep, TypeOK, Sorted, PhaseOK, QueueOK, SameRank, CommandsInPriorityOrder,
       WritingTracksBoard, RecordTracksBoard
  <2>3. IssuedOrShown' /\ PendingOrShown'
    BY <1>2, <1>12 DEF Sleep, IssuedOrShown, PendingOrShown, Issuing, For
  <2>4. QED
    BY <2>1, <2>2, <2>3 DEF IInv
<1>13. CASE Crash
  <2>1. TypeOK'
    BY <1>3, <1>13, NewFacts DEF Crash, NoStates, TypeOK, Excuses
  <2>2. Order'
    BY <1>13 DEF Crash, TypeOK, Sorted, PhaseOK, QueueOK, SameRank, CommandsInPriorityOrder,
       WritingTracksBoard, RecordTracksBoard
  <2>3. IssuedOrShown' /\ PendingOrShown'
    <3>1. \A q \in Rules, relay \in Relays, s \in States : ~Unexcused(q, relay, s)'
      BY <1>13, NewFacts DEF Crash, Unexcused, Stands
    <3>2. QED
      BY <3>1 DEF IssuedOrShown, PendingOrShown
  <2>4. QED
    BY <2>1, <2>2, <2>3 DEF IInv
<1>14. ASSUME NEW r \in Rules, SaveRule(r)
      PROVE  IInv'
  <2>1. TypeOK'
    BY <1>14, ExcusedFacts DEF SaveRule, TypeOK, Excuses
  <2>2. Order'
    BY <1>14 DEF SaveRule, TypeOK, Sorted, PhaseOK, QueueOK, SameRank, CommandsInPriorityOrder,
       WritingTracksBoard, RecordTracksBoard, Excused
  <2>3. IssuedOrShown' /\ PendingOrShown'
    BY <1>2, <1>14 DEF SaveRule, IssuedOrShown, PendingOrShown, Issuing, Issuers, For
  <2>4. QED
    BY <2>1, <2>2, <2>3 DEF IInv
<1>15. ASSUME NEW r \in Rules, DeleteRule(r)
      PROVE  IInv'
  <2>1. TypeOK'
    BY <1>15 DEF DeleteRule, TypeOK
  <2>2. Order'
    BY <1>15 DEF DeleteRule, TypeOK, Sorted, PhaseOK, QueueOK, SameRank, CommandsInPriorityOrder,
       WritingTracksBoard, RecordTracksBoard
  <2>3. IssuedOrShown' /\ PendingOrShown'
    BY <1>2, <1>15 DEF DeleteRule, IssuedOrShown, PendingOrShown, Issuing, Issuers, For
  <2>4. QED
    BY <2>1, <2>2, <2>3 DEF IInv
<1>16. ASSUME NEW ch \in Tested, TestRelay(ch)
      PROVE  IInv'
  <2>1. TypeOK'
    BY <1>16, WorkerAssumption DEF TestRelay, TypeOK
  <2>2. Order'
    BY <1>16 DEF TestRelay, TypeOK, Sorted, PhaseOK, QueueOK, SameRank, CommandsInPriorityOrder,
       WritingTracksBoard, RecordTracksBoard, Excused
  <2>3. IssuedOrShown' /\ PendingOrShown'
    BY <1>2, <1>16 DEF TestRelay, IssuedOrShown, PendingOrShown, Issuing, Issuers, For
  <2>4. QED
    BY <2>1, <2>2, <2>3 DEF IInv
<1>17. CASE UNCHANGED vars
  <2>1. TypeOK'
    BY <1>17 DEF vars, TypeOK
  <2>2. Order'
    BY <1>17 DEF vars, TypeOK, Sorted, PhaseOK, QueueOK, SameRank, CommandsInPriorityOrder,
       WritingTracksBoard, RecordTracksBoard
  <2>3. IssuedOrShown' /\ PendingOrShown'
    BY <1>2, <1>17 DEF vars, IssuedOrShown, PendingOrShown, Issuing, Issuers, For
  <2>4. QED
    BY <2>1, <2>2, <2>3 DEF IInv
<1>18. QED
  BY <1>4, <1>5, <1>6, <1>7, <1>8, <1>9, <1>10, <1>11, <1>12, <1>13, <1>14, <1>15, <1>16,
     <1>17 DEF Next, Cycle, Api

\* Every reachable state satisfies the invariant.
LEMMA Invariance == Spec => []IInv
<1>1. Init => IInv
  <2> SUFFICES ASSUME Init
               PROVE  IInv
    OBVIOUS
  <2>1. TypeOK
    <3>1. /\ <<>> \in Seq(Commands)
          /\ <<>> \in Seq([id : Rules, config : RuleConfigs])
      BY EmptySeq
    <3>2. QED
      BY <3>1, NewFacts, WorkerAssumption DEF Init, TypeOK, NoStates, States, Excuses
  <2>2. /\ PhaseOK /\ QueueOK /\ SameRank /\ CommandsInPriorityOrder
        /\ WritingTracksBoard /\ RecordTracksBoard
    BY DEF Init, PhaseOK, QueueOK, SameRank, CommandsInPriorityOrder, Sorted,
           WritingTracksBoard, RecordTracksBoard
  <2>3. IssuedOrShown /\ PendingOrShown
    BY NewFacts DEF Init, IssuedOrShown, PendingOrShown, Unexcused, Stands
  <2>4. QED
    BY <2>1, <2>2, <2>3 DEF IInv
<1>2. IInv /\ [Next]_vars => IInv'
  BY BeginCycleKeeps, EvaluateNextKeeps, OthersKeep
<1>3. QED
  BY <1>1, <1>2, PTL DEF Spec

-----------------------------------------------------------------------------
(***************************************************************************)
(* The properties, for every value of the constants.                       *)
(***************************************************************************)

\* The worker's variables, the tables and the board stay within their types.
THEOREM TypeCorrect == Spec => []TypeOK
<1>1. IInv => TypeOK
  BY DEF IInv
<1>2. QED
  BY <1>1, Invariance, PTL

\* The commands of a cycle are issued by falling priority, which is the order that the
\* arbiter's single pass needs.
THEOREM PriorityOrder == Spec => []CommandsInPriorityOrder
<1>1. IInv => CommandsInPriorityOrder
  BY DEF IInv
<1>2. QED
  BY <1>1, Invariance, PTL

\* The recorded state of a relay differs from the board only for a reason that
\* RecordTracksBoard names.
THEOREM RecordTheorem == Spec => []RecordTracksBoard
<1>1. IInv => RecordTracksBoard
  BY DEF IInv
<1>2. QED
  BY <1>1, Invariance, PTL

\* Between cycles the board shows what every rule stands for, unless the rule has one of
\* the excuses, whatever the tables, the forms and the interleaving of cycles and edits.
THEOREM BoardTheorem == Spec => []BoardFollowsRules
<1>1. IInv => BoardFollowsRules
  BY DEF IInv, PhaseOK, IssuedOrShown, Issuing, Unexcused, BoardFollowsRules
<1>2. QED
  BY <1>1, Invariance, PTL
=============================================================================
