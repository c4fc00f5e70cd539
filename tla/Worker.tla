------------------------------- MODULE Worker -------------------------------
(***************************************************************************)
(* The worker's cycle as the relays see it (worker.py): read the rules,    *)
(* evaluate them with the engine, collect relay commands, arbitrate, drive *)
(* the board channel by channel and record each state in the database.     *)
(* The API process edits the rules table and the recorded relay states     *)
(* between any two steps, the board's driver fails, and the worker crashes *)
(* and is restarted with a new engine.                                     *)
(*                                                                         *)
(* RuleEvaluation gives one evaluation, RelayCommands the outcome of       *)
(* arbitration: RelayArbiter is the loop that computes it, and is shown to *)
(* implement it for lists in priority order, which is how this module      *)
(* issues them.                                                            *)
(***************************************************************************)
EXTENDS RuleEvaluation, RelayCommands, SequencesExt

CONSTANTS
    Rules,      \* ids of rules
    Relays,     \* ids of the rows of relay_channels, which are never deleted
    Tested,     \* bound: the relays whose test form operators use
    Forms,      \* Forms[r]: the configurations rule r may be saved with
    QuietForms  \* the part of Forms[r] the uneventful behaviours start from

\* A configuration: what RuleEvaluation reads, the priority, and for each stable state
\* the relay actions of its list.
RelayActions == [channel : Channels, state : States]
RuleConfigs ==
    [enabled : BOOLEAN, debounce : [Targets -> Int], cooldown : Int, priority : Int,
     actions : [Stable -> Seq(RelayActions)]]

\* The actions build_rule_from_form stores for the relays chosen in the form (none or one
\* for each of the two states) and the fail policy.
FormActions(onTrue, onFalse, policy) ==
    LET failing == [i \in DOMAIN onTrue |-> [onTrue[i] EXCEPT !.state =
                        IF policy = "fail_on" THEN "on" ELSE "off"]]
    IN  [s \in Stable |->
            CASE s = "true"  -> onTrue
              [] s = "false" -> onFalse
              [] s = "fault" -> IF policy \in {"fail_on", "fail_off"} THEN failing ELSE <<>>]

ASSUME WorkerAssumption ==
    /\ Sources = Rules
    /\ Tested \subseteq Relays /\ Relays \subseteq Channels
    /\ IsFiniteSet(Rules)
    /\ \A r \in Rules : QuietForms[r] \subseteq Forms[r] /\ Forms[r] \subseteq RuleConfigs

VARIABLES
    rules,      \* the rules table: a configuration for every saved rule
    recorded,   \* relay_channels.current_state
    board,      \* the state the relay board is really in
    driver,     \* relay hardware is enabled for this worker (an environment setting)
    pc,         \* where the worker's loop is
    todo,       \* rules of this cycle still to be evaluated, as read from the table
    engine,     \* RuleEngine._states
    commands,   \* relay_commands
    pending,    \* the resolved states not applied yet
    writing,    \* the channel that has been driven and is about to be recorded
    history     \* history variable: see below

db == <<rules, recorded>>
cycle == <<todo, commands, pending, writing>>
vars == <<rules, recorded, board, driver, pc, cycle, engine, history>>

(***************************************************************************)
(* history.excuse[r] says why a relay may contradict the state rule r      *)
(* stands in, "none" if nothing excuses it:                                *)
(*   withheld    its actions were not handed out when it entered the state *)
(*               (a cooldown ran, or it was disabled)                      *)
(*   edited      its configuration changed since it last acted             *)
(*   lost        its commands were dropped: the cycle was refused for a    *)
(*               conflict, or the driver failed                            *)
(*   overridden  another rule's command took a channel it can command      *)
(* history.doubt is the set of channels whose recorded state differs from  *)
(* the board for another reason than a write in progress.                  *)
(***************************************************************************)
Excuses == {"none", "withheld", "edited", "lost", "overridden"}

Excused(rs, why) ==
    [history EXCEPT !.excuse = [r \in Rules |->
        IF r \in rs /\ engine[r].state \in Stable THEN why ELSE @[r]]]

Idle == <<>>                                         \* no pending write
NoStates == [ch \in Channels |-> "none"]

Init ==
    /\ rules \in {table \in [Rules -> UNION {Forms[r] : r \in Rules}] :
                    \A r \in Rules : table[r] \in Forms[r]}
    /\ recorded = [ch \in Relays |-> "off"]
    /\ board = [ch \in Relays |-> "off"]
    /\ driver \in BOOLEAN
    /\ pc = "idle"
    /\ todo = <<>>
    /\ engine = [r \in Rules |-> NewRuntime]
    /\ commands = <<>>
    /\ pending = NoStates
    /\ writing = Idle
    /\ history = [excuse |-> [r \in Rules |-> "none"], doubt |-> {}]

-----------------------------------------------------------------------------
(***************************************************************************)
(* One cycle: process_once from list_rules on.                             *)
(***************************************************************************)

\* Mutant: list_rules in the order of the names.
ListedAnyhow(table, order) == order \in SetToSeqs(DOMAIN table)

\* list_rules: ORDER BY priority DESC.
Listed(table, order) ==
    /\ order \in SetToSeqs(DOMAIN table)
    /\ \A i, j \in DOMAIN order :
        i <= j => table[order[j]].priority <= table[order[i]].priority

\* The monitors have been run and the rules are read.  The engine never reads its entry for
\* a deleted rule again, since ids are not used twice: the model forgets it here.
BeginCycle ==
    /\ pc = "idle"
    /\ pc' = "rules"
    /\ \E order \in [1 .. Cardinality(DOMAIN rules) -> DOMAIN rules] :
        /\ Listed(rules, order)
        /\ todo' = [i \in DOMAIN order |-> [id |-> order[i], config |-> rules[order[i]]]]
    /\ engine' = [r \in Rules |-> IF r \in DOMAIN rules THEN engine[r] ELSE NewRuntime]
    /\ history' = [history EXCEPT !.excuse =
                    [r \in Rules |-> IF r \in DOMAIN rules THEN @[r] ELSE "none"]]
    /\ UNCHANGED <<db, board, driver, commands, pending, writing>>

Issue(r, config, state) ==
    [i \in DOMAIN config.actions[state] |->
        [channel |-> config.actions[state][i].channel,
         state |-> config.actions[state][i].state,
         source |-> r, priority |-> config.priority]]

\* The excuse of a rule after its evaluation: actions handed out excuse nothing, unless
\* the configuration that was read has been replaced; actions withheld on entering a
\* stable state are an excuse.
ExcuseAfter(r, config, before, result) ==
    CASE result.runtime.state \notin Stable -> "none"
      [] result.fires ->
            IF r \in DOMAIN rules /\ rules[r] = config THEN "none" ELSE "edited"
      [] ~result.fires /\ result.runtime.state = before.state -> history.excuse[r]
      [] OTHER -> "withheld"

\* The rule at the head of the list is evaluated on what its monitor has observed in this
\* cycle: any verdict, and only this step reads it.
EvaluateNext ==
    /\ pc = "rules" /\ todo # <<>>
    /\ \E v \in Verdicts :
       LET r      == Head(todo).id
           config == Head(todo).config
           result == Evaluate(config, engine[r], v)
       IN  /\ engine' = [engine EXCEPT ![r] = result.runtime]
           /\ commands' = commands \o
                (IF result.fires THEN Issue(r, config, result.runtime.state) ELSE <<>>)
           /\ history' = [history EXCEPT
                    !.excuse[r] = ExcuseAfter(r, config, engine[r], result)]
    /\ todo' = Tail(todo)
    /\ UNCHANGED <<db, board, driver, pc, pending, writing>>

\* RelayArbiter.resolve raises: the whole cycle's commands are dropped.
Refuse ==
    /\ pc = "rules" /\ todo = <<>>
    /\ Ambiguous(commands)
    /\ pc' = "idle"
    /\ commands' = <<>>
    /\ history' = Excused({commands[i].source : i \in DOMAIN commands}, "lost")
    /\ UNCHANGED <<db, board, driver, todo, engine, pending, writing>>

\* Rules whose configuration can command a channel that goes to somebody else's state.
Overridden(result) ==
    {r \in DOMAIN rules :
        \E s \in Stable : \E i \in DOMAIN rules[r].actions[s] :
            LET ch == rules[r].actions[s][i].channel
            IN  /\ result[ch] # "none"
                /\ \A k \in Top(commands, ch) : commands[k].source # r}

Arbitrate ==
    /\ pc = "rules" /\ todo = <<>>
    /\ ~Ambiguous(commands)
    /\ \E result \in [Channels -> States \cup {"none"}] :
        /\ IsVerdict(commands, result)
        /\ pending' = result
        /\ history' = Excused(Overridden(result), "overridden")
    /\ pc' = "apply"
    /\ UNCHANGED <<db, board, driver, todo, engine, commands, writing>>

-----------------------------------------------------------------------------
(***************************************************************************)
(* _apply_relays.  The dictionary's order is left open.                    *)
(***************************************************************************)
ToApply == {ch \in Channels : pending[ch] # "none"}
Issuers(ch) == {commands[i].source : i \in For(commands, ch)}

\* Mutant: the state is recorded before the board is driven.
SetChannelRecordingFirst(ch) ==
    /\ pc = "apply" /\ driver /\ ch \in ToApply \cap Relays
    /\ recorded' = [recorded EXCEPT ![ch] = pending[ch]]
    /\ pending' = [pending EXCEPT ![ch] = "none"]
    /\ \/ board' = [board EXCEPT ![ch] = pending[ch]]
          /\ history' = [history EXCEPT !.doubt = @ \ {ch}]
       \/ board' = board
          /\ history' = Excused(Issuers(ch), "lost")
    /\ UNCHANGED <<rules, driver, pc, todo, engine, commands, writing>>

\* Mutant: an unknown relay ends the loop instead of being passed over.
SkipUnknownStops(ch) ==
    /\ pc = "apply" /\ ch \in ToApply \ Relays
    /\ pending' = NoStates
    /\ UNCHANGED <<db, board, driver, pc, todo, engine, commands, writing, history>>

SkipUnknown(ch) ==
    /\ pc = "apply" /\ ch \in ToApply \ Relays
    /\ pending' = [pending EXCEPT ![ch] = "none"]
    /\ UNCHANGED <<db, board, driver, pc, todo, engine, commands, writing, history>>

SetChannel(ch) ==
    /\ pc = "apply" /\ driver /\ ch \in ToApply \cap Relays
    /\ board' = [board EXCEPT ![ch] = pending[ch]]
    /\ pending' = [pending EXCEPT ![ch] = "none"]
    /\ writing' = <<ch, pending[ch]>>
    /\ pc' = "record"
    /\ UNCHANGED <<db, driver, todo, engine, commands, history>>

\* usbrelay fails, or times out, which it may do after the board has switched.
DriverFails(ch) ==
    /\ pc = "apply" /\ driver /\ ch \in ToApply \cap Relays
    /\ board' \in {board, [board EXCEPT ![ch] = pending[ch]]}
    /\ pending' = [pending EXCEPT ![ch] = "none"]
    /\ history' = [Excused(Issuers(ch), "lost") EXCEPT !.doubt =
                    IF board'[ch] = recorded[ch] THEN @ \ {ch} ELSE @ \cup {ch}]
    /\ UNCHANGED <<db, driver, pc, todo, engine, commands, writing>>

\* Mutant: the entry is taken out of the states before it is recorded.
DryRunTakingFirst(ch) ==
    /\ pc = "apply" /\ ~driver /\ ch \in ToApply \cap Relays
    /\ pending' = [pending EXCEPT ![ch] = "none"]
    /\ recorded' = [recorded EXCEPT ![ch] = pending'[ch]]
    /\ UNCHANGED <<rules, board, driver, pc, todo, engine, commands, writing, history>>

\* Relay hardware is disabled: the state is only recorded.
DryRun(ch) ==
    /\ pc = "apply" /\ ~driver /\ ch \in ToApply \cap Relays
    /\ recorded' = [recorded EXCEPT ![ch] = pending[ch]]
    /\ pending' = [pending EXCEPT ![ch] = "none"]
    /\ UNCHANGED <<rules, board, driver, pc, todo, engine, commands, writing, history>>

\* update_relay_state after the driver returned.
RecordState ==
    /\ pc = "record"
    /\ recorded' = [recorded EXCEPT ![writing[1]] = writing[2]]
    /\ writing' = Idle
    /\ pc' = "apply"
    /\ history' = [history EXCEPT !.doubt = @ \ {writing[1]}]
    /\ UNCHANGED <<rules, board, driver, todo, engine, commands, pending>>

EndCycle ==
    /\ pc = "apply" /\ ToApply = {}
    /\ pc' = "idle"
    /\ commands' = <<>>
    /\ UNCHANGED <<db, board, driver, todo, engine, pending, writing, history>>

\* The worker sleeps; the time the cycle itself takes is counted here too.
Sleep ==
    /\ pc = "idle"
    /\ engine' = [r \in Rules |-> Aged(engine[r])]
    /\ UNCHANGED <<db, board, driver, pc, cycle, history>>

\* The process dies anywhere and is restarted with a new engine; the board keeps its
\* relays.
Crash ==
    /\ pc' = "idle"
    /\ todo' = <<>> /\ commands' = <<>> /\ pending' = NoStates /\ writing' = Idle
    /\ engine' = [r \in Rules |-> NewRuntime]
    /\ history' = [excuse |-> [r \in Rules |-> "none"],
                   doubt |-> history.doubt \cup
                        {ch \in Relays : pc = "record" /\ writing[1] = ch
                                            /\ recorded[ch] # board[ch]}]
    /\ UNCHANGED <<db, board, driver>>

-----------------------------------------------------------------------------
(***************************************************************************)
(* The API process.                                                        *)
(***************************************************************************)

\* create_rule, under an id the engine has never seen, or update_rule.
SaveRule(r) ==
    /\ \/ r \in DOMAIN rules
       \/ engine[r] = NewRuntime /\ \A i \in DOMAIN todo : todo[i].id # r
    /\ \E c \in Forms[r] :
        /\ r \in DOMAIN rules => rules[r] # c
        /\ rules' = [q \in DOMAIN rules \cup {r} |-> IF q = r THEN c ELSE rules[q]]
    /\ history' = Excused({r}, "edited")
    /\ UNCHANGED <<recorded, board, driver, pc, cycle, engine>>

DeleteRule(r) ==
    /\ r \in DOMAIN rules
    /\ rules' = [q \in DOMAIN rules \ {r} |-> rules[q]]
    /\ UNCHANGED <<recorded, board, driver, pc, cycle, engine, history>>

\* test_relay records the requested state; only the worker has a driver.
TestRelay(ch) ==
    /\ \E s \in States \ {recorded[ch]} : recorded' = [recorded EXCEPT ![ch] = s]
    /\ history' = [history EXCEPT !.doubt =
                    IF recorded'[ch] = board[ch] THEN @ \ {ch} ELSE @ \cup {ch}]
    /\ UNCHANGED <<rules, board, driver, pc, cycle, engine>>

-----------------------------------------------------------------------------
Cycle ==
    \/ BeginCycle \/ EvaluateNext \/ Refuse \/ Arbitrate
    \/ \E ch \in Channels : SkipUnknown(ch) \/ SetChannel(ch) \/ DryRun(ch)
    \/ RecordState \/ EndCycle

Api ==
    \/ \E r \in Rules : SaveRule(r) \/ DeleteRule(r)
    \/ \E ch \in Tested : TestRelay(ch)

Next ==
    \/ Cycle \/ Sleep
    \/ \E ch \in Channels : DriverFails(ch)
    \/ Crash
    \/ Api

Spec == Init /\ [][Next]_vars

\* The uneventful behaviours: nobody edits, nothing fails, from a table of QuietForms.
QuietInit == Init /\ driver /\ \A r \in Rules : rules[r] \in QuietForms[r]
QuietNext == Cycle \/ Sleep
QuietSpec == QuietInit /\ [][QuietNext]_vars

-----------------------------------------------------------------------------
TypeOK ==
    /\ \A r \in DOMAIN rules : r \in Rules /\ rules[r] \in Forms[r]
    /\ recorded \in [Relays -> States] /\ board \in [Relays -> States]
    /\ driver \in BOOLEAN /\ pc \in {"idle", "rules", "apply", "record"}
    /\ engine \in [Rules -> Runtimes]
    /\ todo \in Seq([id : Rules, config : RuleConfigs]) /\ commands \in Seq(Commands)
    /\ pending \in [Channels -> States \cup {"none"}]
    /\ writing \in {Idle} \cup (Relays \X States)
    /\ history \in [excuse : [Rules -> Excuses], doubt : SUBSET Relays]

\* The worker hands the arbiter its commands in priority order, which is what lets the
\* arbiter's single pass refuse exactly the ambiguous cycles (RelayArbiter).
CommandsInPriorityOrder == Sorted(commands)

\* With the driver enabled, the state shown for a relay differs from the board only while
\* the worker is between the two writes, or after one of three things nobody repaired yet:
\* an operator's test of the channel, a driver call that failed after it had switched, or a
\* crash between the two writes.
RecordTracksBoard ==
    driver => \A ch \in Relays :
        recorded[ch] # board[ch] =>
            \/ ch \in history.doubt
            \/ pc = "record" /\ writing[1] = ch

Stands(r, ch, s) ==
    /\ r \in DOMAIN rules
    /\ engine[r].state \in Stable
    /\ \E i \in DOMAIN rules[r].actions[engine[r].state] :
        rules[r].actions[engine[r].state][i] = [channel |-> ch, state |-> s]

\* Between cycles the board shows what every rule's standing state asks for, unless the
\* rule's actions were withheld (cooldown, disabling), its configuration was edited, its
\* cycle was refused for a conflict, the driver failed, or another rule took the channel.
\* Crashes, stale configurations read before an edit and every interleaving of cycle and
\* edits are no excuse.
BoardFollowsRules ==
    pc = "idle" /\ driver =>
        \A r \in Rules : \A ch \in Relays : \A s \in States :
            Stands(r, ch, s) /\ board[ch] # s => history.excuse[r] # "none"

\* docs/architecture.md:11, "Relay output is arbitrated by rule priority": a relay leaves the
\* state that a rule stands for, having been handed its actions, only on a command of at
\* least that rule's priority.
HigherPriorityHolds ==
    [][\A r \in Rules : \A ch \in Relays :
        /\ board'[ch] # board[ch]
        /\ Stands(r, ch, board[ch])
        /\ history.excuse[r] \in {"none", "overridden"}
        => \E i \in For(commands, ch) : commands[i].priority >= rules[r].priority]_vars
=============================================================================
