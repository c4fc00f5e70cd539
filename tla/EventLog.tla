------------------------------ MODULE EventLog ------------------------------
(***************************************************************************)
(* What the worker does with an evaluation besides relays (worker.py): it  *)
(* logs an event with a snapshot unless the rule's row already holds the   *)
(* event's dedupe key, and sends the rule's webhook under the id of the    *)
(* rule's latest event.  The log and the row are written one after the     *)
(* other; the API process edits and deletes rules, the cleanup service     *)
(* deletes snapshots, and the worker may crash between any two steps.      *)
(*                                                                         *)
(* What an observation adds to a dedupe key besides the rule and its state *)
(* (camera, metric, value, zone) is one member of Sightings.               *)
(***************************************************************************)
EXTENDS RuleEvaluation, Sequences

CONSTANTS
    Rules,      \* ids of the rules: those created later take part from the start
    Sightings,  \* what observations show
    CameraOf,   \* CameraOf[s]: the camera of sighting s
    Scenes,     \* Scenes[r]: what rule r's monitor may show in a cycle
    Forms,      \* Forms[r]: the configurations rule r is saved with
    Edited,     \* bound: the rules that operators edit and delete
    Outcomes,   \* what sending a webhook may report
    Window      \* latest_event_for looks at this many events (50)

Nothing == "nothing"                           \* no observation of the rule's metric
NoKey   == [state |-> "none", seen |-> Nothing]
Keys    == [state : Targets, seen : Sightings]
FormConfigs == [enabled : BOOLEAN, debounce : [Targets -> Int], cooldown : Int,
                hook : BOOLEAN]             \* hook: the true actions hold a webhook
AllScenes == [verdict : Verdicts, seen : Sightings \cup {Nothing}]

ASSUME EventLogAssumption ==
    /\ Nothing \notin Sightings
    /\ Window \in Nat \ {0}
    /\ Edited \subseteq Rules
    /\ CameraOf = [s \in Sightings |-> CameraOf[s]]
    /\ \A r \in Rules : Forms[r] \subseteq FormConfigs
    /\ \A r \in Rules : Scenes[r] \subseteq AllScenes
    /\ \A r \in Rules : \A sc \in Scenes[r] :
            /\ sc.verdict = "fault" => sc.seen = Nothing
            /\ sc.verdict = "true"  => sc.seen # Nothing

VARIABLES
    scene,      \* what each rule's monitor shows
    rules,      \* the rules table: [form, key] for every saved rule
    events,     \* the latest Window rows of the events table, newest last
    engine,     \* RuleEngine._states
    stage,      \* where the worker is
    todo,       \* the rules still to be evaluated, with the forms read
    turn,       \* locals of the evaluation in progress
    editing,    \* rules an update request has found in the table and not saved yet
    history     \* history variable: see below

inputs == <<scene, editing>>
locals == <<stage, todo, turn>>
vars == <<scene, rules, events, engine, stage, todo, turn, editing, history>>

(***************************************************************************)
(* history.last[r] is the key of the newest event of rule r; history.torn  *)
(* holds the rules whose row and log were torn apart: the worker crashed   *)
(* between the two writes, or the row was deleted.  The next event mends   *)
(* it.                                                                     *)
(***************************************************************************)

NoTurn == [rule |-> Nothing, state |-> "unknown", seen |-> Nothing, post |-> FALSE,
           event |-> 0, outcome |-> "none"]
KeyOf(t) == [state |-> t.state, seen |-> t.seen]
Row(r) == IF r \in DOMAIN rules THEN rules[r].key ELSE NoKey

Init ==
    /\ scene \in {s \in [Rules -> UNION {Scenes[r] : r \in Rules}] :
                    \A r \in Rules : s[r] \in Scenes[r]}
    /\ \E forms \in [Rules -> UNION {Forms[r] : r \in Rules}] :
            /\ \A r \in Rules : forms[r] \in Forms[r]
            /\ rules = [r \in Rules |-> [form |-> forms[r], key |-> NoKey]]
    /\ events = <<>>
    /\ engine = [r \in Rules |-> NewRuntime]
    /\ stage = "idle" /\ todo = <<>> /\ turn = NoTurn
    /\ editing = {}
    /\ history = [last |-> [r \in Rules |-> NoKey], torn |-> {}]

Over == stage' = "rules" /\ turn' = NoTurn       \* the turn ends

-----------------------------------------------------------------------------
(***************************************************************************)
(* The rule loop of process_once.                                          *)
(***************************************************************************)

BeginCycle ==
    /\ stage = "idle"
    /\ stage' = "rules"
    /\ todo' = [r \in DOMAIN rules |-> rules[r].form]
    /\ UNCHANGED <<inputs, rules, events, engine, turn, history>>

\* The loop's order, by priority, makes no difference here.
EvaluateRule(r) ==
    /\ stage = "rules" /\ r \in DOMAIN todo
    /\ LET form   == todo[r]
           result == Evaluate(form, engine[r], scene[r].verdict)
           seen   == IF form.enabled THEN scene[r].seen ELSE Nothing
           state  == result.runtime.state
       IN  /\ engine' = [engine EXCEPT ![r] = result.runtime]
           /\ IF seen = Nothing THEN Over
              ELSE /\ turn' = [NoTurn EXCEPT !.rule = r, !.state = state, !.seen = seen,
                        !.post = form.hook /\ result.fires /\ state = "true"]
                   /\ stage' = IF state \in Targets THEN "read" ELSE "find"
    /\ todo' = [q \in DOMAIN todo \ {r} |-> todo[q]]
    /\ UNCHANGED <<inputs, rules, events, history>>

EndCycle ==
    /\ stage = "rules" /\ DOMAIN todo = {}
    /\ stage' = "idle"
    /\ UNCHANGED <<inputs, rules, events, engine, todo, turn, history>>

-----------------------------------------------------------------------------
(***************************************************************************)
(* _persist_event_if_changed                                               *)
(***************************************************************************)

\* Mutant: every evaluation is logged.
ReadRowNever ==
    /\ stage = "read"
    /\ stage' = "create"
    /\ UNCHANGED <<inputs, rules, events, engine, todo, turn, history>>

\* Mutant: the dedupe key leaves the value out.
ReadRowByState ==
    /\ stage = "read"
    /\ stage' = IF turn.state = Row(turn.rule).state THEN "keep" ELSE "create"
    /\ UNCHANGED <<inputs, rules, events, engine, todo, turn, history>>

ReadRow ==
    /\ stage = "read"
    /\ stage' = IF KeyOf(turn) = Row(turn.rule) THEN "keep" ELSE "create"
    /\ UNCHANGED <<inputs, rules, events, engine, todo, turn, history>>

\* Mutant: one row more than the limit.
LatestAndOneMore(log) == SubSeq(log, Len(log) - Window, Len(log))

Latest(log) == SubSeq(log, Len(log) - Window + 1, Len(log))

\* write_snapshot and create_event.  The file of a crash in between stays behind without
\* an event.
CreateEvent ==
    /\ stage = "create"
    /\ LET log == Append(events, [rule |-> turn.rule, key |-> KeyOf(turn),
                                  file |-> TRUE, status |-> "none"])
       IN  events' = IF Len(log) > Window THEN Latest(log) ELSE log
    /\ history' = [history EXCEPT !.last[turn.rule] = KeyOf(turn)]
    /\ stage' = "settle"
    /\ UNCHANGED <<inputs, rules, engine, todo, turn>>

\* update_rule_runtime: no row, no update.
RecordKey ==
    /\ stage \in {"keep", "settle"}
    /\ IF turn.rule \in DOMAIN rules
       THEN /\ rules' = [rules EXCEPT ![turn.rule].key = KeyOf(turn)]
            /\ history' = [history EXCEPT
                    !.torn = IF stage = "settle" THEN @ \ {turn.rule} ELSE @]
       ELSE UNCHANGED <<rules, history>>
    /\ stage' = "find"
    /\ UNCHANGED <<inputs, events, engine, todo, turn>>

-----------------------------------------------------------------------------
(***************************************************************************)
(* _dispatch_webhooks, which only the true actions of the form can reach.  *)
(***************************************************************************)

EventsFor(r, seen) ==
    {i \in DOMAIN events :
        events[i].rule = r /\ CameraOf[events[i].key.seen] = CameraOf[seen]}

\* Mutant: ascending order, so the oldest event is found.
OldestOf(found) == CHOOSE i \in found : \A j \in found : i <= j

NewestOf(found) == CHOOSE i \in found : \A j \in found : j <= i

Proceed(t) == IF t.post THEN stage' = "send" /\ turn' = t ELSE Over

FindEvent ==
    /\ stage = "find"
    /\ LET found == EventsFor(turn.rule, turn.seen)
           t     == [turn EXCEPT !.event = NewestOf(found)]
       IN  IF found = {} THEN Proceed(turn)
           ELSE IF events[t.event].file THEN stage' = "attach" /\ turn' = t
           ELSE Proceed(t)
    /\ UNCHANGED <<inputs, rules, events, engine, todo, history>>

\* read_bytes, after path.exists.
AttachSnapshot ==
    /\ stage = "attach"
    /\ events[turn.event].file
    /\ Proceed(turn)
    /\ UNCHANGED <<inputs, rules, events, engine, todo, history>>

\* One attempt: retry_count is never read.
Send ==
    /\ stage = "send"
    /\ IF turn.event = 0 THEN Over
       ELSE /\ \E outcome \in Outcomes :
                    turn' = [turn EXCEPT !.outcome = outcome]
            /\ stage' = "status"
    /\ UNCHANGED <<inputs, rules, events, engine, todo, history>>

RecordStatus ==
    /\ stage = "status"
    /\ events' = [events EXCEPT ![turn.event].status = turn.outcome]
    /\ Over
    /\ UNCHANGED <<inputs, rules, engine, todo, history>>

-----------------------------------------------------------------------------
(***************************************************************************)
(* The other processes, the scene and the clock.                           *)
(***************************************************************************)

\* update_rule looks the rule up, and saves the form later, with an upsert that keeps the
\* key of a row that is there and starts a new row if it is gone.
FindRule(r) ==
    /\ r \in DOMAIN rules /\ r \notin editing
    /\ editing' = editing \cup {r}
    /\ UNCHANGED <<scene, rules, events, engine, locals, history>>

\* Mutant: INSERT OR REPLACE, which loses the key.
SaveRuleReplacing(r) ==
    /\ r \in editing
    /\ editing' = editing \ {r}
    /\ \E f \in Forms[r] :
        rules' = [q \in DOMAIN rules \cup {r} |->
                    IF q = r THEN [form |-> f, key |-> NoKey] ELSE rules[q]]
    /\ UNCHANGED <<scene, events, engine, locals, history>>

SaveRule(r) ==
    /\ r \in editing
    /\ editing' = editing \ {r}
    /\ \E f \in Forms[r] :
        rules' = [q \in DOMAIN rules \cup {r} |->
                    IF q = r THEN [form |-> f, key |-> Row(r)] ELSE rules[q]]
    /\ UNCHANGED <<scene, events, engine, locals, history>>

DeleteRule(r) ==
    /\ r \in DOMAIN rules
    /\ rules' = [q \in DOMAIN rules \ {r} |-> rules[q]]
    /\ history' = [history EXCEPT !.torn = @ \cup {r}]
    /\ UNCHANGED <<inputs, events, engine, locals>>

\* prune, in the worker or in the cleanup service.
PruneSnapshot(i) ==
    /\ i \in DOMAIN events /\ events[i].file
    /\ events' = [events EXCEPT ![i].file = FALSE]
    /\ UNCHANGED <<inputs, rules, engine, locals, history>>

SceneChanges(r) ==
    /\ \E sc \in Scenes[r] \ {scene[r]} : scene' = [scene EXCEPT ![r] = sc]
    /\ UNCHANGED <<rules, events, engine, locals, editing, history>>

Tick ==
    /\ engine' = [r \in Rules |-> Aged(engine[r])]
    /\ UNCHANGED <<inputs, rules, events, locals, history>>

\* The worker dies and is restarted.
Crash ==
    /\ stage' = "idle" /\ todo' = <<>> /\ turn' = NoTurn
    /\ engine' = [r \in Rules |-> NewRuntime]
    /\ history' = [history EXCEPT
            !.torn = IF stage = "settle" THEN @ \cup {turn.rule} ELSE @]
    /\ UNCHANGED <<inputs, rules, events>>

\* read_bytes raises: the snapshot was deleted after path.exists.
SnapshotVanished == stage = "attach" /\ ~events[turn.event].file /\ Crash

WorkerStep ==
    \/ BeginCycle \/ EndCycle
    \/ \E r \in Rules : EvaluateRule(r)
    \/ ReadRow \/ CreateEvent \/ RecordKey
    \/ FindEvent \/ AttachSnapshot \/ SnapshotVanished \/ Send \/ RecordStatus

Next ==
    \/ WorkerStep
    \/ \E r \in Edited : FindRule(r) \/ SaveRule(r) \/ DeleteRule(r)
    \/ \E r \in Rules : SceneChanges(r)
    \/ \E i \in 1 .. Window : PruneSnapshot(i)
    \/ Tick
    \/ Crash

Spec == Init /\ [][Next]_vars

\* The worker's loop goes on, and time passes.
FairSpec == Spec /\ WF_vars(WorkerStep) /\ WF_vars(Tick)

-----------------------------------------------------------------------------
Entries == [rule : Rules, key : Keys, file : BOOLEAN, status : Outcomes \cup {"none"}]
Turns == [rule : Rules \cup {Nothing}, state : RuleStates, seen : Sightings \cup {Nothing},
          post : BOOLEAN, event : 0 .. Window, outcome : Outcomes \cup {"none"}]

\* Every variable stays in its set; a turn that logs or posts has a rule and a sighting.
TypeOK ==
    /\ DOMAIN scene = Rules /\ \A r \in Rules : scene[r] \in Scenes[r]
    /\ DOMAIN rules \subseteq Rules
    /\ \A r \in DOMAIN rules : rules[r] \in [form : Forms[r], key : Keys \cup {NoKey}]
    /\ events \in Seq(Entries)
    /\ Len(events) <= Window
    /\ engine \in [Rules -> Runtimes]
    /\ stage \in {"idle", "rules", "read", "keep", "create", "settle", "find", "attach",
                  "send", "status"}
    /\ DOMAIN todo \subseteq Rules /\ \A r \in DOMAIN todo : todo[r] \in Forms[r]
    /\ turn \in Turns
    /\ stage \notin {"idle", "rules"} => turn.rule \in Rules /\ turn.seen \in Sightings
    /\ editing \subseteq Rules
    /\ history \in [last : [Rules -> Keys \cup {NoKey}], torn : SUBSET Rules]

\* The dedupe key in a rule's row is the key of the rule's newest event, except while the
\* worker is between create_event and update_rule_runtime, or when a crash there or a
\* deletion of the row tore them apart and no later event has mended it.
RowMatchesLog ==
    \A r \in DOMAIN rules :
        rules[r].key # history.last[r] =>
            \/ r \in history.torn
            \/ stage = "settle" /\ turn.rule = r

\* The log never repeats a rule's newest event, with that same exception.
NoRepeatedEvent ==
    [][\A r \in Rules :
        stage = "create" /\ stage' = "settle" /\ turn.rule = r =>
            KeyOf(turn) # history.last[r] \/ r \in history.torn]_vars

\* A webhook names an event of the same rule, state, camera and value as the observation
\* it carries, unless row and log were torn apart.  (It names none when Window newer
\* events have pushed it out of latest_event_for's view.)
WebhookNamesItsEvent ==
    stage = "send" /\ turn.event # 0 /\ turn.rule \notin history.torn =>
        events[turn.event].key = KeyOf(turn)

\* If the scene of an enabled rule stays as it is and the worker stops crashing, the
\* newest event of the rule comes to tell that scene, unless row and log were torn apart:
\* then the row may hold the key already, and the event is never logged.
LogFollowsScene ==
    \A r \in Rules : \A k \in Keys :
        /\ <>[](r \in DOMAIN rules /\ rules[r].form.enabled)
        /\ <>[](scene[r] = [verdict |-> k.state, seen |-> k.seen])
        /\ <>[][~Crash]_vars
        => <>[](history.last[r] = k \/ r \in history.torn)
=============================================================================
