# A TLA+ model of the Smart AI Access Control worker

The program watches doors and gates with cameras on a Raspberry Pi with a Hailo accelerator, and
switches relays. Two operating-system processes share one SQLite database: the **worker**
(`worker.py`), one loop that runs forever, and the **web API** (`main.py`, two uvicorn processes),
which operators use. A third program, the **cleanup service** (`maintenance.py`), runs hourly.
Everything that is hard about the program comes from there: the worker's loop is sequential, but
the configuration it reads, the rows it writes and the files it keeps are changed by others between
any two of its steps; its inference pipeline lives in a child process that may die, hang or stay
silent; and it may die itself, by an exception or otherwise, and be started again by systemd with
empty memory and an old database.

Paths below are relative to `src/backend/app/` unless they name another place.

## 1. Inventory

| Component | State it keeps | Operations | Correct when |
|---|---|---|---|
| Rule engine `rules/engine.py` | per rule: state, start of the wait, time of the last actions (memory of the worker) | `evaluate` = match, debounce, cooldown, choice of an action list | debounce and cooldown hold under every mix of edits, faults, disabling and restarts; the rule ends up where its scene is; actions are lost only for a stated reason |
| Relay arbiter `relay/service.py` | locals of one call | `resolve` | highest priority wins; equal priorities that disagree are refused, and nothing else is |
| Relay board, `UsbRelayDriver` | the relays themselves | `set_channel` (a subprocess with a timeout) | the recorded state is that of the board |
| Worker: rule loop `worker.py:210-224,288-356` | commands of the cycle | read rules, evaluate each, arbitrate, apply, record | the board shows what the rules' states ask for |
| Worker: events, webhooks `worker.py:243-286,302-338` | events table, dedupe key in the rule's row, snapshot files | log an event if the key is new, find the event of a webhook, attach its snapshot, send, record the status | one event per change; the webhook names the right one; the newest event tells the scene |
| Worker: monitors `worker.py:132-208` | monitor, camera and observation rows | batch the monitors of a camera, run plugins, record observations or errors | a failure of one part faults exactly the rules that depend on it |
| Hailo provider and session `inference/hailo.py` | session, fingerprint of what it runs, backoffs, telemetry switch; in the child: the pipeline | prune, start, stop, restart, serve the latest frame | one child holds the device, it runs the cameras configured now, and every camera that can be served is |
| Rule conditions `rules/engine.py:27-73`, `main.py:898-911` | the rule's row | parse a form's value, save, read back, compare typed values; all/any | a condition says what was typed of its own monitor; where it cannot, it is known when the loop fails |
| Object count, zones `plugins/object_count.py`, `inference/hailo.py`, `main.py` | the zone in the monitor's row | normalise twice, count detections in a zone | the zone counts what was drawn |
| Snapshot store `storage/snapshots.py`, cleanup `maintenance.py` | a directory of files, another of logs | write, list, delete the oldest by size and free space, in batches; delete a monitor's picture; cut logs by age and size | limits are reached, nothing is deleted without need, nothing of a deleted monitor stays |
| Database `db.py` | 12 tables | one connection and transaction per call | rows of deleted things stay deleted |
| Startup `db.py:52-240`, `main.py` | tables, columns, defaults, the administrator | create, add a column, insert defaults; the first password | every service comes up, nothing saved is lost |
| Web API `main.py` | sessions in the database | forms for cameras, monitors, rules, storage; relay test; pages | an edit is seen whole, and does not undo another |
| Live page `static/src/ui.ts`, `main.py:882-895` | signatures of six tables, pending refreshes | compare, emit, fetch, swap | the page comes to show the newest state |
| Authentication, webhook requests, camera capture, metrics, configuration, deployment | little or none | I/O around the above | – |

**Interactions.** Worker and API share only the database (`rules`, `relay_channels`, `events`,
`monitors`, `cameras`, …) and the snapshot directory. The API never calls the worker: an edit takes
effect when the worker next reads the table, once per cycle. The worker calls the engine, the
arbiter, the driver and the provider synchronously; the provider talks to its child through a
bounded `multiprocessing` queue that every request drains. The browser learns of changes by an
event stream that compares timestamps once a second.

**Hard behaviours.** Edits and deletions between reading the rules and acting on them; two writes
that belong together and are committed apart (event and dedupe key, board and recorded state); a
cooldown that begins or ends at the wrong moment; commands that exist only in the cycle in which
they were issued; timeouts and backoffs that belong to a set of cameras, not to one; a crash at any
of these points; files and columns that another process deletes or adds between the look and the act;
answers of the server that arrive in another order than they were asked for. `PROJECT.json` lists
every hazard at its line with the properties that would catch it, or the reason why none does.

## 2. Modules and their correspondence to the code

```
RuleEvaluation ─┬─ RuleEngine ── MCRuleEngine       RelayCommands ─┬─ Arbitration
                ├─ EventLog ──── MCEventLog                        ├─ RelayArbiter ── MCRelayArbiter
                └─ Worker ────── MCWorker                          └─ Worker
ObjectCount ── Conditions ── MCRuleEngine           SnapshotStore, LogCleanup ── MCSnapshotStore
LivePage, Startup ── MCLivePage                     HailoProvider ── MCHailoProvider
                                                    Monitors ── MCMonitors
Proofs:
RuleEvaluationProofs ─┬─ RuleEngineProofs (RuleEngine, Conditions)       RelayArbiterProofs
 (RuleEvaluation)     ├─ EventLogProofs                                  HailoProofs
                      └─ WorkerProofs                                    MonitorsProofs
                                          SharedDataProofs (LivePage, Startup, SnapshotStore, LogCleanup)
```

Every module that is checked has an `MC` module with its instance. Three of these put two components
side by side that share no state and take them through one run in phases, so that the instance is
the sum of the two and not their product; the phases are said below and in the modules' headers.

* **RuleEvaluation** – one call of `RuleEngine.evaluate` as an operator. A timestamp is kept as its
  age, which saturates at `Horizon`; the code compares ages with debounces and cooldowns only, so
  with `Horizon` at least as large as these, nothing is told apart that the model merges. What the
  observations say of the rule is one *verdict*: the group holds, does not hold, or there are no
  observations (fault). `Conditions` says how it comes about. `last_transition_at` and
  `last_observation_value` are never read and left out. `_transition_actions` starts the cooldown for an empty action list too, and so does the model.
* **RuleEngine** – the engine over time: evaluations, a scene that changes at will, saved edits,
  restarts, a clock. Rules share no engine state. `history` is a history variable: no action of the
  program reads it.
* **ObjectCount** – a zone from the form to the count: `UpdateMonitor` stores it as
  `normalized_zone` leaves it, `MonitorZone` reads it as the worker does, `Matches` is the plugin's
  loop and `ObservationsFor` what becomes of it. `drawn` keeps what the operator entered.
* **Conditions** – the way of a condition: `BuiltRule` is the form's handler (`Received` the default
  that FastAPI puts in the place of an empty field), `RowOf` is the row that `save_rule` writes,
  `LegacyRowsOf` are the rows that `migrate` finds: one without a condition group, and an older one
  without a monitor too, which has cameras only. `RuleFromRow` is what is read from any of them, with
  its fallback to the first camera. `EvaluateRow` gives a rule what its monitor observed, or the
  fault when that is nothing, as the worker does; `Scoped`, `ConditionMatches` and `GroupMatches` are
  the engine's. `Upgrade` is a database brought along from an earlier version. An exception is
  the verdict `"raises"`. The two modules join the run of `RuleEngine` (`MCRuleEngine`): forms are
  filled in while the engine is quiet, one at a time, and the engine runs while none has been.
* **RelayCommands, Arbitration, RelayArbiter** – what a list of commands calls for; what `resolve`
  promises, as an abstract specification with one step per call; and the loop, one step per turn,
  with its dictionary. `RelayArbiter` implements `Arbitration` under the mapping
  `result <- Result`.
* **Worker** – the cycle from `list_rules` on: the rules are read in priority order (`BeginCycle`),
  evaluated one by one on an arbitrary verdict (`EvaluateNext`), their commands arbitrated
  (`Refuse`/`Arbitrate`, using the verdict that `RelayArbiter` is shown to compute), driven and
  recorded channel by channel (`SetChannel` then `RecordState`, `DriverFails`, `DryRun`,
  `SkipUnknown`). `SaveRule`, `DeleteRule` and `TestRelay` are the API's and interleave with every
  step; `Crash` may happen anywhere. `history.excuse` says why a relay may contradict a rule.
* **EventLog** – the same cycle as the log sees it: the row's dedupe key is compared (`ReadRow`),
  the event inserted (`CreateEvent`), the key stored (`RecordKey`), the webhook's event searched
  (`FindEvent`), its file read (`AttachSnapshot`, or `SnapshotVanished` when it was pruned after
  `path.exists`), the request sent, the status stored. `update_rule` is two steps, `FindRule` and
  `SaveRule`, since it checks first and saves later with an upsert. Camera, metric, value and zone
  of a dedupe key are one member of `Sightings`.
* **HailoProvider** – provider, session, child and worker loop: `SyncTelemetry`, `Prune` (and
  `PruneToNone`, `PruneDies`), one request per camera with the six ways `_latest_frame_for` can go
  (`StartForOne` … `Serve`), frames, callback errors, pipeline errors, exits, edits, the telemetry
  switch and the clock. A *stream* is a camera as its fingerprint sees it, so an edit of the address
  is a change from one stream of the camera to another.

* **Monitors** – the cycle up to the rules: cameras and monitors are read one after the other
  (`ListCameras`, `ListMonitors`), a camera's monitors are run as a batch or one by one
  (`batching`, the Hailo and the mock provider), each writes its observations and its status
  (`Record`, `MarkOnline`), then the camera's health is set. Any of these writes may raise
  (`StepFails`), as may the provider (`InferenceFails`); the handler then faults the whole batch
  (`MarkFailed`, `CameraFailed`). The forms of the API check first and save later (`CheckForm`,
  `SaveMonitor`). The loop's branch for a camera that has already failed in the cycle
  (`worker.py:164-172`) is not modelled because it cannot be reached: after a failure no monitor of
  the camera is left. Nor is the branch for a disabled monitor, since no form disables one.
* **SnapshotStore** – the picture directory and the three processes that use it without a lock. The
  worker writes a monitor's picture (`WritePicture`) and then its row (`SavePicture`, or
  `SavePictureFails`, after which it goes on with the next camera), chooses a
  picture for an event (`ChoosePicture`), reads it (`ReadPicture`, which ends the worker when the
  file has gone) and writes the event's own (`WriteEvent`); at the end of the cycle it prunes, as the
  cleanup service does every hour: it lists (`List`, `Gather` or `GatherFails`), and then looks at
  usage and free space (`Check`) and deletes (`Unlink`, or `UnlinkFails`), file by file, each a step
  of its own, until it is done (`Finish`). The API deletes a monitor's rows and then its files
  (`DeleteMonitor`, `DeleteFile`, or `DeleteFileFails` when `delete_files` passes over an error) and
  changes the size limit and the least free space, in two transactions of one request
  (`UpdateMaxBytes`, `UpdateMinFree`). The cleanup reads the two in every run (`StartCleanup`,
  `ReadMinFree`), the worker when it starts (`WorkerRestart`, `ReadMinFree`). `torn` and `touched` are
  history variables.
* **LogCleanup** – the other half of the cleanup's run. A run lists the logs and deletes the expired
  ones (`CleanupLogs`, which fixes the total and the loop's logs, `CutToSize`), then comes to one log
  after the other (`DeleteLog`, or `LeaveLog` when its `unlink` fails) until the rest fits; the next run
  finds what this one left. A run is about the logs `log_records` found, which passes over those whose
  `stat` fails. `MCSnapshotStore` cleans logs while there is no picture.
* **LivePage** – one fragment of an open page, one of five kinds that stand for all six (`Topics`);
  of the health panel first an empty frame, whose content the page asks for (`FirstFetch`). The
  monitors' outputs and debug pictures are fragments inside another one, the monitors' table
  (`Nested`), which is replaced whole: a request for the table (`RefreshTable`, by an event of its own
  or as the answer to an operator's command, which `htmx` puts in the table's place) brings outputs along,
  and its swap takes away the element that the outputs' own requests hold, but not the other way
  round (`Stays`).
  A writer takes its timestamp (`Stamp`) and commits later (`Commit`); other changes leave no
  timestamp (`ChangeSilently`) or take one away (`DeleteRow`). The stream is opened by the browser
  (`Connect`), samples (`Sample`) and may break (`Break`). Every message starts a request
  (`Refresh`), which is answered (`Answer`), put into the page (`Swap`), dropped because its element
  has been replaced (`SwapDetached`), or fails (`FetchFails`). `lost` is a history variable: the ways
  in which the page has missed something since it was last current.
* **Startup** – the services and the cleanup opening one database, new or of an older version:
  `CreateTables`, a look and an `ALTER TABLE` per column (`LookForColumn`, `AddColumn`, which ends
  the process when another was faster), the defaults (`CountRelays`, `InsertRelays`,
  `InsertSettings`). Operators save meanwhile through a service that is up, and two requests set the
  first password (`AskToBootstrap`, `InsertAdmin`, and `Tell`, the answer; a crash in between loses
  it). `MCLivePage` starts the services and then opens a page on them.

Definitions named in `PROJECT.json`'s `map` carry the lines they translate. A definition whose
comment begins "Mutant:" is a plausible wrong version of the definition below it; it belongs to no
specification and is there to show that a property notices the mistake.

### Abstractions and assumptions

* The wall clock (`datetime.now`) does not step. A step, back or forward, would lengthen or shorten
  every debounce and cooldown without bound.
* In `ObjectCount` coordinates are integers on a picture of `Side` units, `1.0` in the code, so
  rounding is left out; centres are doubled, corners may lie one unit outside. In `Conditions` a
  value is a type and a number counted in halves; a text of the form is one of those that
  `int()` and `float()` read, or one that neither does, the empty one among them. Two decimals that
  differ by less than a float can tell are not tried. Ids of cameras are not ids of monitors
  (`new_id` gives them other prefixes).
* Ids are not used twice (they are UUIDs). A rule created later takes part from the start in
  `EventLog`; in `Worker` it is created under an id the engine has not seen.
* In `Worker` the verdicts are arbitrary in every cycle, which is more than monitors can cause.
* In `Monitors` the order by name is left open, and of a monitor's debug picture only its failing
  is modelled. Operators work on the ids in `Edited` only, and a monitor moves among the cameras
  that `Placed` gives it. A provider that does not batch fails in one way, Hailo in two (waiting
  for a first frame, or an error), as in `worker.py:202`.
* In `EventLog` the file of a crash between `write_snapshot` and `create_event` is left out: it is
  a file without an event, which pruning removes.
* In `SnapshotStore` the directory is a set of names with the order of their modification times, which
  the code uses for nothing else, and two files are never of one age. Free space is counted in bytes,
  and a request for free space sees the disk as it is. A picture that is written in part, by a process
  that dies in `write_bytes` or on a full disk, counts as written whole, and of the failures of a listing
  only that by a file that has gone is modelled. In `LogCleanup` a log is its place in the order of age, no log is
  written while a run goes on, and which ones cannot be deleted does not change.
* In `LivePage` the content is a version number and a timestamp a number, so no two writes have one
  timestamp. The timestamp of an observation is the one of its making, which precedes its writing by
  the observations before it; `Stamp` stands for either, since a single writer records them in their
  order. Requests under way are at most `MaxFetches`: a message waits for a free one, as it does
  in a browser with its limit of connections. The answer to an operator's command is treated as one to
  a request for the fragment, though `htmx` and not `ui.ts` puts it there. The page is opened, in
  `MCLivePage`, when both requests for the first password are answered, no process has crashed and the
  cleanup is between two runs; other starts end in a state that differs from this in nothing the page
  reads.
* In `Startup` the script of `CREATE TABLE IF NOT EXISTS` statements is one step, as nothing in it
  depends on what another process does between two of its statements. That a service that has died
  is started again is systemd's doing for the worker and the API, and for one of the API's two
  processes that of uvicorn's supervisor, which replaces a child that has exited (from version
  0.30 on, which `pyproject.toml` requires).
* The board has no command of its own: it changes by `usbrelay` only. A failed call may have
  switched it or not. `history.doubt` and `history.excuse` speak of a board that starts with all
  relays off and records saying so.
* In `HailoProvider` the cameras and their monitors are read in one step, though the code reads two
  tables; a message counts as received when it is sent, so one that the bounded queue drops is one
  never sent; a child started in a request is not seen to exit within that request; the time of a
  cycle is counted in `Sleep`; the telemetry switch is modelled for an installation that enables
  the session monitor by its environment variable.

## 3. Runs

The bounds are all in the `.cfg` files or the `MC` modules: `Horizon`, `Window`,
`FirstFrameTimeout`, `Backoff`, `MaxPause`, the sets of ids, and the parts of them that operators
work on (`Tested`, `Edited`, `Placed`); and, as caps in guards, `MaxEvents` (pictures of events),
`MaxEdits` (edits of the settings, changes of the disk, failures and crashes in `SnapshotStore`; a
deletion by the API that fails is not among them), `MaxWrites` (changes of the tables behind a page),
`MaxFetches`, `MaxBreaks` (breaks of the stream, loads of the page and requests for the table around
the fragment) and `MaxCrashes` (in `Startup`). `MaxLogs` bounds the logs that `LogCleanup` begins with.
No other guard caps a counter.

| Run | Instance | Shows | Why the bounds are enough |
|---|---|---|---|
| `rule_engine` | 1 rule, 4 configurations, `Horizon` 2; every zone on a picture of 2 units; every condition of the form, 11 texts, 2 classes, saved or brought along in a row of either earlier version with 0 to 2 cameras, up to 2 detections for each of 2 monitors | `PendingIsWitnessed`, `DebounceHonoured`, `CooldownSpacing`, `UnannouncedHasACause`, and `Settles` (liveness); `ZoneCountsWhatWasDrawn`; `RulesMeanWhatWasTyped` | rules share no engine state; debounces 0, 1, 2 and negative, cooldowns 0, 1, 2 put every comparison before, at and after equality; two units and half units give every side of, on and between the edges, inside and one outside the picture; counts below, at and above each number typed, in whole and half |
| `relay_arbiter` | every list of up to 3 commands, 2 channels, 3 priorities | `WinnersLead`, `ImplementsArbitration` | three commands suffice for a leader, a rival and one that outranks or undercuts both; the theorems cover all lengths |
| `worker` | 2 rules (one with edits to a rival on the same relay), 2 relays, an unknown one | `CommandsInPriorityOrder`, `RecordTracksBoard`, `BoardFollowsRules` | conflicts need two rules; debounce, cooldown, disabling, a fail policy, an unknown relay and a dry run all occur |
| `worker_priority` | the same, undisturbed, two priorities on one relay | finding: `HigherPriorityHolds` is violated | – |
| `event_log` | 2 rules, 3 sightings of 2 cameras, `Window` 2 | `RowMatchesLog`, `NoRepeatedEvent`, `WebhookNamesItsEvent` | a second rule pushes events out of the window; two values on one camera and one on another tell apart what the search by camera confuses |
| `event_log_live` | 1 rule that waits or is disabled, `Window` 1 | `LogFollowsScene` (liveness) | one rule is enough, as rules share no row; waiting, flicker and disabling are in |
| `monitors` | 2 cameras, one of which comes and goes, 2 monitors, one of which is created, edited, deleted and moves | `StatusMatchesRules`, `FaultsAreExplained`, `HealthTellsFailures`, `NothingLeftBehind`, `StatusSettles` (liveness) | two monitors on one camera make a batch with a written and an unwritten part; the second camera shows that its failures stay its own |
| `hailo` | 2 cameras, one with two configurations, timeout 4, backoff 2, pause up to 2 | `OneChild`, `SessionCoversCycle`, `BackoffKept`, `ReliableCameraIsServed` (liveness) | a silent camera beside a reliable one, an edit of a camera, and all orders of timeout and backoff within pauses of 1 and 2 |
| `storage` | 1 monitor, 2 pictures of events of three bytes beside its own of one, size limits 4 and 2, least free space 5 and 2 on a disk of 7, of which others may take 3; one edit, failure or crash; batches of 1 (worker) and 3 (cleanup); up to 3 logs of 1 or 2 bytes, any of them stuck or passed over, every cutoff and the limits 0, 2 and 3, run after run | `OrphansAreWitnessed`, `PruningIsJustified`, `LimitIsReached` (liveness), `LogsAreCutToSize` | two pictures exceed both limits and the free space, one picture or the monitor's is within; the worker takes several cycles and the cleanup one run; an edit lowers either setting at every step, after which the worker goes by the one it read; the one monitor is deleted at every step of the others; a rewritten debug picture changes its place in the order; three logs are a stuck one, one that goes and the newest |
| `live_page` | 2 services and the cleanup, 2 columns, 2 first passwords, 1 crash; then a fragment of 2 rows, 3 changes, 2 requests under way, 1 break, load or request for the table around it | `EveryServiceStarts` (liveness), `PageNeverGoesBack`, `PageCatchesUp` (liveness) | two columns show a process that dies at the second after adding the first; two requests, of the fragment or of the table around it, and two writers are enough to overtake each other; three changes let a page miss one, catch up and miss another |
| `hailo_stall` | 2 cameras, none assumed to deliver | finding: `HealthyCamerasKeepMoving` is violated | – |
| `hailo_recovery` | 2 cameras, one reliable | finding: `RecoversFromStreamError` is violated | – |

Every passing run but `event_log_live`, which shares its module with `event_log`, also checks the
`TypeOK` of its main module (`StoreTypeOK` in `storage`). Deadlock is checked everywhere except in
`relay_arbiter`, where a call ends, and in `live_page`, where the page rests once the capped changes
are made and shown.

What the properties say, beyond their comments: `UnannouncedHasACause`, `RecordTracksBoard` and
`BoardFollowsRules` are each an exhaustive list of the reasons why something may be wrong. They hold,
and they would fail if the program had one reason more; the reasons themselves are behaviours of the
code that an operator should know (a fault during a cooldown leaves the relay where it was; a cycle
with a conflict drops the commands of *all* relays; a relay test changes the shown state and not the
relay). `OrphansAreWitnessed`, `PruningIsJustified` and `PageCatchesUp` are of the same kind: what of
a deleted monitor may stay for good, when a picture goes that need not, what an open page may miss.
`ZoneCountsWhatWasDrawn` and `RulesMeanWhatWasTyped` compare the code's chain of conversions with a
definition that knows nothing of it.

### Fairness

* The worker's loop goes on (`WF` on its steps): `run_forever` has no exit but exceptions, and
  `src/deploy/systemd/smartai-worker.service` restarts it on failure. Crashes are allowed at any
  time; `Settles`, `LogFollowsScene` and `StatusSettles` assume that they stop, and `StatusSettles`
  that nothing fails any more.
* Time passes (`WF(Tick)`).
* In `SnapshotStore` both pruners finish, systemd restarts the worker and starts the cleanup every
  hour, and a deletion begun by the API ends. What the cameras deliver, operators, the disk and
  crashes (capped by `MaxEdits`) are free; so is the choice between a picture and none.
* In `LivePage` a write once stamped is committed, the stream samples (`live_stream` is an endless
  loop with a sleep), the browser reconnects (`EventSource` does by itself) and fetches, and a request
  is answered or fails. Writes, breaks, loads and failures are free.
* In `Startup` a service goes on and is started again (`Restart=on-failure`); the cleanup, operators
  and crashes (capped) are free.
* In `HailoProvider` a *reliable* camera delivers: `WF(Frame(c))`, and a guard on `Sleep`
  (`Prompt`) that gives it its first frame before the session could time out. This is an assumption
  about cameras, stated for one camera; the others are under no obligation.

Nothing is assumed of the scene, the operators, the driver or unreliable cameras.

### Findings

1. **Priority does not hold across cycles** (`worker_priority`). `docs/architecture.md:11` has relay
   output arbitrated by priority. Only commands of the same cycle are compared, and commands are
   issued only on entering a state; a rule of lower priority that changes later takes the relay.
2. **One silent camera stops all** (`hailo_stall`). The comment at `inference/hailo.py:978` says that
   healthy cameras keep moving; the timeout for a first frame belongs to the whole session. The
   backoff is then raised by `prune_sessions` outside the worker's `try`, which ends the process,
   with its rules and relays, once per timeout. `ReliableCameraIsServed` shows what is left: the
   healthy camera is shown online again after every restart.
3. **A pipeline error before the first frame is final** (`hailo_recovery`). `src/README.md:183`
   promises that a monitor moves from `stream_error` to `online`; the error switches the
   first-frame timeout off, the child lives on, nothing restarts the pipeline.

Seen in a run as an exception that a property names, and worth an operator's knowledge:

* A rule whose condition orders a truth or a text, or names an unknown operator, is accepted by the
  form and ends the worker in every cycle until it is deleted (`rules/engine.py:44`,
  `RulesMeanWhatWasTyped`). After a monitor is given another class, its rules are false and never
  faulted.
* A zone whose corner lies on or beyond the right or lower edge counts the whole picture
  (`ZoneCountsWhatWasDrawn`).
* A rule from before monitors existed is read as one of a monitor with the id of its first camera,
  and is in fault in every cycle until it is saved again (`db.py:882`, `RulesMeanWhatWasTyped`).
* The picture of a monitor deleted in the middle of a cycle may come back, with its row, for good, and
  so may one stay whose row or whose deletion has failed (`OrphansAreWitnessed`). The worker keeps the
  old settings until it is restarted: after the least free space or the size limit was relaxed it goes
  on deleting pictures that neither asks for (`PruningIsJustified`).
* `docs/architecture.md:42` has changes of the persisted state emitted. A webhook's status
  (`db.py:802-804`), names and deletions leave the signature as it was, and so does a commit that
  another's timestamp has overtaken; a refresh that fails or finds its element replaced is not
  repeated (`PageCatchesUp`). The health panel, filled in place, may go back to an older state, and
  the monitors' outputs and debug pictures with an older answer for the table they are part of, which
  stays until the next change (`PageNeverGoesBack`, `templates/partials/monitors_table.html:26-27`).

Seen while reading and not put into a run: `retry_count` of a webhook is stored and never read (one
attempt is made); a fault's action list built by the form never holds a webhook; the storage page's
webhook settings, `FailPolicy.GLOBAL` and a relay's `global_fail_state` are stored and never
applied; `docs/architecture.md:52` speaks of one session per monitor where the code has one for all
cameras; `auth/simple.py`, `InferenceScheduler` and `HailoCameraSession` are not used by the
application.

## 4. Proofs

TLC checks the instances above; the following is proved with TLAPS for all values of the constants
that satisfy the named assumptions.

**RuleEngineProofs** (from `HorizonAssumption` and `ConfigsAssumption`: debounces and cooldowns do
not exceed the horizon). `TypeCorrect`, `WaitsAreWitnessed`, `UnannouncedOnlyForACause`,
`DebounceIsHonoured`, `CooldownIsSpaced`. The inductive invariant joins the type invariant with
`PendingIsWitnessed`, `UnannouncedHasACause` and one fact that neither states: the engine's
`last_actions_at` *is* the time of the last emission the history saw. With it the cooldown's
comparison speaks of emissions, and the two action properties follow from the invariant before the
step. Lemmas about `Evaluate` (what it returns for a disabled rule, a fault, a reached and a pending
target) carry the case split, so that each action is a page of its own.

**RelayArbiterProofs** (from `ListsAssumption`: lists are sequences of commands). `TypeCorrect`,
`WinnersAlwaysLead`, `LoopImplementsArbitration`. `TypeOK /\ WinnersLead` is inductive. From it, at
`Return`, the winners are the verdict and the list is not ambiguous; at `Raise`, in a list sorted by
priority, the winner is a top command and the clash makes the list ambiguous, and in one that is not
sorted the clash is a disagreement, which `Arbitration` allows to be refused. The other steps stutter.

**RuleEvaluationProofs** has the lemmas that the three users of `Evaluate` share: what it returns for
a disabled rule, a fault, a reached and a pending target, and that it reads nothing of a configuration
but its timing (`OnlyTimingMatters`), so that a configuration of `Worker` or `EventLog`, which has
priorities and actions too, is evaluated as its timing is.

**EventLogProofs** (from `EventLogAssumption`: forms are form configurations, the window is not
empty). `TypeCorrect`, `RowTheorem`, `WebhookTheorem`, `NoRepeatTheorem`. None of the three properties
is inductive, since what a turn does next depends on what it has read of a row that others change. The
invariant says, stage by stage, what the turn's locals still tell: that the row's key and the newest
event agree or differ as `ReadRow` found them, unless torn (`TurnMatchesLog`); that an event found for
a webhook has the turn's key (`EventNamed`); that a row which is gone was torn (`DeletedAreTorn`); and
that the newest event of a rule in the window, if there is one, is the newest ever logged
(`NewestIsLast`), which is what makes the search by `NewestOf` right.

**WorkerProofs** (from `WorkerAssumption`: finitely many rules, whose forms are configurations).
`TypeCorrect`, `PriorityOrder`, `RecordTheorem`, `BoardTheorem`. `CommandsInPriorityOrder` needs
`QueueOK`: the rules still to come are sorted, each is there once, and none outranks a command issued.
`BoardFollowsRules` speaks of the end of a cycle; the invariant carries it through the cycle in two
parts, before arbitration (`IssuedOrShown`: what an unexcused rule stands for is on the board or among
its commands) and after it (`PendingOrShown`: on the board or pending for the relay, with that rule
among its issuers). Between them lies the arbiter's verdict, for which `SameRank` is needed: the
commands of one rule have one priority.

**HailoProofs** (from `HailoAssumption`: no two streams of a table belong to one camera, and the
first-frame timeout exceeds the backoff, as 15 seconds exceed 5 in
`inference/hailo.py:222`). `TypeCorrect`,
`OneChildTheorem`, `SessionTheorem`, `BackoffTheorem`. The fingerprint tells the session
(`ActiveTellsSession`), and a session is not one whose backoff runs (`SessionNotBackedOff`). The heart is
time: a backoff that was running when a session was started is over before that session can time out
(`BackoffsOutlived`), which is where the assumption on the two constants is used.
`RestOfMissedCycle` says the same of the cameras asked for later in the cycle of the timeout, and
`StoppedBacksOff` ties the history of `BackoffKept` to the provider's dictionary.

**MonitorsProofs** (from `MonitorsAssumption`: operators edit cameras and monitors). `TypeCorrect`,
`StatusTheorem`, `FaultTheorem`, `HealthTheorem`, `LeftBehindTheorem`. The properties speak of the point
where the rules are evaluated; the invariant says the same of the monitors that have had their turn
(`StatusTracksObservations`, `UnobservedAreExplained`, `HealthTracksFailures`). They hold because a batch
is *all* the waiting monitors of one camera (`BatchIsOfOneCamera`) and a camera that has failed has none
left (`FailedAreDone`). `FreshAreNew` is the assumption that ids are not used twice, as an invariant.

**SharedDataProofs**, the live page and the start (from `LiveAssumption` and `StartAssumption`).
`TypeCorrect` is more than types: a page
that is current has missed nothing, and two writers never hold one timestamp. That the clock stays within
its bound while versions do needs `ClockCountsChanges`: every tick is a change or one about to be
committed. `NeverBackTheorem` says that a fragment that is replaced goes back only in a swap of the table
around it, which the events, the relays and the table itself do not have. It rests on `AttachedAreNew`: an
answer to one of the fragment's own requests, whose element is still in the page, is not older than what
is shown, since every swap that would make it older detaches it, the table's too. `MaxFacts` proves of the library's `Max` that it finds an element of the set, by the
well-foundedness of inclusion on finite sets. `StartTheorem` is the safe part of `EveryServiceStarts`:
whoever adds a column and whoever dies of it, a process that is ready misses none (`PastColumns`), and
`Truthful` holds.

**SharedDataProofs**, the pictures (from `StoreAssumption`: finitely many monitors, none of which is named
as an event, and a size for every picture). `StoreTypeTheorem`, `OrphansTheorem`, `PruningTheorem`, from one
invariant, `StoreInv`.

* *Orphans* (`Witnesses`). A monitor of the cycle that is no longer in the table is known to be torn; a
  picture being written is of a monitor still to do; and a file without a row belongs to a torn monitor or
  to the one being written: a crash or a failure between the two writes tears it, unless a row of an earlier
  cycle is there. So when the API deletes a monitor it either finds the row, and deletes the file
  by it, or fails to, or the monitor is torn.
* *Pruning*. `PruningIsJustified` compares two things computed at different times: the usage a pruner
  carries along, and the bytes on the disk from the deleted picture on. The usage is the sum over what is
  left of the records (`StageOK`). Whatever is older than a file a pruner noted, it noted as well, in the
  same order (`OlderAreListed`): new and rewritten files are the youngest, and what others rewrite or delete
  is noted in `touched`. Hence a file deleted in its turn is the oldest there is (`InTurn`), for *the other*
  pruner too, and so while nothing was touched the other's records lose their oldest files only
  (`YoungerRemain`). What is left of the records is then a part of what is on the disk from there on
  (`RecordsAreFromOn`), and its sum no larger. So what exceeds the limit the pruner read exceeds it on the disk,
  and that limit is the configured one or `Outdated`; the same goes for the free space, which `Check` has
  looked at. `Numbers` says that the picture of a new event is in no list.

**SharedDataProofs**, the logs (from `LogAssumption`). `LogsTheorem`: the total is that of the kept logs still
there, the loop has left behind only what it could not delete, and what it has deleted is older than
what it has not come to (`CutInProgress`); this last makes the reason of an earlier deletion outlive the
later ones.

Both add up bytes. The value of `SumFunctionOnSet` for every finite set is an induction over data, for
which the library's theorems have an operator as a parameter. `SubsetInduction` does it with a *set* of
subsets instead, by the well-foundedness of inclusion on the subsets of a finite set; `SumsAgree` and
`SumsExist` show with it that the function the definition chooses exists and is the same on every part of
a set, and `SumFacts` and `SumMonotone` follow: a sum is that of any one element and the rest, and that of
a part is no larger.

**RuleEngineProofs** also has `ZoneTheorem`: `ZoneCountsWhatWasDrawn` on a picture of any size, with the
lemmas that the worker reads a stored rectangle as its part in the picture, or as no zone (`ReadZone`),
and that cutting it off at the far edges changes the count of no box (`BoundedFacts`); and `FormTheorem`:
`RulesMeanWhatWasTyped`. What every text is read as (`ParsedFacts`) gives the comparison of any form's
condition with any count (`ConditionFacts`); a monitor's two observations stand third and fourth of all
(`ScopedFacts`) and at most one has the metric (`GroupFacts`), so a saved row answers what was meant for
every natural number of objects (`AnswerFacts`), where the property, which TLC evaluates, says it of the
`Numbers` it is checked with. The invariant `RowInv` is that a row with a monitor, of this version or the
one before, reads back as the form's rule, and one without a monitor as a rule of a monitor that is not
there. Both stand there as they stand in that run: they share nothing with the engine.

TLC has checked each inductive invariant on the instance of the component's run. What the proofs made
explicit in the models: `MaxWrites` is positive, since the clock begins at 1; the sets that operators work
on are parts of those the program knows; and there are finitely many rules, without which the list that
`BeginCycle` reads need not exist.

Only model-checked:

* liveness (`Settles`, `LogFollowsScene`, `StatusSettles`, `ReliableCameraIsServed`, `LimitIsReached`,
  `PageCatchesUp`, `EveryServiceStarts`), which needs fairness and is out of the prover's reach;
* that a run of the clean-up ends, and so reaches the state `WhatStaysFits` speaks of, for the same
  reason: `LogsTheorem` says what holds when it has.

## 5. Not modelled, and why

* **I/O with nothing to interleave**: camera capture (a URL and one subprocess call), one webhook's
  formatting and signature, sensor readings and the parsing of command output, password hashes, log
  formatting. Where a failure of one matters to its caller, the caller's model has it.
* **Login sessions**: one row is looked up per request and none depends on another.
* **Rendering**: templates, view models, the zone and rule editors of `ui.ts`, forms beyond what they
  store.
* **The bounded message queue** of the Hailo child (`inference/hailo.py:616`) is no variable. A message
  it drops is one that was never sent, and sending is already arbitrary for every camera but the
  reliable one, so the queue would add states and no behaviour.
* **The age of a frame**: no code reads one. A camera that stalls after its first frame stays online
  with its last picture (`inference/hailo.py:329`), and no document says how old a frame may be.
* **The GStreamer pipeline's text, the installer, constants, environment, mocks and unused code**
  (`auth/simple.py`, `InferenceScheduler`, `HailoCameraSession`, `current_usage_bytes`).

## 6. What is left

The components are modelled, and what the passing runs check of safety is proved for every value of the
constants. Two refinements are not stated: the cycle of `Worker` with the arbiter's turns in the
place of its verdict (`Arbitrate` implements a call of `RelayArbiter`), and the log of `EventLog` as the
worker's choice of a key.
