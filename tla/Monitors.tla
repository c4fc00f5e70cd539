------------------------------ MODULE Monitors ------------------------------
(***************************************************************************)
(* The first half of the worker's cycle (worker.py): run the monitors of   *)
(* each camera, write what they observe, their status and the camera's     *)
(* health, or on an exception fault all monitors of the camera.  The API   *)
(* process creates, edits and deletes cameras and monitors between any two *)
(* of these writes (main.py, db.py).                                       *)
(*                                                                         *)
(* The debug picture that a monitor's turn may write between its           *)
(* observations and its status is left out, but for its failing.           *)
(*                                                                         *)
(* Every monitor is enabled: the forms have no way to disable one.         *)
(***************************************************************************)
EXTENDS FiniteSets, Functions

CONSTANTS
    Cameras, Monitors,  \* ids, none of which is given twice
    Edited,             \* bound: the ids that operators create, edit and delete
    Placed              \* bound: Placed[m]: the cameras that m is attached to

ASSUME MonitorsAssumption == Edited \subseteq Cameras \cup Monitors

Healths  == {"unknown", "configured", "waiting", "online", "stream_error"}
Statuses == {"configured", "online", "waiting", "error", "camera_missing"}

VARIABLES
    cameras,    \* the cameras table: the health of every camera
    monitors,   \* the monitors table: the camera of every monitor
    runtime,    \* monitor_runtime: a status for every row
    outputs,    \* monitor_states: the monitors that have rows
    fresh,      \* ids not given yet
    forms,      \* requests that have checked a monitor's form and not saved it yet
    batching,   \* the provider answers for all monitors of a camera at once (Hailo)
    pc,         \* where the worker is
    cycle,      \* locals of process_once
    history     \* history variable: see below

tables == <<cameras, monitors, runtime, outputs>>
api == <<fresh, forms>>
vars == <<tables, api, batching, pc, cycle, history>>

(***************************************************************************)
(* cycle.cameras, cycle.monitors: the tables as read;  observed: for each  *)
(* monitor processed, whether observations_by_monitor has any;  batch: the *)
(* monitors of the camera in hand;  left: those still to be written;       *)
(* turn: the one being written;  error: the status of the error in hand.   *)
(*                                                                         *)
(* history.failed: cameras that had an exception in this cycle.  raced:    *)
(* monitors whose camera was deleted between check and save of a form.     *)
(* ghosts: monitors deleted while the worker was at work on them.          *)
(***************************************************************************)
NoCycle == [cameras |-> {}, monitors |-> <<>>, observed |-> <<>>, batch |-> {}, left |-> {},
            turn |-> "none", error |-> "none"]

With(f, x, v) == [y \in DOMAIN f \cup {x} |-> IF y = x THEN v ELSE f[y]]
Without(f, xs) == Restrict(f, DOMAIN f \ xs)

Init ==
    /\ \E cs \in SUBSET Cameras, ms \in SUBSET Monitors :
        /\ (Cameras \cup Monitors) \ Edited \subseteq cs \cup ms
        /\ cameras = [c \in cs |-> "unknown"]
        /\ monitors \in [ms -> cs] /\ \A m \in ms : monitors[m] \in Placed[m]
        /\ runtime = [m \in ms |-> "configured"]
        /\ fresh = Edited \ (cs \cup ms)
    /\ outputs = {}
    /\ forms = <<>>
    /\ batching \in BOOLEAN
    /\ pc = "idle" /\ cycle = NoCycle
    /\ history = [failed |-> {}, raced |-> {}, ghosts |-> {}]

-----------------------------------------------------------------------------
(***************************************************************************)
(* process_once up to the rules.                                           *)
(***************************************************************************)
Camera == cycle.monitors[CHOOSE m \in cycle.batch : TRUE]       \* the camera in hand
Waiting == DOMAIN cycle.monitors \ DOMAIN cycle.observed

ListCameras ==
    /\ pc = "idle"
    /\ pc' = "listing"
    /\ cycle' = [NoCycle EXCEPT !.cameras = DOMAIN cameras]
    /\ UNCHANGED <<tables, api, batching, history>>

ListMonitors ==
    /\ pc = "listing"
    /\ pc' = "loop"
    /\ cycle' = [cycle EXCEPT !.monitors = monitors]
    /\ UNCHANGED <<tables, api, batching, history>>

CameraMissing(m) ==
    /\ pc = "loop" /\ m \in Waiting /\ cycle.monitors[m] \notin cycle.cameras
    /\ cycle' = [cycle EXCEPT !.observed = With(@, m, FALSE)]
    /\ runtime' = With(runtime, m, "camera_missing")
    /\ UNCHANGED <<cameras, monitors, outputs, api, batching, pc, history>>

\* Mutant: the batch takes in the monitors of the other cameras.
BatchOfAll(m) == Waiting

\* Mutant: each monitor is a batch of its own.
BatchOfOne(m) == {m}

Batch(m) == {n \in Waiting : cycle.monitors[n] = cycle.monitors[m]}

\* The loop comes to a monitor whose camera is there: the provider answers, for the
\* whole batch or for this monitor alone.
InferenceAnswers(m) ==
    /\ pc = "loop" /\ m \in Waiting /\ cycle.monitors[m] \in cycle.cameras
    /\ pc' = "record"
    /\ cycle' = [cycle EXCEPT !.batch = Batch(m), !.left = IF batching THEN Batch(m) ELSE {m}]
    /\ UNCHANGED <<tables, api, batching, history>>

\* The provider raises, which only Hailo does in order to wait for a first frame.  After an
\* exception no monitor of the camera waits any more, so that the loop's branch for a
\* camera that has failed before is never taken.
InferenceFails(m) ==
    /\ pc = "loop" /\ m \in Waiting /\ cycle.monitors[m] \in cycle.cameras
    /\ pc' = "failing"
    /\ \E error \in IF batching THEN {"waiting", "error"} ELSE {"error"} :
        cycle' = [cycle EXCEPT !.batch = Batch(m), !.left = Batch(m), !.error = error]
    /\ history' = [history EXCEPT !.failed = @ \cup {cycle.monitors[m]}]
    /\ UNCHANGED <<tables, api, batching>>

\* The observations of one monitor: record_observation for each of its metrics.
Record(m) ==
    /\ pc = "record" /\ m \in cycle.left
    /\ pc' = "status"
    /\ cycle' = [cycle EXCEPT !.left = @ \ {m}, !.turn = m, !.observed = With(@, m, TRUE)]
    /\ outputs' = outputs \cup {m}
    /\ UNCHANGED <<cameras, monitors, runtime, api, batching, history>>

MarkOnline ==
    /\ pc = "status"
    /\ pc' = IF cycle.left = {} THEN "health" ELSE "record"
    /\ runtime' = With(runtime, cycle.turn, "online")
    /\ UNCHANGED <<cameras, monitors, outputs, api, batching, cycle, history>>

\* set_camera_health is an update: no row, no effect.
HealthSet(health) ==
    cameras' = [c \in DOMAIN cameras |-> IF c = Camera THEN health ELSE cameras[c]]

Loop == pc' = "loop" /\ cycle' = [cycle EXCEPT !.batch = {}, !.turn = "none", !.error = "none"]

\* Mutant: the health is only written when it was bad.
CameraOnlineAgain ==
    /\ pc = "health"
    /\ IF Camera \in DOMAIN cameras /\ cameras[Camera] \in {"waiting", "stream_error"}
       THEN HealthSet("online") ELSE UNCHANGED cameras
    /\ Loop
    /\ UNCHANGED <<monitors, runtime, outputs, api, batching, history>>

CameraOnline ==
    /\ pc = "health"
    /\ HealthSet("online")
    /\ Loop
    /\ UNCHANGED <<monitors, runtime, outputs, api, batching, history>>

\* Any of these steps raises: a locked database, a full disk, a plugin.
StepFails ==
    /\ pc \in {"record", "status", "health"}
    /\ pc' = "failing"
    /\ cycle' = [cycle EXCEPT !.left = cycle.batch, !.turn = "none", !.error = "error"]
    /\ history' = [history EXCEPT !.failed = @ \cup {Camera}]
    /\ UNCHANGED <<tables, api, batching>>

\* Mutant: the observations of the monitors already written are kept.
MarkFailedKeeping(m) ==
    /\ pc = "failing" /\ m \in cycle.left
    /\ cycle' = [cycle EXCEPT !.left = @ \ {m},
                              !.observed = IF m \in DOMAIN @ THEN @ ELSE With(@, m, FALSE)]
    /\ runtime' = With(runtime, m, cycle.error)
    /\ UNCHANGED <<cameras, monitors, outputs, api, batching, pc, history>>

\* The handler takes back the observations of the whole batch.
MarkFailed(m) ==
    /\ pc = "failing" /\ m \in cycle.left
    /\ cycle' = [cycle EXCEPT !.left = @ \ {m}, !.observed = With(@, m, FALSE)]
    /\ runtime' = With(runtime, m, cycle.error)
    /\ UNCHANGED <<cameras, monitors, outputs, api, batching, pc, history>>

CameraFailed ==
    /\ pc = "failing" /\ cycle.left = {}
    /\ HealthSet(IF cycle.error = "waiting" THEN "waiting" ELSE "stream_error")
    /\ Loop
    /\ UNCHANGED <<monitors, runtime, outputs, api, batching, history>>

BeginRules ==
    /\ pc = "loop" /\ Waiting = {}
    /\ pc' = "rules"
    /\ UNCHANGED <<tables, api, batching, cycle, history>>

Over(p) ==
    /\ pc' = p /\ cycle' = NoCycle
    /\ history' = [history EXCEPT !.failed = {}]
    /\ UNCHANGED <<tables, api, batching>>

\* The rules have been evaluated.
EndCycle == pc = "rules" /\ Over("idle")

\* The worker dies, also of an exception in the handler, and is restarted.
Crash == pc # "down" /\ Over("down")

Restart == pc = "down" /\ Over("idle")

\* How the rules of a monitor are evaluated at the end of the cycle.
Faulted(m) == m \notin DOMAIN cycle.observed \/ ~cycle.observed[m]

-----------------------------------------------------------------------------
(***************************************************************************)
(* The API.                                                                *)
(***************************************************************************)
CreateCamera(c) ==
    /\ c \in fresh
    /\ fresh' = fresh \ {c}
    /\ cameras' = With(cameras, c, "unknown")
    /\ UNCHANGED <<monitors, runtime, outputs, forms, batching, pc, cycle, history>>

TestCamera(c) ==
    /\ c \in DOMAIN cameras
    /\ cameras' = [cameras EXCEPT ![c] = "configured"]
    /\ UNCHANGED <<monitors, runtime, outputs, api, batching, pc, cycle, history>>

\* create_monitor and update_monitor: the monitor, for an update, and the camera are
\* there.
CheckForm(m, c) ==
    /\ m \in DOMAIN monitors \cup fresh /\ m \notin DOMAIN forms
    /\ c \in Placed[m] \cap DOMAIN cameras
    /\ forms' = With(forms, m, c)
    /\ fresh' = fresh \ {m}
    /\ UNCHANGED <<tables, batching, pc, cycle, history>>

\* Mutant: a monitor is saved without a row for its status.
SaveMonitorAlone(m) ==
    /\ m \in DOMAIN forms
    /\ forms' = Without(forms, {m})
    /\ monitors' = With(monitors, m, forms[m])
    /\ history' = [history EXCEPT !.ghosts = @ \ {m},
            !.raced = IF forms[m] \in DOMAIN cameras THEN @ \ {m} ELSE @ \cup {m}]
    /\ UNCHANGED <<cameras, runtime, outputs, fresh, batching, pc, cycle>>

\* save_monitor: an upsert, which brings a monitor back that was deleted meanwhile.
SaveMonitor(m) ==
    /\ m \in DOMAIN forms
    /\ forms' = Without(forms, {m})
    /\ monitors' = With(monitors, m, forms[m])
    /\ runtime' = IF m \in DOMAIN runtime THEN runtime ELSE With(runtime, m, "configured")
    /\ history' = [history EXCEPT !.ghosts = @ \ {m},
            !.raced = IF forms[m] \in DOMAIN cameras THEN @ \ {m} ELSE @ \cup {m}]
    /\ UNCHANGED <<cameras, outputs, fresh, batching, pc, cycle>>

AtWork(m) == pc \notin {"idle", "listing", "rules", "down"} /\ m \in DOMAIN cycle.monitors

\* Mutant: the rows of monitor_states stay.
RowsDeletedButOutputs(ms) ==
    /\ monitors' = Without(monitors, ms)
    /\ runtime' = Without(runtime, ms)
    /\ UNCHANGED outputs

\* _delete_monitor_rows for each of ms.
RowsDeleted(ms) ==
    /\ monitors' = Without(monitors, ms)
    /\ runtime' = Without(runtime, ms)
    /\ outputs' = outputs \ ms

Deleted(ms) ==
    /\ RowsDeleted(ms)
    /\ history' = [history EXCEPT !.raced = @ \ ms,
            !.ghosts = @ \cup {m \in ms : AtWork(m)}]
    /\ UNCHANGED <<fresh, forms, batching, pc, cycle>>

DeleteMonitor(m) ==
    /\ m \in DOMAIN monitors
    /\ Deleted({m})
    /\ UNCHANGED cameras

\* One transaction for the camera and its monitors.
DeleteCamera(c) ==
    /\ c \in DOMAIN cameras
    /\ cameras' = Without(cameras, {c})
    /\ Deleted({m \in DOMAIN monitors : monitors[m] = c})

-----------------------------------------------------------------------------
WorkerStep ==
    \/ ListCameras \/ ListMonitors
    \/ \E m \in Monitors :
        CameraMissing(m) \/ InferenceAnswers(m) \/ Record(m) \/ MarkFailed(m)
    \/ MarkOnline
    \/ CameraOnline \/ CameraFailed \/ BeginRules \/ EndCycle \/ Restart

Failure == StepFails \/ \E m \in Monitors : InferenceFails(m)

Api ==
    \/ \E c \in Cameras \cap Edited : CreateCamera(c) \/ TestCamera(c) \/ DeleteCamera(c)
    \/ \E m \in Monitors \cap Edited :
        (\E c \in Cameras : CheckForm(m, c)) \/ SaveMonitor(m) \/ DeleteMonitor(m)

Next == WorkerStep \/ Failure \/ Crash \/ Api

Spec == Init /\ [][Next]_vars

\* The worker's loop goes on, and systemd restarts the worker.
FairSpec == Spec /\ WF_vars(WorkerStep)

-----------------------------------------------------------------------------
\* Every variable stays in its set, and every monitor has a status.
TypeOK ==
    /\ DOMAIN cameras \subseteq Cameras /\ Range(cameras) \subseteq Healths
    /\ DOMAIN monitors \subseteq Monitors /\ Range(monitors) \subseteq Cameras
    /\ DOMAIN monitors \subseteq DOMAIN runtime
    /\ DOMAIN runtime \subseteq Monitors /\ Range(runtime) \subseteq Statuses
    /\ outputs \subseteq Monitors
    /\ DOMAIN forms \subseteq Monitors /\ Range(forms) \subseteq Cameras
    /\ fresh \subseteq Cameras \cup Monitors /\ batching \in BOOLEAN
    /\ pc \in {"idle", "listing", "loop", "record", "status", "health", "failing", "rules", "down"}
    /\ cycle.left \subseteq cycle.batch
    /\ DOMAIN cycle.observed \cup cycle.batch \subseteq DOMAIN cycle.monitors

\* When the rules are evaluated, a monitor is shown online if and only if its rules are
\* evaluated on what it observed in this cycle, whatever step failed after its status was
\* written; unless it has been deleted and saved again meanwhile.
StatusMatchesRules ==
    pc = "rules" =>
        \A m \in DOMAIN cycle.monitors \cap DOMAIN monitors :
            runtime[m] # "configured" => (runtime[m] = "online" <=> ~Faulted(m))

\* A rule of an existing monitor is faulted only because the monitor was not there when
\* the cycle read the table, its camera was not, or its own camera failed in this cycle.
FaultsAreExplained ==
    pc = "rules" =>
        \A m \in DOMAIN monitors : Faulted(m) =>
            \/ m \notin DOMAIN cycle.monitors
            \/ cycle.monitors[m] \notin cycle.cameras
            \/ cycle.monitors[m] \in history.failed

\* The health of a camera with monitors tells at the end of the loop whether it failed in
\* this cycle, in whichever order its monitors were run, unless an operator reset it.
HealthTellsFailures ==
    pc = "rules" =>
        \A c \in DOMAIN cameras \cap cycle.cameras \cap Range(cycle.monitors) :
            cameras[c] # "configured" =>
                (cameras[c] = "online" <=> c \notin history.failed)

\* Rows outlive their monitor only if it was deleted while the worker was at work on it,
\* and a monitor outlives its camera only if its form was checked before the camera went.
NothingLeftBehind ==
    /\ \A m \in Monitors \ DOMAIN monitors :
        m \in DOMAIN runtime \cup outputs => m \in history.ghosts
    /\ \A m \in DOMAIN monitors : monitors[m] \notin DOMAIN cameras => m \in history.raced

Attached(m, c) == c \in DOMAIN cameras /\ m \in DOMAIN monitors /\ monitors[m] = c
Online(m, c) == Attached(m, c) /\ runtime[m] = "online" /\ cameras[c] = "online"

\* If nothing fails any more, every monitor that stays attached to a camera is shown online
\* again and again, and the camera too, even if operators keep resetting its health: no
\* earlier failure, race or crash leaves a stale status.
Calm == history.failed = {} /\ pc # "down"

StatusSettles ==
    \A m \in Monitors : \A c \in Placed[m] :
        []<>((Calm /\ Attached(m, c)) => Online(m, c))
=============================================================================
