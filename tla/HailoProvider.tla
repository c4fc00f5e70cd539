---------------------------- MODULE HailoProvider ----------------------------
(***************************************************************************)
(* HailoGStreamerProvider and its HailoMultiCameraSession                  *)
(* (inference/hailo.py) as the worker's loop drives them: one child        *)
(* process holds the Hailo device and runs the pipeline of every camera    *)
(* that has an enabled detector monitor.  Each cycle the worker passes on  *)
(* the telemetry switch, prunes the session against the configured cameras *)
(* and asks for the latest frame of one camera after another.              *)
(*                                                                         *)
(* A stream stands for a camera as configured: its address, transport and  *)
(* frame rate, which is what a fingerprint holds.  A message of the child  *)
(* counts as received when it is sent: one that the bounded queue drops is *)
(* one never sent, and every request drains the queue before it looks.     *)
(***************************************************************************)
EXTENDS Integers, FiniteSets

CONSTANTS
    Streams, CameraOf,  \* camera configurations, and the camera each belongs to
    Tables,             \* the sets of streams the configuration may call for
    FirstFrameTimeout,  \* first_frame_timeout_seconds, in units of the clock
    Backoff,            \* restart_backoff_seconds
    Reliable,           \* cameras assumed to deliver
    MaxPause            \* bound: the longest cycle and sleep

Cameras == {CameraOf[s] : s \in Streams}
CamerasOf(ss) == {CameraOf[s] : s \in ss}

ASSUME HailoAssumption ==
    /\ Backoff \in Nat \ {0} /\ MaxPause \in Nat \ {0}
    /\ FirstFrameTimeout \in Nat /\ FirstFrameTimeout > Backoff
    /\ Reliable \subseteq Cameras
    /\ Tables \subseteq SUBSET Streams
    /\ \A ss \in Tables : \A s, t \in ss : CameraOf[s] = CameraOf[t] => s = t

VARIABLES
    table,      \* the streams with an enabled detector monitor, in the database
    asked,      \* telemetry is allowed and its state file is in force
    synced,     \* Worker._hailo_telemetry_enabled
    provider,   \* the provider, its session and the child process
    listed,     \* the streams the worker has read for this cycle
    todo,       \* cameras of this cycle still to be asked for
    pc,         \* where the worker's loop is
    answer,     \* the answer to the latest request: the health written for the camera
    history     \* history variable: see below

external == <<table, asked>>
vars == <<external, synced, provider, listed, todo, pc, answer, history>>

(***************************************************************************)
(* history.missed: a camera was given up for want of a first frame in this *)
(* cycle.  history.stopped: the streams of the session stopped for it last *)
(* and how long ago, unless that is over or the worker has restarted or    *)
(* the backoffs have been cleared since.                                   *)
(***************************************************************************)
Never == [streams |-> {}, age |-> 0]
NoAnswer == [camera |-> "none", health |-> "unknown"]

NoTime == -1

\* A session; `failed` is the state of the child's pipeline: its sources that ended or
\* broke, which nothing ever starts again.
NewSession(streams, telemetry) ==
    [streams |-> streams, process |-> "running", age |-> 0, frames |-> {}, errors |-> {},
     restartIn |-> NoTime, telemetry |-> telemetry, failed |-> {}]
NoSession == [NewSession({}, FALSE) EXCEPT !.process = "none"]

\* No backoff is an expired one.
NoBackoffs == [ss \in SUBSET Streams |-> 0]
NewProvider ==
    [session |-> NoSession, active |-> {}, backoff |-> NoBackoffs,
     telemetry |-> FALSE, telemetryError |-> FALSE, children |-> 0]

Init ==
    /\ table \in Tables /\ asked = FALSE
    /\ synced = "none"
    /\ provider = NewProvider
    /\ listed = {} /\ todo = {}
    /\ pc = "awake"
    /\ answer = NoAnswer
    /\ history = [missed |-> FALSE, stopped |-> Never]

-----------------------------------------------------------------------------
(***************************************************************************)
(* The provider's methods, on a provider p.                                *)
(***************************************************************************)

\* HailoMultiCameraSession.stop: the child is terminated, or killed.
Stopped(p) ==
    [p EXCEPT !.session.process = "none",
              !.children = @ - IF p.session.process = "running" THEN 1 ELSE 0]

Dropped(p) == [Stopped(p) EXCEPT !.session = NoSession]

BackingOff(p, streams) == p.backoff[streams] > 0

\* Mutant: the new child is started beside the old one.
StartedBeside(p, streams, telemetry) ==
    IF BackingOff(p, streams) THEN p
    ELSE [p EXCEPT !.session = NewSession(streams, telemetry),
                   !.active = streams, !.children = @ + 1]

\* _start_session_locked: what was running is stopped first, also when a backoff in force
\* then raises.
Started(p, streams, telemetry) ==
    IF BackingOff(p, streams) THEN Stopped(p)
    ELSE [Stopped(p) EXCEPT !.session = NewSession(streams, telemetry),
                            !.active = streams, !.children = @ + 1]

\* Mutant: the fingerprint of the dropped session stays.
SwitchedKeepingActive(p, enabled) ==
    [Dropped(p) EXCEPT !.telemetry = enabled, !.backoff = NoBackoffs]

\* The telemetry switch goes over to `enabled`: the session is dropped and forgotten.
Switched(p, enabled) ==
    [Dropped(p) EXCEPT !.telemetry = enabled, !.backoff = NoBackoffs, !.active = {}]

\* An error, once there was one, keeps telemetry off for the life of the worker.
Switches(p, enabled) == p.telemetry # enabled /\ ~(enabled /\ p.telemetryError)

Exited(session) == session.process = "exited"

\* first_frame_timed_out: one error of any camera holds the timeout of all back.
TimedOut(session) ==
    /\ session.process = "running"
    /\ session.frames # CamerasOf(session.streams) /\ session.errors = {}
    /\ session.age >= FirstFrameTimeout

\* latest_frame, as the camera's health shows it.
Answer(session, c) ==
    IF c \in session.frames THEN "online"
    ELSE IF c \in session.errors \/ session.age >= FirstFrameTimeout THEN "stream_error"
    ELSE "waiting"

-----------------------------------------------------------------------------
(***************************************************************************)
(* The worker's cycle.                                                     *)
(***************************************************************************)

\* The worker process ends, by an exception that leaves its loop or otherwise; systemd
\* starts it again.  Its child does not survive it.
Dies ==
    /\ provider' = NewProvider /\ synced' = "none"
    /\ listed' = {} /\ todo' = {} /\ pc' = "awake" /\ answer' = NoAnswer
    /\ history' = [missed |-> FALSE, stopped |-> Never]
    /\ UNCHANGED external

\* _sync_hailo_telemetry_state.
SyncTelemetry ==
    /\ pc = "awake"
    /\ pc' = "synced"
    /\ synced' = IF asked THEN "on" ELSE "off"
    /\ IF synced # synced' /\ Switches(provider, asked)
       THEN /\ provider' = Switched(provider, asked)
            /\ history' = [history EXCEPT !.stopped = Never]
       ELSE UNCHANGED <<provider, history>>
    /\ UNCHANGED <<external, listed, todo, answer>>

Listing ==
    /\ pc = "synced"
    /\ pc' = "cameras"
    /\ listed' = table /\ todo' = CamerasOf(table)
    /\ UNCHANGED <<external, synced, answer>>

\* prune_sessions with no camera to run.
PruneToNone ==
    /\ table = {}
    /\ Listing
    /\ provider' = [Dropped(provider) EXCEPT !.active = {}, !.backoff = NoBackoffs]
    /\ history' = [history EXCEPT !.missed = FALSE, !.stopped = Never]

\* prune_sessions.
Prune ==
    /\ table # {}
    /\ table = provider.active \/ ~BackingOff(provider, table)
    /\ Listing
    /\ provider' = IF table = provider.active THEN provider
                   ELSE Started(provider, table, provider.telemetry)
    /\ history' = [history EXCEPT !.missed = FALSE]

\* prune_sessions raises outside the loop's try.
PruneDies ==
    /\ pc = "synced"
    /\ table # {} /\ table # provider.active /\ BackingOff(provider, table)
    /\ Dies

Asking(c) == pc = "cameras" /\ c \in todo
Answered(c, health) ==
    /\ todo' = todo \ {c}
    /\ answer' = [camera |-> c, health |-> health]
    /\ UNCHANGED <<external, synced, listed, pc>>

Current == provider.session
Covers(c) == c \in CamerasOf(Current.streams)
Wanted(c) == {s \in listed : CameraOf[s] = c}

\* The session does not know the camera, or there is none: one for this camera alone.
StartForOne(c) ==
    /\ Asking(c) /\ ~Covers(c)
    /\ provider' = Started(provider, Wanted(c), provider.telemetry)
    /\ Answered(c, "waiting")
    /\ UNCHANGED history

\* A child with telemetry has exited: started again at once without it.
RestartWithoutTelemetry(c) ==
    /\ Asking(c) /\ Covers(c) /\ Exited(Current) /\ Current.telemetry
    /\ provider' = [Started(Dropped(provider), Current.streams, FALSE) EXCEPT
                        !.telemetry = FALSE, !.telemetryError = TRUE]
    /\ Answered(c, "waiting")
    /\ UNCHANGED history

\* Mutant: everyone who notices the exit starts the wait again.
NoticeExitAnew(c) ==
    /\ Asking(c) /\ Covers(c) /\ Exited(Current) /\ ~Current.telemetry
    /\ Current.restartIn # 0
    /\ provider' = [provider EXCEPT !.session.restartIn = Backoff]
    /\ Answered(c, "stream_error")
    /\ UNCHANGED history

\* The exit is noticed; the first to notice it starts the wait for the restart.
NoticeExit(c) ==
    /\ Asking(c) /\ Covers(c) /\ Exited(Current) /\ ~Current.telemetry
    /\ Current.restartIn # 0
    /\ provider' = [provider EXCEPT !.session.restartIn =
                        IF @ = NoTime THEN Backoff ELSE @]
    /\ Answered(c, "stream_error")
    /\ UNCHANGED history

RestartExited(c) ==
    /\ Asking(c) /\ Covers(c) /\ Exited(Current) /\ ~Current.telemetry
    /\ Current.restartIn = 0
    /\ provider' = Started(Dropped(provider), Current.streams, provider.telemetry)
    /\ Answered(c, "waiting")
    /\ UNCHANGED history

\* Mutant: the backoff is filed under the fingerprint that has just been cleared.
GiveUpUnderNone(c) ==
    /\ Asking(c) /\ Covers(c) /\ TimedOut(Current)
    /\ provider' = [Dropped(provider) EXCEPT !.active = {}, !.backoff[{}] = Backoff]
    /\ Answered(c, "stream_error")
    /\ history' = [missed |-> TRUE, stopped |-> [streams |-> Current.streams, age |-> 0]]

\* Some camera has sent no first frame in time: the session of all of them is stopped.
GiveUp(c) ==
    /\ Asking(c) /\ Covers(c) /\ TimedOut(Current)
    /\ provider' = [Dropped(provider) EXCEPT !.active = {},
                        !.backoff[Current.streams] = Backoff]
    /\ Answered(c, "stream_error")
    /\ history' = [missed |-> TRUE, stopped |-> [streams |-> Current.streams, age |-> 0]]

Serve(c) ==
    /\ Asking(c) /\ Covers(c) /\ ~Exited(Current) /\ ~TimedOut(Current)
    /\ Answered(c, IF Wanted(c) \subseteq Current.streams THEN Answer(Current, c)
                   ELSE "stream_error")
    /\ UNCHANGED <<provider, history>>

EndCycle ==
    /\ pc = "cameras" /\ todo = {}
    /\ pc' = "asleep" /\ listed' = {} /\ answer' = NoAnswer
    /\ UNCHANGED <<external, synced, provider, todo, history>>

-----------------------------------------------------------------------------
(***************************************************************************)
(* The child, the cameras, the configuration and the clock.                *)
(***************************************************************************)
Running(c) == Current.process = "running" /\ Covers(c)

\* A frame of c comes through the pipeline; it clears the camera's error.
Frame(c) ==
    /\ Running(c) /\ c \notin Current.failed
    /\ c \notin Current.frames \/ c \in Current.errors
    /\ provider' = [provider EXCEPT !.session.frames = @ \cup {c},
                                   !.session.errors = @ \ {c}]
    /\ UNCHANGED <<external, synced, listed, todo, pc, answer, history>>

\* The callback on a frame raises.
CallbackFails(c) ==
    /\ Running(c) /\ c \notin Current.failed
    /\ provider' = [provider EXCEPT !.session.errors = @ \cup {c}]
    /\ UNCHANGED <<external, synced, listed, todo, pc, answer, history>>

\* A GStreamer error or the end of a stream: reported for every camera.  The pipeline is
\* neither stopped nor restarted.
SourcesFail(cs) ==
    /\ cs # {} /\ \A c \in cs : Running(c)
    /\ provider' = [provider EXCEPT !.session.failed = @ \cup cs,
                                   !.session.errors = CamerasOf(Current.streams)]
    /\ UNCHANGED <<external, synced, listed, todo, pc, answer, history>>

ChildExits ==
    /\ Current.process = "running"
    /\ provider' = [provider EXCEPT !.session.process = "exited", !.children = @ - 1]
    /\ UNCHANGED <<external, synced, listed, todo, pc, answer, history>>

\* An operator edits cameras and monitors.
ConfigurationChanges ==
    /\ table' \in Tables \ {table}
    /\ UNCHANGED <<asked, synced, provider, listed, todo, pc, answer, history>>

\* The telemetry page is opened, or its deadline passes.
TelemetryChanges ==
    /\ asked' = ~asked
    /\ UNCHANGED <<table, synced, provider, listed, todo, pc, answer, history>>

\* What is assumed of a reliable camera: its first frame is there early enough to be
\* asked for before the session times out.
Prompt(d) ==
    \A c \in Reliable \ (Current.frames \cup Current.failed) :
        Running(c) => Current.age + d < FirstFrameTimeout - MaxPause

AtMost(age) == IF age > FirstFrameTimeout THEN FirstFrameTimeout ELSE age
\* Mutant: the remaining backoff is not cut off at zero.
LeftOverrun(rest, d) == rest - d

Left(rest, d) == IF rest > d THEN rest - d ELSE 0

\* The worker sleeps; the time the cycle itself takes is counted here too.
Sleep(d) ==
    /\ pc = "asleep"
    /\ Prompt(d)
    /\ pc' = "awake"
    /\ provider' = [provider EXCEPT
            !.session.age = IF Current = NoSession THEN 0 ELSE AtMost(@ + d),
            !.session.restartIn = IF @ = NoTime THEN NoTime ELSE Left(@, d),
            !.backoff = [ss \in SUBSET Streams |-> Left(@[ss], d)]]
    /\ history' = [history EXCEPT !.stopped =
                        IF @ = Never \/ @.age + d >= Backoff THEN Never
                        ELSE [streams |-> @.streams, age |-> @.age + d]]
    /\ UNCHANGED <<external, synced, listed, todo, answer>>

-----------------------------------------------------------------------------
Ask(c) ==
    \/ StartForOne(c) \/ RestartWithoutTelemetry(c) \/ NoticeExit(c) \/ RestartExited(c)
    \/ GiveUp(c) \/ Serve(c)

WorkerStep ==
    \/ SyncTelemetry \/ PruneToNone \/ Prune \/ PruneDies
    \/ \E c \in Cameras : Ask(c)
    \/ EndCycle
    \/ \E d \in 1 .. MaxPause : Sleep(d)

Environment ==
    \/ \E c \in Cameras : Frame(c) \/ CallbackFails(c)
    \/ \E cs \in SUBSET Cameras : SourcesFail(cs)
    \/ ChildExits
    \/ ConfigurationChanges \/ TelemetryChanges
    \/ Dies

Next == WorkerStep \/ Environment

Spec == Init /\ [][Next]_vars

\* The worker's loop goes on, and reliable cameras deliver.
FairSpec == Spec /\ WF_vars(WorkerStep) /\ \A c \in Reliable : WF_vars(Frame(c))

-----------------------------------------------------------------------------
Sessions ==
    [streams : SUBSET Streams, process : {"none", "running", "exited"},
     age : 0 .. FirstFrameTimeout, frames : SUBSET Cameras, errors : SUBSET Cameras,
     restartIn : {NoTime} \cup 0 .. Backoff, telemetry : BOOLEAN,
     failed : SUBSET Cameras]

Providers ==
    [session : Sessions, active : SUBSET Streams, backoff : [SUBSET Streams -> 0 .. Backoff],
     telemetry : BOOLEAN, telemetryError : BOOLEAN, children : Nat]

\* Every variable stays in its set; no backoff is longer than the one the code sets.
TypeOK ==
    /\ table \in Tables /\ asked \in BOOLEAN
    /\ synced \in {"none", "on", "off"}
    /\ provider \in Providers
    /\ listed \in Tables \cup {{}} /\ todo \subseteq CamerasOf(listed)
    /\ pc \in {"awake", "synced", "cameras", "asleep"}
    /\ answer \in [camera : Cameras \cup {"none"},
                   health : {"unknown", "waiting", "online", "stream_error"}]
    /\ history \in [missed : BOOLEAN,
                     stopped : [streams : SUBSET Streams, age : 0 .. Backoff - 1]]

\* At most one child holds the Hailo device, and it is the child of the provider's
\* session: no restart, prune, switch of telemetry or timeout leaves another behind.
OneChild == provider.children = IF Current.process = "running" THEN 1 ELSE 0

\* While the worker asks for its cameras the session runs exactly the streams it has read
\* in this cycle, and is not one that was stopped, until some camera misses its first
\* frame.  This is what comparing with _active_fingerprint alone has to achieve.
SessionCoversCycle ==
    pc = "cameras" /\ ~history.missed =>
        /\ Current.streams = listed /\ provider.active = listed
        /\ listed # {} => Current.process # "none"

\* The session stopped last for want of a first frame is not started again before its
\* backoff is over, whatever sessions were started meanwhile for other cameras.
BackoffKept ==
    [][history.stopped # Never /\ provider'.session.streams = history.stopped.streams
        => Current.streams = history.stopped.streams]_vars

\* Premises: from some time on a stream of a reliable camera is called for, nobody changes
\* the configuration or the telemetry, and neither the worker nor a child dies on its own.
Undisturbed(s) ==
    /\ CameraOf[s] \in Reliable /\ <>[](s \in table)
    /\ <>[][UNCHANGED <<table, asked>> /\ ~ChildExits /\ ~(Dies /\ ~PruneDies)]_vars

\* A reliable camera is shown online again and again, though others of the session stay
\* silent, have it given up and bring the worker down, and whatever children died before;
\* provided that in the end no pipeline is left with a source that failed.
ReliableCameraIsServed ==
    \A s \in Streams :
        Undisturbed(s) /\ <>[](Current.failed = {})
            => []<>(answer = [camera |-> CameraOf[s], health |-> "online"])

\* README.md: "A working person monitor should move from `stream_error` to `online`".  A
\* reliable camera is shown online again and again, though sources failed before.
RecoversFromStreamError ==
    \A s \in Streams :
        Undisturbed(s) /\ <>[][\A cs \in SUBSET Cameras : ~SourcesFail(cs)]_vars
            => []<>(answer = [camera |-> CameraOf[s], health |-> "online"])

\* inference/hailo.py: "Non-blocking mode keeps healthy cameras moving when one RTSP
\* source stalls."  A session is not stopped while one of its cameras delivers.
HealthyCamerasKeepMoving ==
    [][(\E c \in Cameras : GiveUp(c)) => Current.frames = {}]_vars
=============================================================================
