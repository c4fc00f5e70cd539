---------------------------- MODULE MonitorsProofs ----------------------------
(***************************************************************************)
(* Proofs about the monitors' half of the worker's cycle: for any cameras  *)
(* and monitors, and any edits, failures and crashes between two writes,   *)
(* what the status, the health and the faults tell when the rules are      *)
(* evaluated, and what rows may be left behind.                            *)
(***************************************************************************)
EXTENDS Monitors, TLAPS

-----------------------------------------------------------------------------
(***************************************************************************)
(* The inductive invariant.                                                *)
(***************************************************************************)
PartialFunctions(S, T) == UNION {[D -> T] : D \in SUBSET S}

Cycles ==
    [cameras : SUBSET Cameras, monitors : PartialFunctions(Monitors, Cameras),
     observed : PartialFunctions(Monitors, BOOLEAN), batch : SUBSET Monitors,
     left : SUBSET Monitors, turn : Monitors \cup {"none"},
     error : {"none", "waiting", "error"}]

\* TypeOK, with the types of the maps as such.
Types ==
    /\ cameras \in PartialFunctions(Cameras, Healths)
    /\ monitors \in PartialFunctions(Monitors, Cameras)
    /\ runtime \in PartialFunctions(Monitors, Statuses)
    /\ DOMAIN monitors \subseteq DOMAIN runtime
    /\ outputs \subseteq Monitors
    /\ forms \in PartialFunctions(Monitors, Cameras)
    /\ fresh \subseteq Cameras \cup Monitors /\ batching \in BOOLEAN
    /\ pc \in {"idle", "listing", "loop", "record", "status", "health", "failing", "rules", "down"}
    /\ cycle \in Cycles /\ cycle.left \subseteq cycle.batch
    /\ DOMAIN cycle.observed \cup cycle.batch \subseteq DOMAIN cycle.monitors
    /\ history \in [failed : SUBSET Cameras, raced : SUBSET Monitors,
                     ghosts : SUBSET Monitors]

InHand == pc \in {"record", "status", "health", "failing"}

\* What the worker holds at each point of its loop.
PhaseOK ==
    /\ pc \in {"idle", "listing", "down"} =>
            cycle.monitors = <<>> /\ cycle.observed = <<>> /\ history.failed = {}
    /\ ~InHand => cycle.batch = {} /\ cycle.left = {}
    /\ InHand => cycle.batch # {} /\ Camera \in cycle.cameras
    /\ pc = "record" => cycle.left # {}
    /\ pc = "health" => cycle.left = {}
    /\ pc = "status" => cycle.turn \in cycle.batch
                        /\ cycle.turn \in DOMAIN cycle.observed /\ cycle.observed[cycle.turn]
    /\ pc = "failing" => cycle.error # "none"
    /\ pc = "rules" => Waiting = {}

\* The camera in hand is the one of the whole batch, which takes in all its monitors that
\* still wait; an error leaves none of them out.
BatchIsOfOneCamera ==
    InHand =>
        /\ \A m \in cycle.batch : cycle.monitors[m] = Camera
        /\ \A m \in Waiting : cycle.monitors[m] = Camera => m \in cycle.batch
        /\ pc = "failing" =>
            \A m \in Waiting : cycle.monitors[m] = Camera => m \in cycle.left
        /\ Camera \in history.failed <=> pc = "failing"

\* A camera that has failed has no monitor left that waits, but in the handler's hand.
FailedAreDone ==
    \A m \in Waiting :
        cycle.monitors[m] \in history.failed =>
            pc = "failing" /\ cycle.monitors[m] = Camera

\* The status of a monitor that has had its turn tells whether it was observed.
Pending(m) == (pc = "status" /\ m = cycle.turn) \/ (pc = "failing" /\ m \in cycle.left)

StatusTracksObservations ==
    \A m \in DOMAIN cycle.observed \cap DOMAIN runtime :
        ~Pending(m) /\ runtime[m] # "configured" =>
            (runtime[m] = "online" <=> cycle.observed[m])

\* A monitor without observations has no camera, or one that failed.
UnobservedAreExplained ==
    \A m \in DOMAIN cycle.observed :
        ~cycle.observed[m] =>
            \/ cycle.monitors[m] \notin cycle.cameras
            \/ cycle.monitors[m] \in history.failed

\* The health of a camera that has had a turn and is not in hand tells whether it failed.
HealthTracksFailures ==
    \A m \in DOMAIN cycle.observed :
        LET c == cycle.monitors[m]
        IN  /\ c \in DOMAIN cameras \cap cycle.cameras
            /\ InHand => c # Camera
            /\ cameras[c] # "configured"
            => (cameras[c] = "online" <=> c \notin history.failed)

\* The id of a camera is never given again.
FreshAreNew == fresh \cap (DOMAIN cameras \cup cycle.cameras) = {}

\* A monitor that the worker is at work on is there, or was deleted meanwhile.
WorkIsKnown ==
    \A m \in DOMAIN cycle.monitors : AtWork(m) => m \in DOMAIN monitors \cup history.ghosts

IInv ==
    /\ Types
    /\ PhaseOK
    /\ BatchIsOfOneCamera
    /\ FailedAreDone
    /\ StatusTracksObservations
    /\ UnobservedAreExplained
    /\ HealthTracksFailures
    /\ FreshAreNew
    /\ WorkIsKnown
    /\ NothingLeftBehind

-----------------------------------------------------------------------------
(* Maps. *)

\* A map is a function on its domain.
LEMMA MapFacts ==
    ASSUME NEW S, NEW T, NEW f
    PROVE  f \in PartialFunctions(S, T) <=> f \in [DOMAIN f -> T] /\ DOMAIN f \subseteq S
BY DEF PartialFunctions

\* The empty map.
LEMMA EmptyMap ==
    ASSUME NEW S, NEW T
    PROVE  <<>> \in PartialFunctions(S, T) /\ DOMAIN <<>> = {}
<1>1. DOMAIN <<>> = {} /\ <<>> \in [{} -> T]
  OBVIOUS
<1>2. QED
  BY <1>1, MapFacts

\* Setting one entry of a map.
LEMMA WithFacts ==
    ASSUME NEW S, NEW T, NEW f \in PartialFunctions(S, T), NEW x \in S, NEW v \in T
    PROVE  LET g == With(f, x, v)
           IN  /\ g \in PartialFunctions(S, T)
               /\ DOMAIN g = DOMAIN f \cup {x} /\ g[x] = v
               /\ \A y \in DOMAIN f : y # x => g[y] = f[y]
BY MapFacts DEF With

\* Removing entries from a map.
LEMMA WithoutFacts ==
    ASSUME NEW f, NEW xs
    PROVE  LET g == Without(f, xs)
           IN  DOMAIN g = DOMAIN f \ xs /\ \A y \in DOMAIN g : g[y] = f[y]
BY DEF Without, Restrict

\* Removing entries keeps the type of a map.
LEMMA WithoutTypes ==
    ASSUME NEW S, NEW T, NEW f \in PartialFunctions(S, T), NEW xs
    PROVE  Without(f, xs) \in PartialFunctions(S, T)
BY MapFacts DEF Without, Restrict

\* The types of the maps give those of their entries.
LEMMA TypesFromMaps == Types => TypeOK
<1> SUFFICES ASSUME Types PROVE TypeOK
  OBVIOUS
<1>1. /\ cameras \in [DOMAIN cameras -> Healths] /\ DOMAIN cameras \subseteq Cameras
      /\ monitors \in [DOMAIN monitors -> Cameras] /\ DOMAIN monitors \subseteq Monitors
      /\ runtime \in [DOMAIN runtime -> Statuses] /\ DOMAIN runtime \subseteq Monitors
      /\ forms \in [DOMAIN forms -> Cameras] /\ DOMAIN forms \subseteq Monitors
  BY MapFacts DEF Types
<1>2. QED
  BY <1>1 DEF Types, TypeOK, Range

-----------------------------------------------------------------------------
(* The locals of process_once. *)

Chosen(S) == CHOOSE m \in S : TRUE

\* The camera in hand depends on the monitors read and the batch only.
LEMMA CameraFacts ==
    /\ Camera = cycle.monitors[Chosen(cycle.batch)]
    /\ Camera' = cycle'.monitors[Chosen(cycle'.batch)]
    /\ \A S : S # {} => Chosen(S) \in S
BY DEF Camera, Chosen

\* What the invariant says of the locals.
LEMMA LocalFacts ==
    ASSUME IInv
    PROVE  /\ cycle \in Cycles /\ cycle.cameras \subseteq Cameras
           /\ cycle.monitors \in [DOMAIN cycle.monitors -> Cameras]
           /\ DOMAIN cycle.monitors \subseteq Monitors
           /\ cycle.observed \in [DOMAIN cycle.observed -> BOOLEAN]
           /\ cycle.observed \in PartialFunctions(Monitors, BOOLEAN)
           /\ DOMAIN cycle.observed \subseteq DOMAIN cycle.monitors
           /\ cycle.batch \subseteq DOMAIN cycle.monitors
           /\ cycle.left \subseteq cycle.batch
           /\ history.failed \subseteq Cameras
           /\ InHand => /\ Chosen(cycle.batch) \in cycle.batch
                        /\ Camera \in cycle.cameras
                        /\ \A m \in cycle.batch : cycle.monitors[m] = Camera
<1>1. /\ cycle \in Cycles /\ cycle.monitors \in PartialFunctions(Monitors, Cameras)
      /\ cycle.observed \in PartialFunctions(Monitors, BOOLEAN)
      /\ cycle.cameras \subseteq Cameras /\ history.failed \subseteq Cameras
  BY DEF IInv, Types, Cycles
<1>2. /\ cycle.batch \subseteq DOMAIN cycle.monitors /\ cycle.left \subseteq cycle.batch
      /\ DOMAIN cycle.observed \subseteq DOMAIN cycle.monitors
  BY DEF IInv, Types
<1>3. InHand => /\ Chosen(cycle.batch) \in cycle.batch
                /\ Camera \in cycle.cameras
                /\ \A m \in cycle.batch : cycle.monitors[m] = Camera
  BY CameraFacts DEF IInv, PhaseOK, BatchIsOfOneCamera
<1>4. QED
  BY <1>1, <1>2, <1>3, MapFacts

-----------------------------------------------------------------------------
(***************************************************************************)
(* The API.  Nothing it does disturbs what the worker holds: it removes    *)
(* rows, or adds rows that are "configured" or that the cycle does not     *)
(* know.                                                                   *)
(***************************************************************************)
LEMMA ApiStep ==
    ASSUME IInv, Types',
           cycle' = cycle, pc' = pc, history'.failed = history.failed,
           \A m \in DOMAIN runtime' :
                \/ m \in DOMAIN runtime /\ runtime'[m] = runtime[m]
                \/ runtime'[m] = "configured",
           \A c \in DOMAIN cameras' :
                \/ c \in DOMAIN cameras /\ cameras'[c] = cameras[c]
                \/ cameras'[c] = "configured"
                \/ c \notin cycle.cameras,
           FreshAreNew', WorkIsKnown', NothingLeftBehind'
    PROVE  IInv'
<1>1. Camera' = Camera /\ InHand' = InHand /\ Waiting' = Waiting
  BY CameraFacts DEF InHand, Waiting
<1>2. PhaseOK' /\ BatchIsOfOneCamera' /\ FailedAreDone' /\ UnobservedAreExplained'
  BY <1>1 DEF IInv, PhaseOK, BatchIsOfOneCamera, FailedAreDone, UnobservedAreExplained
<1>3. StatusTracksObservations'
  BY DEF IInv, StatusTracksObservations, Pending
<1>4. HealthTracksFailures'
  BY <1>1 DEF IInv, HealthTracksFailures
<1>5. QED
  BY <1>2, <1>3, <1>4 DEF IInv

\* A camera is created, with an id that was never given.
LEMMA CreateCameraStep ==
    ASSUME IInv, NEW c \in Cameras \cap Edited, CreateCamera(c)
    PROVE  IInv'
<1>1. /\ cameras' \in PartialFunctions(Cameras, Healths)
      /\ DOMAIN cameras' = DOMAIN cameras \cup {c}
      /\ \A d \in DOMAIN cameras : d # c => cameras'[d] = cameras[d]
  <2>1. cameras \in PartialFunctions(Cameras, Healths) /\ "unknown" \in Healths
        /\ c \in Cameras
    BY DEF IInv, Types, Healths
  <2> DEFINE g == With(cameras, c, "unknown")
  <2>2. /\ g \in PartialFunctions(Cameras, Healths) /\ DOMAIN g = DOMAIN cameras \cup {c}
        /\ \A d \in DOMAIN cameras : d # c => g[d] = cameras[d]
    BY <2>1, WithFacts
  <2>3. cameras' = g
    BY DEF CreateCamera
  <2>4. QED
    BY <2>2, <2>3
<1>2. UNCHANGED <<monitors, runtime, outputs, forms, batching, pc, cycle, history>>
      /\ fresh' = fresh \ {c} /\ c \in fresh
  BY DEF CreateCamera
<1>3. Types'
  BY <1>1, <1>2 DEF IInv, Types
<1>5. c \notin cycle.cameras
  BY <1>2 DEF IInv, FreshAreNew
<1>6. FreshAreNew' /\ WorkIsKnown' /\ NothingLeftBehind'
  BY <1>1, <1>2 DEF IInv, FreshAreNew, WorkIsKnown, AtWork, NothingLeftBehind
<1>7. QED
  BY <1>1, <1>2, <1>3, <1>5, <1>6, ApiStep

\* A camera's test resets its health.
LEMMA TestCameraStep ==
    ASSUME IInv, NEW c \in Cameras \cap Edited, TestCamera(c)
    PROVE  IInv'
<1>1. /\ cameras \in [DOMAIN cameras -> Healths] /\ DOMAIN cameras \subseteq Cameras
      /\ "configured" \in Healths
  BY MapFacts DEF IInv, Types, Healths
<1>2. cameras' = [cameras EXCEPT ![c] = "configured"] /\ c \in DOMAIN cameras
      /\ UNCHANGED <<monitors, runtime, outputs, fresh, forms, batching, pc, cycle, history>>
  BY DEF TestCamera, api
<1>3. /\ cameras' \in PartialFunctions(Cameras, Healths) /\ DOMAIN cameras' = DOMAIN cameras
      /\ cameras'[c] = "configured"
      /\ \A d \in DOMAIN cameras : d # c => cameras'[d] = cameras[d]
  BY <1>1, <1>2, MapFacts
<1>4. Types'
  BY <1>2, <1>3 DEF IInv, Types
<1>5. FreshAreNew' /\ WorkIsKnown' /\ NothingLeftBehind'
  BY <1>2, <1>3 DEF IInv, FreshAreNew, WorkIsKnown, AtWork, NothingLeftBehind
<1>6. QED
  BY <1>2, <1>3, <1>4, <1>5, ApiStep

\* A form is checked.
LEMMA CheckFormStep ==
    ASSUME IInv, NEW m \in Monitors \cap Edited, NEW c \in Cameras, CheckForm(m, c)
    PROVE  IInv'
<1>1. /\ UNCHANGED <<cameras, monitors, runtime, outputs, batching, pc, cycle, history>>
      /\ forms' = With(forms, m, c) /\ fresh' = fresh \ {m}
  BY DEF CheckForm, tables
<1>2. forms' \in PartialFunctions(Monitors, Cameras)
  <2>1. forms \in PartialFunctions(Monitors, Cameras) /\ m \in Monitors
    BY DEF IInv, Types
  <2>2. With(forms, m, c) \in PartialFunctions(Monitors, Cameras)
    BY <2>1, WithFacts
  <2>3. QED
    BY <1>1, <2>2
<1>3. Types'
  BY <1>1, <1>2 DEF IInv, Types
<1>4. FreshAreNew' /\ WorkIsKnown' /\ NothingLeftBehind'
  BY <1>1 DEF IInv, FreshAreNew, WorkIsKnown, AtWork, NothingLeftBehind
<1>5. QED
  BY <1>1, <1>3, <1>4, ApiStep

\* A monitor is saved, also one that was deleted meanwhile, or whose camera was.
LEMMA SaveMonitorStep ==
    ASSUME IInv, NEW m \in Monitors \cap Edited, SaveMonitor(m)
    PROVE  IInv'
<1>1. /\ monitors \in PartialFunctions(Monitors, Cameras)
      /\ runtime \in PartialFunctions(Monitors, Statuses) /\ "configured" \in Statuses
      /\ forms \in PartialFunctions(Monitors, Cameras) /\ m \in Monitors
      /\ m \in DOMAIN forms /\ forms[m] \in Cameras
      /\ UNCHANGED <<cameras, outputs, fresh, batching, pc, cycle>>
  BY MapFacts DEF IInv, Types, Statuses, SaveMonitor
<1>2. /\ forms' \in PartialFunctions(Monitors, Cameras)
      /\ monitors' \in PartialFunctions(Monitors, Cameras)
      /\ DOMAIN monitors' = DOMAIN monitors \cup {m} /\ monitors'[m] = forms[m]
      /\ \A n \in DOMAIN monitors : n # m => monitors'[n] = monitors[n]
  <2> DEFINE f == Without(forms, {m})
             g == With(monitors, m, forms[m])
  <2>1. f \in PartialFunctions(Monitors, Cameras)
    BY <1>1, WithoutTypes
  <2>2. /\ g \in PartialFunctions(Monitors, Cameras)
        /\ DOMAIN g = DOMAIN monitors \cup {m} /\ g[m] = forms[m]
        /\ \A n \in DOMAIN monitors : n # m => g[n] = monitors[n]
    BY <1>1, WithFacts
  <2>3. forms' = f /\ monitors' = g
    BY DEF SaveMonitor
  <2>4. QED
    BY <2>1, <2>2, <2>3
<1>3. /\ runtime' \in PartialFunctions(Monitors, Statuses)
      /\ DOMAIN runtime' = DOMAIN runtime \cup {m}
      /\ \A n \in DOMAIN runtime : runtime'[n] = runtime[n]
      /\ m \notin DOMAIN runtime => runtime'[m] = "configured"
  <2>1. CASE m \in DOMAIN runtime
    BY <1>1, <2>1 DEF SaveMonitor
  <2>2. CASE m \notin DOMAIN runtime
    <3> DEFINE g == With(runtime, m, "configured")
    <3>1. g \in PartialFunctions(Monitors, Statuses)
      BY <1>1, WithFacts
    <3>2. /\ DOMAIN g = DOMAIN runtime \cup {m} /\ g[m] = "configured"
          /\ \A n \in DOMAIN runtime : n # m => g[n] = runtime[n]
      BY DEF With
    <3>3. runtime' = g
      BY <2>2 DEF SaveMonitor
    <3> HIDE DEF g
    <3>4. QED
      BY <2>2, <3>1, <3>2, <3>3
  <2>3. QED
    BY <2>1, <2>2
<1>4. /\ history' \in [failed : SUBSET Cameras, raced : SUBSET Monitors,
                       ghosts : SUBSET Monitors]
      /\ history'.failed = history.failed /\ history'.ghosts = history.ghosts \ {m}
      /\ history'.raced = IF forms[m] \in DOMAIN cameras THEN history.raced \ {m}
                          ELSE history.raced \cup {m}
  BY <1>1 DEF IInv, Types, SaveMonitor
<1>5. Types'
  BY <1>1, <1>2, <1>3, <1>4 DEF IInv, Types
<1>6. FreshAreNew' /\ WorkIsKnown'
  BY <1>1, <1>2, <1>4 DEF IInv, FreshAreNew, WorkIsKnown, AtWork
<1>7. NothingLeftBehind'
  BY <1>1, <1>2, <1>3, <1>4 DEF IInv, NothingLeftBehind
<1>8. QED
  BY <1>1, <1>3, <1>4, <1>5, <1>6, <1>7, ApiStep

\* Monitors are deleted, by themselves or with their camera.
LEMMA DeleteStep ==
    ASSUME IInv, NEW ms \in SUBSET DOMAIN monitors, Deleted(ms),
           \/ UNCHANGED cameras
           \/ \E c \in DOMAIN cameras :
                /\ cameras' = Without(cameras, {c})
                /\ ms = {m \in DOMAIN monitors : monitors[m] = c}
    PROVE  IInv'
<1>1. /\ cameras \in PartialFunctions(Cameras, Healths)
      /\ monitors \in PartialFunctions(Monitors, Cameras)
      /\ runtime \in PartialFunctions(Monitors, Statuses)
      /\ DOMAIN monitors \subseteq Monitors
      /\ UNCHANGED <<fresh, forms, batching, pc, cycle>> /\ outputs' = outputs \ ms
      /\ monitors' = Without(monitors, ms) /\ runtime' = Without(runtime, ms)
  BY MapFacts DEF IInv, Types, Deleted, RowsDeleted
<1>2. /\ monitors' \in PartialFunctions(Monitors, Cameras)
      /\ DOMAIN monitors' = DOMAIN monitors \ ms
      /\ \A m \in DOMAIN monitors' : monitors'[m] = monitors[m]
      /\ runtime' \in PartialFunctions(Monitors, Statuses)
      /\ DOMAIN runtime' = DOMAIN runtime \ ms
      /\ \A m \in DOMAIN runtime' : runtime'[m] = runtime[m]
  <2> DEFINE f == Without(monitors, ms)
             g == Without(runtime, ms)
  <2>1. /\ f \in PartialFunctions(Monitors, Cameras) /\ DOMAIN f = DOMAIN monitors \ ms
        /\ \A m \in DOMAIN f : f[m] = monitors[m]
    BY <1>1, WithoutFacts, WithoutTypes
  <2>2. /\ g \in PartialFunctions(Monitors, Statuses) /\ DOMAIN g = DOMAIN runtime \ ms
        /\ \A m \in DOMAIN g : g[m] = runtime[m]
    BY <1>1, WithoutFacts, WithoutTypes
  <2> HIDE DEF f, g
  <2>3. monitors' = f /\ runtime' = g
    BY <1>1 DEF f, g
  <2>4. QED
    BY <2>1, <2>2, <2>3
<1>3. /\ cameras' \in PartialFunctions(Cameras, Healths)
      /\ \A c \in DOMAIN cameras' : c \in DOMAIN cameras /\ cameras'[c] = cameras[c]
      /\ \A m \in DOMAIN monitors' :
            monitors[m] \in DOMAIN cameras => monitors[m] \in DOMAIN cameras'
  <2>1. CASE UNCHANGED cameras
    BY <1>1, <2>1
  <2>2. ASSUME NEW c \in DOMAIN cameras, cameras' = Without(cameras, {c}),
               ms = {m \in DOMAIN monitors : monitors[m] = c}
        PROVE  <1>3!:
    <3> DEFINE g == Without(cameras, {c})
    <3>1. /\ g \in PartialFunctions(Cameras, Healths) /\ DOMAIN g = DOMAIN cameras \ {c}
          /\ \A d \in DOMAIN g : g[d] = cameras[d]
      BY <1>1, WithoutFacts, WithoutTypes
    <3> HIDE DEF g
    <3>2. cameras' = g
      BY <2>2 DEF g
    <3>3. QED
      BY <1>2, <2>2, <3>1, <3>2
  <2>3. QED
    BY <2>1, <2>2
<1>4. /\ history' \in [failed : SUBSET Cameras, raced : SUBSET Monitors,
                       ghosts : SUBSET Monitors]
      /\ history'.failed = history.failed /\ history'.raced = history.raced \ ms
      /\ history'.ghosts = history.ghosts \cup {m \in ms : AtWork(m)}
  BY <1>1 DEF IInv, Types, Deleted
<1>5. Types'
  BY <1>1, <1>2, <1>3, <1>4 DEF IInv, Types
<1>6. FreshAreNew' /\ WorkIsKnown'
  BY <1>1, <1>2, <1>3, <1>4 DEF IInv, FreshAreNew, WorkIsKnown, AtWork
<1>7. NothingLeftBehind'
  BY <1>1, <1>2, <1>3, <1>4 DEF IInv, NothingLeftBehind
<1>8. QED
  BY <1>1, <1>2, <1>3, <1>4, <1>5, <1>6, <1>7, ApiStep

-----------------------------------------------------------------------------
(* The worker. *)

\* An entry of observations_by_monitor set.
LEMMA ObservedFacts ==
    ASSUME IInv, NEW m \in DOMAIN cycle.monitors, NEW v \in BOOLEAN
    PROVE  LET o == With(cycle.observed, m, v)
           IN  /\ o \in PartialFunctions(Monitors, BOOLEAN)
               /\ DOMAIN o = DOMAIN cycle.observed \cup {m} /\ o[m] = v
               /\ \A n \in DOMAIN cycle.observed : n # m => o[n] = cycle.observed[n]
<1> DEFINE o == With(cycle.observed, m, v)
<1>1. o \in PartialFunctions(Monitors, BOOLEAN)
  BY LocalFacts, WithFacts
<1>2. /\ DOMAIN o = DOMAIN cycle.observed \cup {m} /\ o[m] = v
      /\ \A n \in DOMAIN cycle.observed : n # m => o[n] = cycle.observed[n]
  BY DEF With
<1>3. QED
  BY <1>1, <1>2

\* A status written.
LEMMA StatusFacts ==
    ASSUME IInv, NEW m \in DOMAIN cycle.monitors, NEW s \in Statuses
    PROVE  LET r == With(runtime, m, s)
           IN  /\ r \in PartialFunctions(Monitors, Statuses)
               /\ DOMAIN r = DOMAIN runtime \cup {m} /\ r[m] = s
               /\ \A n \in DOMAIN runtime : n # m => r[n] = runtime[n]
<1> DEFINE r == With(runtime, m, s)
<1>1. r \in PartialFunctions(Monitors, Statuses)
  <2>1. runtime \in PartialFunctions(Monitors, Statuses) /\ m \in Monitors
    BY LocalFacts DEF IInv, Types
  <2>2. QED
    BY <2>1, WithFacts
<1>2. /\ DOMAIN r = DOMAIN runtime \cup {m} /\ r[m] = s
      /\ \A n \in DOMAIN runtime : n # m => r[n] = runtime[n]
  BY DEF With
<1>3. QED
  BY <1>1, <1>2

\* A status or an observation written for a monitor the worker is at work on leaves no row
\* behind that NothingLeftBehind does not know of.
LEMMA RowsOfWork ==
    ASSUME IInv, NEW m \in DOMAIN cycle.monitors, AtWork(m),
           DOMAIN runtime' \subseteq DOMAIN runtime \cup {m}, outputs' \subseteq outputs \cup {m},
           monitors' = monitors, DOMAIN cameras' = DOMAIN cameras,
           history'.raced = history.raced, history'.ghosts = history.ghosts
    PROVE  NothingLeftBehind'
BY DEF IInv, NothingLeftBehind, WorkIsKnown

\* A monitor without its camera.
LEMMA CameraMissingStep ==
    ASSUME IInv, NEW m \in Monitors, CameraMissing(m)
    PROVE  IInv'
<1> DEFINE o == With(cycle.observed, m, FALSE)
           s == "camera_missing"
           r == With(runtime, m, s)
<1>1. /\ pc = "loop" /\ pc' = "loop" /\ m \in Waiting /\ m \in DOMAIN cycle.monitors
      /\ cycle.monitors[m] \notin cycle.cameras
      /\ UNCHANGED <<cameras, monitors, outputs, fresh, forms, batching, history>>
      /\ cycle' = [cycle EXCEPT !.observed = o] /\ runtime' = r
  BY DEF CameraMissing, Waiting, api
<1>2. /\ o \in PartialFunctions(Monitors, BOOLEAN)
      /\ DOMAIN o = DOMAIN cycle.observed \cup {m} /\ o[m] = FALSE
      /\ \A n \in DOMAIN cycle.observed : n # m => o[n] = cycle.observed[n]
  BY <1>1, ObservedFacts
<1>3. s \in Statuses /\ s # "online"
  BY DEF Statuses
<1> HIDE DEF o, s
<1>4. /\ r \in PartialFunctions(Monitors, Statuses)
      /\ DOMAIN r = DOMAIN runtime \cup {m} /\ r[m] = s
      /\ \A n \in DOMAIN runtime : n # m => r[n] = runtime[n]
  BY <1>1, <1>3, StatusFacts
<1> HIDE DEF r
<1>5. /\ cycle' \in Cycles /\ cycle'.observed = o /\ cycle'.cameras = cycle.cameras
      /\ cycle'.monitors = cycle.monitors /\ cycle'.batch = cycle.batch
      /\ cycle'.left = cycle.left
  BY <1>1, <1>2, LocalFacts DEF Cycles
<1>6. Types'
  BY <1>1, <1>2, <1>4, <1>5, LocalFacts DEF IInv, Types
<1>7. Waiting' = Waiting \ {m}
  BY <1>2, <1>5 DEF Waiting
<1>8. PhaseOK' /\ BatchIsOfOneCamera' /\ FailedAreDone'
  BY <1>1, <1>5, <1>7
  DEF IInv, PhaseOK, BatchIsOfOneCamera, FailedAreDone, InHand
<1>9. StatusTracksObservations'
  BY <1>1, <1>2, <1>3, <1>4, <1>5 DEF IInv, StatusTracksObservations, Pending
<1>10. UnobservedAreExplained' /\ HealthTracksFailures'
  BY <1>1, <1>2, <1>5
  DEF IInv, UnobservedAreExplained, HealthTracksFailures, InHand
<1>11. FreshAreNew' /\ WorkIsKnown'
  BY <1>1, <1>5 DEF IInv, FreshAreNew, WorkIsKnown, AtWork
<1>12. NothingLeftBehind'
  BY <1>1, <1>4, RowsOfWork DEF AtWork
<1>13. QED
  BY <1>6, <1>8, <1>9, <1>10, <1>11, <1>12 DEF IInv

\* What is in hand when the provider has answered or raised for a monitor.
LEMMA BatchFacts ==
    ASSUME IInv, pc = "loop", NEW m \in Waiting, cycle.monitors[m] \in cycle.cameras
    PROVE  /\ m \in Batch(m) /\ Batch(m) \subseteq DOMAIN cycle.monitors
           /\ \A n \in Batch(m) : cycle.monitors[n] = cycle.monitors[m]
           /\ \A n \in Waiting : cycle.monitors[n] = cycle.monitors[m] => n \in Batch(m)
           /\ cycle.monitors[m] \notin history.failed
           /\ cycle.monitors[m] \in Cameras /\ m \in DOMAIN cycle.monitors
BY LocalFacts DEF IInv, FailedAreDone, Batch, Waiting

\* The provider answers.
LEMMA InferenceAnswersStep ==
    ASSUME IInv, NEW m \in Monitors, InferenceAnswers(m)
    PROVE  IInv'
<1> DEFINE c == cycle.monitors[m]
           left == IF batching THEN Batch(m) ELSE {m}
<1>1. /\ pc = "loop" /\ pc' = "record" /\ m \in Waiting /\ c \in cycle.cameras
      /\ UNCHANGED <<cameras, monitors, runtime, outputs, fresh, forms, batching, history>>
      /\ cycle' = [cycle EXCEPT !.batch = Batch(m), !.left = left]
  BY DEF InferenceAnswers, tables, api
<1>2. /\ m \in Batch(m) /\ Batch(m) \subseteq DOMAIN cycle.monitors
      /\ Batch(m) \subseteq Monitors /\ left \subseteq Batch(m) /\ left # {}
      /\ \A n \in Batch(m) : cycle.monitors[n] = c
      /\ \A n \in Waiting : cycle.monitors[n] = c => n \in Batch(m)
      /\ c \notin history.failed
  BY <1>1, BatchFacts, LocalFacts
<1> HIDE DEF left
<1>3. /\ cycle' \in Cycles /\ cycle'.observed = cycle.observed
      /\ cycle'.cameras = cycle.cameras /\ cycle'.monitors = cycle.monitors
      /\ cycle'.batch = Batch(m) /\ cycle'.left = left
  BY <1>1, <1>2, LocalFacts DEF Cycles
<1>4. Types'
  BY <1>1, <1>2, <1>3, LocalFacts DEF IInv, Types
<1>5. Waiting' = Waiting /\ Camera' = c
  BY <1>2, <1>3, CameraFacts DEF Waiting
<1>6. PhaseOK' /\ BatchIsOfOneCamera' /\ FailedAreDone'
  BY <1>1, <1>2, <1>3, <1>5
  DEF IInv, PhaseOK, BatchIsOfOneCamera, FailedAreDone, InHand
<1>7. StatusTracksObservations' /\ UnobservedAreExplained'
  BY <1>1, <1>3 DEF IInv, StatusTracksObservations, UnobservedAreExplained, Pending
<1>8. HealthTracksFailures'
  BY <1>1, <1>3, <1>5 DEF IInv, HealthTracksFailures, InHand
<1>9. FreshAreNew' /\ WorkIsKnown' /\ NothingLeftBehind'
  BY <1>1, <1>3 DEF IInv, FreshAreNew, WorkIsKnown, AtWork, NothingLeftBehind
<1>10. QED
  BY <1>4, <1>6, <1>7, <1>8, <1>9 DEF IInv

\* The provider raises.
LEMMA InferenceFailsStep ==
    ASSUME IInv, NEW m \in Monitors, InferenceFails(m)
    PROVE  IInv'
<1> DEFINE c == cycle.monitors[m]
<1>1. /\ pc = "loop" /\ pc' = "failing" /\ m \in Waiting /\ c \in cycle.cameras
      /\ UNCHANGED <<cameras, monitors, runtime, outputs, fresh, forms, batching>>
      /\ history' = [history EXCEPT !.failed = @ \cup {c}]
  BY DEF InferenceFails, tables, api
<1>2. PICK error \in {"waiting", "error"} :
        cycle' = [cycle EXCEPT !.batch = Batch(m), !.left = Batch(m), !.error = error]
  BY DEF InferenceFails
<1>3. /\ m \in Batch(m) /\ Batch(m) \subseteq DOMAIN cycle.monitors
      /\ Batch(m) \subseteq Monitors
      /\ \A n \in Batch(m) : cycle.monitors[n] = c
      /\ \A n \in Waiting : cycle.monitors[n] = c => n \in Batch(m)
      /\ c \in Cameras
  BY <1>1, BatchFacts, LocalFacts
<1>4. /\ cycle' \in Cycles /\ cycle'.observed = cycle.observed
      /\ cycle'.cameras = cycle.cameras /\ cycle'.monitors = cycle.monitors
      /\ cycle'.batch = Batch(m) /\ cycle'.left = Batch(m) /\ cycle'.error # "none"
  BY <1>2, <1>3, LocalFacts DEF Cycles
<1>5. /\ history' \in [failed : SUBSET Cameras, raced : SUBSET Monitors,
                       ghosts : SUBSET Monitors]
      /\ history'.failed = history.failed \cup {c}
      /\ history'.raced = history.raced /\ history'.ghosts = history.ghosts
  BY <1>1, <1>3 DEF IInv, Types
<1>6. Types'
  BY <1>1, <1>3, <1>4, <1>5, LocalFacts DEF IInv, Types
<1>7. Waiting' = Waiting /\ Camera' = c
  BY <1>3, <1>4, CameraFacts DEF Waiting
<1>8. PhaseOK' /\ BatchIsOfOneCamera' /\ FailedAreDone'
  BY <1>1, <1>3, <1>4, <1>5, <1>7
  DEF IInv, PhaseOK, BatchIsOfOneCamera, FailedAreDone, InHand
<1>9. StatusTracksObservations' /\ UnobservedAreExplained'
  BY <1>1, <1>4, <1>5 DEF IInv, StatusTracksObservations, UnobservedAreExplained, Pending
<1>10. HealthTracksFailures'
  BY <1>1, <1>4, <1>5, <1>7 DEF IInv, HealthTracksFailures, InHand
<1>11. FreshAreNew' /\ WorkIsKnown' /\ NothingLeftBehind'
  BY <1>1, <1>4, <1>5 DEF IInv, FreshAreNew, WorkIsKnown, AtWork, NothingLeftBehind
<1>12. QED
  BY <1>6, <1>8, <1>9, <1>10, <1>11 DEF IInv

\* The observations of one monitor are recorded.
LEMMA RecordStep ==
    ASSUME IInv, NEW m \in Monitors, Record(m)
    PROVE  IInv'
<1> DEFINE o == With(cycle.observed, m, TRUE)
<1>1. /\ pc = "record" /\ pc' = "status" /\ m \in cycle.left
      /\ UNCHANGED <<cameras, monitors, runtime, fresh, forms, batching, history>>
      /\ outputs' = outputs \cup {m}
      /\ cycle' = [cycle EXCEPT !.left = @ \ {m}, !.turn = m, !.observed = o]
  BY DEF Record, api
<1>2. /\ m \in cycle.batch /\ m \in DOMAIN cycle.monitors
      /\ cycle.left \subseteq Monitors /\ cycle.left \subseteq cycle.batch
  BY <1>1, LocalFacts
<1>3. /\ o \in PartialFunctions(Monitors, BOOLEAN)
      /\ DOMAIN o = DOMAIN cycle.observed \cup {m} /\ o[m] = TRUE
      /\ \A n \in DOMAIN cycle.observed : n # m => o[n] = cycle.observed[n]
  BY <1>2, ObservedFacts
<1> HIDE DEF o
<1>4. /\ cycle' \in Cycles /\ cycle'.observed = o /\ cycle'.cameras = cycle.cameras
      /\ cycle'.monitors = cycle.monitors /\ cycle'.batch = cycle.batch
      /\ cycle'.left = cycle.left \ {m} /\ cycle'.turn = m
  BY <1>1, <1>2, <1>3, LocalFacts DEF Cycles
<1>5. Types'
  BY <1>1, <1>2, <1>3, <1>4, LocalFacts DEF IInv, Types
<1>6. Waiting' = Waiting \ {m} /\ Camera' = Camera
  BY <1>3, <1>4, CameraFacts DEF Waiting
<1>7. PhaseOK' /\ BatchIsOfOneCamera' /\ FailedAreDone'
  BY <1>1, <1>2, <1>3, <1>4, <1>6
  DEF IInv, PhaseOK, BatchIsOfOneCamera, FailedAreDone, InHand
<1>8. StatusTracksObservations' /\ UnobservedAreExplained'
  BY <1>1, <1>3, <1>4 DEF IInv, StatusTracksObservations, UnobservedAreExplained, Pending
<1>9. HealthTracksFailures'
  <2>1. cycle.monitors[m] = Camera
    BY <1>1, <1>2 DEF IInv, BatchIsOfOneCamera, InHand
  <2>2. QED
    BY <1>1, <1>3, <1>4, <1>6, <2>1 DEF IInv, HealthTracksFailures, InHand
<1>10. FreshAreNew' /\ WorkIsKnown'
  BY <1>1, <1>4 DEF IInv, FreshAreNew, WorkIsKnown, AtWork
<1>11. NothingLeftBehind'
  BY <1>1, <1>2, RowsOfWork DEF AtWork
<1>12. QED
  BY <1>5, <1>7, <1>8, <1>9, <1>10, <1>11 DEF IInv

\* The status of a monitor that was observed is written.
LEMMA MarkOnlineStep ==
    ASSUME IInv, MarkOnline
    PROVE  IInv'
<1> DEFINE m == cycle.turn
           s == "online"
           r == With(runtime, m, s)
<1>1. /\ pc = "status" /\ pc' = IF cycle.left = {} THEN "health" ELSE "record"
      /\ UNCHANGED <<cameras, monitors, outputs, fresh, forms, batching, cycle, history>>
      /\ runtime' = r
  BY DEF MarkOnline, api
<1>2. /\ m \in cycle.batch /\ m \in DOMAIN cycle.monitors
      /\ m \in DOMAIN cycle.observed /\ cycle.observed[m]
      /\ s \in Statuses
  BY <1>1, LocalFacts DEF IInv, PhaseOK, Statuses
<1> HIDE DEF m, s
<1>3. /\ r \in PartialFunctions(Monitors, Statuses)
      /\ DOMAIN r = DOMAIN runtime \cup {m} /\ r[m] = s
      /\ \A n \in DOMAIN runtime : n # m => r[n] = runtime[n]
  BY <1>2, StatusFacts
<1> HIDE DEF r
<1>4. Types'
  BY <1>1, <1>3 DEF IInv, Types
<1>5. Waiting' = Waiting /\ Camera' = Camera
  BY <1>1, CameraFacts DEF Waiting
<1>6. PhaseOK' /\ BatchIsOfOneCamera' /\ FailedAreDone' /\ UnobservedAreExplained'
  BY <1>1, <1>5
  DEF IInv, PhaseOK, BatchIsOfOneCamera, FailedAreDone, UnobservedAreExplained, InHand
<1>7. StatusTracksObservations'
  BY <1>1, <1>2, <1>3 DEF IInv, StatusTracksObservations, Pending, m, s
<1>8. HealthTracksFailures'
  BY <1>1, <1>5 DEF IInv, HealthTracksFailures, InHand
<1>9. FreshAreNew' /\ WorkIsKnown'
  BY <1>1 DEF IInv, FreshAreNew, WorkIsKnown, AtWork
<1>10. NothingLeftBehind'
  BY <1>1, <1>2, <1>3, RowsOfWork DEF AtWork
<1>11. QED
  BY <1>4, <1>6, <1>7, <1>8, <1>9, <1>10 DEF IInv

\* The camera in hand is done with, well or badly: its health is written.
LEMMA HealthStep ==
    ASSUME IInv, CameraOnline \/ CameraFailed
    PROVE  IInv'
<1> DEFINE health == IF pc = "health" THEN "online"
                     ELSE IF cycle.error = "waiting" THEN "waiting" ELSE "stream_error"
<1>1. /\ pc \in {"health", "failing"} /\ pc' = "loop" /\ cycle.left = {} /\ InHand
      /\ UNCHANGED <<monitors, runtime, outputs, fresh, forms, batching, history>>
      /\ HealthSet(health)
      /\ cycle' = [cycle EXCEPT !.batch = {}, !.turn = "none", !.error = "none"]
  BY DEF CameraOnline, CameraFailed, Loop, api, InHand, IInv, PhaseOK
<1>2. health \in Healths /\ (health = "online" <=> pc = "health") /\ health # "configured"
  BY <1>1 DEF Healths
<1> HIDE DEF health
<1>3. cameras \in [DOMAIN cameras -> Healths] /\ DOMAIN cameras \subseteq Cameras
  BY MapFacts DEF IInv, Types
<1>4. /\ cameras' \in PartialFunctions(Cameras, Healths)
      /\ DOMAIN cameras' = DOMAIN cameras
      /\ \A c \in DOMAIN cameras :
            cameras'[c] = IF c = Camera THEN health ELSE cameras[c]
  <2>1. cameras' \in [DOMAIN cameras -> Healths]
    BY <1>1, <1>2, <1>3 DEF HealthSet
  <2>2. cameras' \in PartialFunctions(Cameras, Healths)
    BY <1>3, <2>1, MapFacts
  <2>3. QED
    BY <1>1, <2>2 DEF HealthSet
<1>5. Camera \in history.failed <=> pc = "failing"
  BY <1>1 DEF IInv, BatchIsOfOneCamera
<1>6. /\ cycle' \in Cycles /\ cycle'.observed = cycle.observed
      /\ cycle'.cameras = cycle.cameras /\ cycle'.monitors = cycle.monitors
      /\ cycle'.batch = {} /\ cycle'.left = {}
  BY <1>1, LocalFacts DEF Cycles
<1>7. Types'
  BY <1>1, <1>4, <1>6 DEF IInv, Types
<1>8. Waiting' = Waiting
  BY <1>6 DEF Waiting
<1>9. PhaseOK' /\ BatchIsOfOneCamera'
  BY <1>1, <1>6 DEF PhaseOK, BatchIsOfOneCamera, InHand
<1>10. FailedAreDone'
  BY <1>1, <1>6, <1>8 DEF IInv, FailedAreDone, BatchIsOfOneCamera
<1>11. StatusTracksObservations' /\ UnobservedAreExplained'
  BY <1>1, <1>6 DEF IInv, StatusTracksObservations, UnobservedAreExplained, Pending
<1>12. HealthTracksFailures'
  BY <1>1, <1>2, <1>4, <1>5, <1>6 DEF IInv, HealthTracksFailures, InHand
<1>13. FreshAreNew' /\ WorkIsKnown' /\ NothingLeftBehind'
  BY <1>1, <1>4, <1>6 DEF IInv, FreshAreNew, WorkIsKnown, AtWork, NothingLeftBehind
<1>14. QED
  BY <1>7, <1>9, <1>10, <1>11, <1>12, <1>13 DEF IInv

\* A step after the provider's answer raises: the whole batch is to be faulted.
LEMMA StepFailsStep ==
    ASSUME IInv, StepFails
    PROVE  IInv'
<1>1. /\ pc \in {"record", "status", "health"} /\ pc' = "failing" /\ InHand
      /\ UNCHANGED <<cameras, monitors, runtime, outputs, fresh, forms, batching>>
      /\ cycle' = [cycle EXCEPT !.left = cycle.batch, !.turn = "none", !.error = "error"]
      /\ history' = [history EXCEPT !.failed = @ \cup {Camera}]
  BY DEF StepFails, tables, api, InHand
<1>2. /\ cycle' \in Cycles /\ cycle'.observed = cycle.observed
      /\ cycle'.cameras = cycle.cameras /\ cycle'.monitors = cycle.monitors
      /\ cycle'.batch = cycle.batch /\ cycle'.left = cycle.batch /\ cycle'.error = "error"
      /\ Camera \in Cameras
  BY <1>1, LocalFacts DEF Cycles
<1>3. /\ history' \in [failed : SUBSET Cameras, raced : SUBSET Monitors,
                       ghosts : SUBSET Monitors]
      /\ history'.failed = history.failed \cup {Camera}
      /\ history'.raced = history.raced /\ history'.ghosts = history.ghosts
  BY <1>1, <1>2 DEF IInv, Types
<1>4. Types'
  BY <1>1, <1>2, <1>3 DEF IInv, Types
<1>5. Waiting' = Waiting /\ Camera' = Camera
  BY <1>2, CameraFacts DEF Waiting
<1>6. PhaseOK' /\ BatchIsOfOneCamera' /\ FailedAreDone'
  BY <1>1, <1>2, <1>3, <1>5
  DEF IInv, PhaseOK, BatchIsOfOneCamera, FailedAreDone, InHand
<1>7. StatusTracksObservations'
  BY <1>1, <1>2 DEF IInv, PhaseOK, StatusTracksObservations, Pending
<1>8. UnobservedAreExplained' /\ HealthTracksFailures'
  BY <1>1, <1>2, <1>3, <1>5 DEF IInv, UnobservedAreExplained, HealthTracksFailures, InHand
<1>9. FreshAreNew' /\ WorkIsKnown' /\ NothingLeftBehind'
  BY <1>1, <1>2, <1>3 DEF IInv, FreshAreNew, WorkIsKnown, AtWork, NothingLeftBehind
<1>10. QED
  BY <1>4, <1>6, <1>7, <1>8, <1>9 DEF IInv

\* A monitor of a camera that failed is faulted.
LEMMA MarkFailedStep ==
    ASSUME IInv, NEW m \in Monitors, MarkFailed(m)
    PROVE  IInv'
<1> DEFINE o == With(cycle.observed, m, FALSE)
           s == cycle.error
           r == With(runtime, m, s)
<1>1. /\ pc = "failing" /\ pc' = "failing" /\ m \in cycle.left
      /\ UNCHANGED <<cameras, monitors, outputs, fresh, forms, batching, history>>
      /\ cycle' = [cycle EXCEPT !.left = @ \ {m}, !.observed = o]
      /\ runtime' = r
  BY DEF MarkFailed, api
<1>2. /\ m \in cycle.batch /\ m \in DOMAIN cycle.monitors
      /\ cycle.left \subseteq Monitors /\ cycle.left \subseteq cycle.batch
      /\ cycle.monitors[m] = Camera /\ Camera \in history.failed
  BY <1>1, LocalFacts DEF IInv, BatchIsOfOneCamera, InHand
<1>3. s \in Statuses /\ s # "online"
  BY <1>1, LocalFacts DEF IInv, PhaseOK, Cycles, Statuses
<1>4. /\ o \in PartialFunctions(Monitors, BOOLEAN)
      /\ DOMAIN o = DOMAIN cycle.observed \cup {m} /\ o[m] = FALSE
      /\ \A n \in DOMAIN cycle.observed : n # m => o[n] = cycle.observed[n]
  BY <1>2, ObservedFacts
<1> HIDE DEF o, s
<1>5. /\ r \in PartialFunctions(Monitors, Statuses)
      /\ DOMAIN r = DOMAIN runtime \cup {m} /\ r[m] = s
      /\ \A n \in DOMAIN runtime : n # m => r[n] = runtime[n]
  BY <1>2, <1>3, StatusFacts
<1> HIDE DEF r
<1>6. /\ cycle' \in Cycles /\ cycle'.observed = o /\ cycle'.cameras = cycle.cameras
      /\ cycle'.monitors = cycle.monitors /\ cycle'.batch = cycle.batch
      /\ cycle'.left = cycle.left \ {m} /\ cycle'.error = cycle.error
  BY <1>1, <1>2, <1>4, LocalFacts DEF Cycles
<1>7. Types'
  BY <1>1, <1>2, <1>4, <1>5, <1>6, LocalFacts DEF IInv, Types
<1>8. Waiting' = Waiting \ {m} /\ Camera' = Camera
  BY <1>4, <1>6, CameraFacts DEF Waiting
<1>9. PhaseOK' /\ BatchIsOfOneCamera' /\ FailedAreDone'
  BY <1>1, <1>6, <1>8
  DEF IInv, PhaseOK, BatchIsOfOneCamera, FailedAreDone, InHand
<1>10. StatusTracksObservations'
  BY <1>1, <1>3, <1>4, <1>5, <1>6 DEF IInv, StatusTracksObservations, Pending
<1>11. UnobservedAreExplained' /\ HealthTracksFailures'
  BY <1>1, <1>2, <1>4, <1>6, <1>8
  DEF IInv, UnobservedAreExplained, HealthTracksFailures, InHand
<1>12. FreshAreNew' /\ WorkIsKnown'
  BY <1>1, <1>6 DEF IInv, FreshAreNew, WorkIsKnown, AtWork
<1>13. NothingLeftBehind'
  BY <1>1, <1>2, <1>5, RowsOfWork DEF AtWork
<1>14. QED
  BY <1>7, <1>9, <1>10, <1>11, <1>12, <1>13 DEF IInv

\* The tables are read.
LEMMA ReadStep ==
    ASSUME IInv, ListCameras \/ ListMonitors
    PROVE  IInv'
<1>1. /\ pc \in {"idle", "listing"} /\ pc' \in {"listing", "loop"}
      /\ UNCHANGED <<cameras, monitors, runtime, outputs, fresh, forms, batching, history>>
      /\ history.failed = {}
  BY DEF ListCameras, ListMonitors, tables, api, IInv, PhaseOK
<1>2. /\ cycle' \in Cycles /\ cycle'.batch = {} /\ cycle'.left = {}
      /\ cycle'.cameras \in {DOMAIN cameras, cycle.cameras}
      /\ cycle'.observed = <<>> /\ DOMAIN cycle'.observed = {}
      /\ pc' = "listing" => cycle'.monitors = <<>>
      /\ pc' = "loop" => cycle'.monitors = monitors
  <2>1. CASE ListCameras
    <3>1. cycle' = [NoCycle EXCEPT !.cameras = DOMAIN cameras] /\ pc' = "listing"
      BY <2>1 DEF ListCameras
    <3>2. DOMAIN cameras \subseteq Cameras
      BY MapFacts DEF IInv, Types
    <3>3. <<>> \in PartialFunctions(Monitors, Cameras)
          /\ <<>> \in PartialFunctions(Monitors, BOOLEAN)
      BY EmptyMap
    <3>4. QED
      BY <3>1, <3>2, <3>3, EmptyMap DEF NoCycle, Cycles
  <2>2. CASE ListMonitors
    <3>1. cycle' = [cycle EXCEPT !.monitors = monitors] /\ pc = "listing" /\ pc' = "loop"
      BY <2>2 DEF ListMonitors
    <3>2. monitors \in PartialFunctions(Monitors, Cameras)
      BY DEF IInv, Types
    <3>3. cycle.observed = <<>> /\ cycle.batch = {} /\ cycle.left = {}
      BY <3>1 DEF IInv, PhaseOK, InHand
    <3>4. QED
      BY <3>1, <3>2, <3>3, EmptyMap, LocalFacts DEF Cycles
  <2>3. QED
    BY <2>1, <2>2
<1>3. Types'
  BY <1>1, <1>2 DEF IInv, Types
<1>4. PhaseOK' /\ BatchIsOfOneCamera' /\ FailedAreDone'
  BY <1>1, <1>2 DEF PhaseOK, BatchIsOfOneCamera, FailedAreDone, InHand
<1>5. StatusTracksObservations' /\ UnobservedAreExplained' /\ HealthTracksFailures'
  BY <1>2 DEF StatusTracksObservations, UnobservedAreExplained, HealthTracksFailures
<1>6. FreshAreNew' /\ WorkIsKnown' /\ NothingLeftBehind'
  BY <1>1, <1>2 DEF IInv, FreshAreNew, WorkIsKnown, AtWork, NothingLeftBehind
<1>7. QED
  BY <1>3, <1>4, <1>5, <1>6 DEF IInv

\* The rules' turn comes.
LEMMA BeginRulesStep ==
    ASSUME IInv, BeginRules
    PROVE  IInv'
<1>1. /\ pc = "loop" /\ pc' = "rules" /\ Waiting = {}
      /\ UNCHANGED <<cameras, monitors, runtime, outputs, fresh, forms, batching, cycle,
                     history>>
  BY DEF BeginRules, tables, api
<1>2. Waiting' = {}
  BY <1>1 DEF Waiting
<1>3. Types' /\ PhaseOK' /\ BatchIsOfOneCamera' /\ FailedAreDone'
  BY <1>1, <1>2 DEF IInv, Types, PhaseOK, BatchIsOfOneCamera, FailedAreDone, InHand
<1>4. StatusTracksObservations' /\ UnobservedAreExplained' /\ HealthTracksFailures'
  BY <1>1 DEF IInv, StatusTracksObservations, UnobservedAreExplained, HealthTracksFailures,
              Pending, InHand
<1>5. FreshAreNew' /\ WorkIsKnown' /\ NothingLeftBehind'
  BY <1>1 DEF IInv, FreshAreNew, WorkIsKnown, AtWork, NothingLeftBehind
<1>6. QED
  BY <1>3, <1>4, <1>5 DEF IInv

\* The cycle is over, by itself or by a crash.
LEMMA OverStep ==
    ASSUME IInv, NEW p \in {"idle", "down"}, Over(p)
    PROVE  IInv'
<1>1. /\ pc' = p /\ cycle' = NoCycle
      /\ UNCHANGED <<cameras, monitors, runtime, outputs, fresh, forms, batching>>
      /\ history' = [history EXCEPT !.failed = {}]
  BY DEF Over, tables, api
<1>2. /\ cycle' \in Cycles /\ cycle'.batch = {} /\ cycle'.left = {} /\ cycle'.cameras = {}
      /\ cycle'.observed = <<>> /\ DOMAIN cycle'.observed = {} /\ cycle'.monitors = <<>>
  <2>1. /\ <<>> \in PartialFunctions(Monitors, Cameras)
        /\ <<>> \in PartialFunctions(Monitors, BOOLEAN)
    BY EmptyMap
  <2>2. QED
    BY <1>1, <2>1, EmptyMap DEF NoCycle, Cycles
<1>3. /\ history' \in [failed : SUBSET Cameras, raced : SUBSET Monitors,
                       ghosts : SUBSET Monitors]
      /\ history'.failed = {}
      /\ history'.raced = history.raced /\ history'.ghosts = history.ghosts
  BY <1>1 DEF IInv, Types
<1>4. Types'
  BY <1>1, <1>2, <1>3 DEF IInv, Types
<1>5. PhaseOK' /\ BatchIsOfOneCamera' /\ FailedAreDone'
  BY <1>1, <1>2, <1>3 DEF PhaseOK, BatchIsOfOneCamera, FailedAreDone, InHand
<1>6. StatusTracksObservations' /\ UnobservedAreExplained' /\ HealthTracksFailures'
  BY <1>2 DEF StatusTracksObservations, UnobservedAreExplained, HealthTracksFailures
<1>7. FreshAreNew' /\ WorkIsKnown' /\ NothingLeftBehind'
  BY <1>1, <1>2, <1>3 DEF IInv, FreshAreNew, WorkIsKnown, AtWork, NothingLeftBehind
<1>8. QED
  BY <1>4, <1>5, <1>6, <1>7 DEF IInv

\* Nothing happens.
LEMMA Stutter ==
    ASSUME IInv, UNCHANGED vars
    PROVE  IInv'
<1>1. UNCHANGED <<cameras, monitors, runtime, outputs, fresh, forms, batching, pc, cycle,
                  history>>
  BY DEF vars, tables, api
<1>2. Types' /\ FreshAreNew' /\ WorkIsKnown' /\ NothingLeftBehind'
  BY <1>1 DEF IInv, Types, FreshAreNew, WorkIsKnown, AtWork, NothingLeftBehind
<1>3. QED
  BY <1>1, <1>2, ApiStep

-----------------------------------------------------------------------------
(* The theorems. *)

\* The first state satisfies the invariant.
LEMMA Initially == Init => IInv
<1> SUFFICES ASSUME Init PROVE IInv
  OBVIOUS
<1>1. PICK cs \in SUBSET Cameras, ms \in SUBSET Monitors :
        /\ cameras = [c \in cs |-> "unknown"]
        /\ monitors \in [ms -> cs]
        /\ runtime = [m \in ms |-> "configured"]
        /\ fresh = Edited \ (cs \cup ms)
  BY DEF Init
<1>2. /\ outputs = {} /\ forms = <<>> /\ batching \in BOOLEAN /\ pc = "idle"
      /\ cycle = NoCycle /\ history = [failed |-> {}, raced |-> {}, ghosts |-> {}]
  BY DEF Init
<1>3. /\ DOMAIN cameras = cs /\ DOMAIN monitors = ms /\ DOMAIN runtime = ms
      /\ cameras \in PartialFunctions(Cameras, Healths)
      /\ monitors \in PartialFunctions(Monitors, Cameras)
      /\ runtime \in PartialFunctions(Monitors, Statuses)
  <2>1. cameras \in [cs -> Healths] /\ runtime \in [ms -> Statuses]
    BY <1>1 DEF Healths, Statuses
  <2>2. monitors \in [ms -> Cameras]
    BY <1>1
  <2>3. QED
    BY <2>1, <2>2 DEF PartialFunctions
<1>4. /\ cycle \in Cycles /\ cycle.batch = {} /\ cycle.left = {} /\ cycle.cameras = {}
      /\ cycle.observed = <<>> /\ DOMAIN cycle.observed = {} /\ cycle.monitors = <<>>
      /\ forms \in PartialFunctions(Monitors, Cameras)
  <2>1. /\ <<>> \in PartialFunctions(Monitors, Cameras)
        /\ <<>> \in PartialFunctions(Monitors, BOOLEAN)
    BY EmptyMap
  <2>2. QED
    BY <1>2, <2>1, EmptyMap DEF NoCycle, Cycles
<1>5. Types
  BY <1>1, <1>2, <1>3, <1>4, MonitorsAssumption DEF Types
<1>6. PhaseOK /\ BatchIsOfOneCamera /\ FailedAreDone
  BY <1>2, <1>4 DEF PhaseOK, BatchIsOfOneCamera, FailedAreDone, InHand
<1>7. StatusTracksObservations /\ UnobservedAreExplained /\ HealthTracksFailures
  BY <1>4 DEF StatusTracksObservations, UnobservedAreExplained, HealthTracksFailures
<1>8. FreshAreNew /\ WorkIsKnown
  BY <1>1, <1>2, <1>3, <1>4 DEF FreshAreNew, WorkIsKnown, AtWork
<1>9. NothingLeftBehind
  BY <1>1, <1>2, <1>3 DEF NothingLeftBehind
<1>10. QED
  BY <1>5, <1>6, <1>7, <1>8, <1>9 DEF IInv

\* Every step keeps the invariant.
LEMMA Steps ==
    ASSUME IInv, [Next]_vars
    PROVE  IInv'
<1>1. CASE WorkerStep
  BY <1>1, ReadStep, CameraMissingStep, InferenceAnswersStep, RecordStep, MarkFailedStep,
     MarkOnlineStep, HealthStep, BeginRulesStep, OverStep
  DEF WorkerStep, EndCycle, Restart
<1>2. CASE Failure
  BY <1>2, StepFailsStep, InferenceFailsStep DEF Failure
<1>3. CASE Crash
  BY <1>3, OverStep DEF Crash
<1>4. CASE Api
  <2>1. ASSUME NEW c \in Cameras \cap Edited, DeleteCamera(c) PROVE IInv'
    BY <2>1, DeleteStep DEF DeleteCamera
  <2>2. ASSUME NEW m \in Monitors \cap Edited, DeleteMonitor(m) PROVE IInv'
    BY <2>2, DeleteStep DEF DeleteMonitor
  <2>3. QED
    BY <1>4, <2>1, <2>2, CreateCameraStep, TestCameraStep, CheckFormStep, SaveMonitorStep
    DEF Api
<1>5. CASE UNCHANGED vars
  BY <1>5, Stutter
<1>6. QED
  BY <1>1, <1>2, <1>3, <1>4, <1>5 DEF Next

\* The invariant holds in every state the worker and the API reach.
THEOREM Invariance == Spec => []IInv
<1>1. IInv /\ [Next]_vars => IInv'
  BY Steps
<1>2. QED
  BY Initially, <1>1, PTL DEF Spec

\* Type correctness: every variable stays in its set, and every monitor of the table has a
\* row for its status, whoever saves and deletes it.
THEOREM TypeCorrect == Spec => []TypeOK
<1>1. IInv => TypeOK
  BY TypesFromMaps DEF IInv
<1>2. QED
  BY <1>1, Invariance, PTL

\* When the rules are evaluated, the status of a monitor tells whether they are evaluated on
\* what it observed in this cycle, whatever failed in between.
THEOREM StatusTheorem == Spec => []StatusMatchesRules
<1>1. IInv => StatusMatchesRules
  <2> SUFFICES ASSUME IInv, pc = "rules",
                      NEW m \in DOMAIN cycle.monitors \cap DOMAIN monitors,
                      runtime[m] # "configured"
               PROVE  runtime[m] = "online" <=> ~Faulted(m)
    BY DEF StatusMatchesRules
  <2>1. m \in DOMAIN cycle.observed /\ m \in DOMAIN runtime /\ ~Pending(m)
    BY DEF IInv, PhaseOK, Types, Waiting, Pending
  <2>2. QED
    BY <2>1 DEF IInv, StatusTracksObservations, Faulted
<1>2. QED
  BY <1>1, Invariance, PTL

\* Every faulted rule of an existing monitor has its reason in this cycle: no failure of one
\* camera faults the rules of another.
THEOREM FaultTheorem == Spec => []FaultsAreExplained
<1>1. IInv => FaultsAreExplained
  BY DEF IInv, PhaseOK, Waiting, UnobservedAreExplained, FaultsAreExplained, Faulted
<1>2. QED
  BY <1>1, Invariance, PTL

\* The health of a camera with monitors tells at the end of the loop whether it failed in
\* this cycle, in whichever order its monitors were run.
THEOREM HealthTheorem == Spec => []HealthTellsFailures
<1>1. IInv => HealthTellsFailures
  <2> SUFFICES ASSUME IInv, pc = "rules",
                      NEW c \in DOMAIN cameras \cap cycle.cameras \cap Range(cycle.monitors),
                      cameras[c] # "configured"
               PROVE  cameras[c] = "online" <=> c \notin history.failed
    BY DEF HealthTellsFailures
  <2>1. PICK m \in DOMAIN cycle.monitors : cycle.monitors[m] = c
    BY DEF Range
  <2>2. m \in DOMAIN cycle.observed /\ ~InHand
    BY DEF IInv, PhaseOK, Waiting, InHand
  <2>3. QED
    BY <2>1, <2>2 DEF IInv, HealthTracksFailures
<1>2. QED
  BY <1>1, Invariance, PTL

\* Rows that outlive their monitor, and monitors that outlive their camera, have a race to
\* explain them: there is no other way to leave them behind.
THEOREM LeftBehindTheorem == Spec => []NothingLeftBehind
<1>1. IInv => NothingLeftBehind
  BY DEF IInv
<1>2. QED
  BY <1>1, Invariance, PTL
=============================================================================
