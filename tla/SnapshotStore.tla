--------------------------- MODULE SnapshotStore ---------------------------
(***************************************************************************)
(* The picture directory (storage/snapshots.py) and the three processes    *)
(* that share it without a lock: the worker writes debug pictures and      *)
(* event pictures and prunes at the end of each cycle (worker.py), the     *)
(* hourly cleanup service prunes too (maintenance.py), and the API deletes *)
(* a monitor's picture and changes the limits (main.py).                   *)
(*                                                                         *)
(* A directory is a set of names and which of two is the older: the code   *)
(* uses a modification time for nothing else.  The pictures of events are  *)
(* named by their number, those of monitors by the monitor.  A pruner      *)
(* lists the directory, asks for each file's size and time, and then looks *)
(* at usage and free space and deletes the oldest file, time after time,   *)
(* each as a step of its own.                                              *)
(***************************************************************************)
EXTENDS Integers, FiniteSets, Functions

CONSTANTS Monitors, MaxEvents,  \* MaxEvents bounds the pictures of events
          Size,                 \* the bytes of every picture
          Limits,               \* the values of snapshot_max_bytes
          MinFrees,             \* those of snapshot_min_free_disk_percent, in bytes
          Disk,                 \* the capacity of the disk
          Foreign,              \* what else may fill the disk
          Batch(_),             \* the files a pruner deletes in one run
          MaxEdits              \* bounds changes of settings and disk, and failures

Pruners == {"worker", "cleanup"}
Pictures == Monitors \cup 1 .. MaxEvents
NoMonitor == "none"

ASSUME StoreAssumption ==
    /\ IsFiniteSet(Monitors) /\ NoMonitor \notin Monitors
    /\ Monitors \cap 1 .. MaxEvents = {}
    /\ MaxEvents \in Nat /\ MaxEdits \in Nat /\ Disk \in Nat
    /\ Size \in [Pictures -> Nat]
    /\ \A p \in Pruners : Batch(p) \in Nat \ {0}
    /\ Limits \subseteq Nat /\ MinFrees \subseteq Nat /\ Foreign \subseteq Nat

VARIABLES
    monitors,   \* the rows of the table monitors
    debugRows,  \* monitors with a row in monitor_debug_snapshots
    files,      \* the directory
    limit,      \* snapshot_max_bytes in the table settings
    minFree,    \* snapshot_min_free_disk_percent there
    foreign,    \* bytes on the disk that are not pictures
    events,     \* how many events have been given an identifier
    worker,     \* stage, the monitors to do, the one whose picture is written or read
    pruner,     \* per pruner: stage, names listed, records, usage, whether it found the
                \* disk short of space, deletions, and both settings as it read them
    unlinking,  \* pictures the API has yet to delete, their rows being gone
    torn,       \* history: monitors that met one of the accidents of their pictures
    touched,    \* history: per pruner, its records that others rewrote or deleted
    edits       \* changes of settings and disk, and failures, so far

settings == <<limit, minFree>>
dbRows == <<monitors, debugRows, unlinking, settings>>
vars == <<dbRows, files, foreign, events, worker, pruner, torn, touched, edits>>

Empty == [names |-> {}, older |-> {}]
Only(dir, S) == [names |-> dir.names \cap S, older |-> dir.older \cap (S \X S)]
Without(dir, f) == Only(dir, dir.names \ {f})
Written(dir, f) == [names |-> dir.names \cup {f},
                    older |-> Without(dir, f).older \cup ((dir.names \ {f}) \X {f})]
Oldest(dir) == CHOOSE f \in dir.names : \A g \in dir.names : <<g, f>> \notin dir.older

Bytes(names) == SumFunctionOnSet(Size, names)
FreeSpace == Disk - foreign - Bytes(files.names)

Idle(lim, free) == [stage |-> "off", names |-> {}, records |-> Empty, usage |-> 0,
                    short |-> FALSE, deleted |-> 0, limit |-> lim, minFree |-> free]
NewWorker == [stage |-> "idle", todo |-> {}, cycle |-> {}, picture |-> NoMonitor]

\* A file that is rewritten, or deleted out of turn, is no longer what a pruner listed.
Touch(others, f) ==
    touched' = [p \in Pruners |->
                   IF p \in others /\ f \in pruner[p].names \cup pruner[p].records.names
                   THEN touched[p] \cup {f} ELSE touched[p]]

StoreInit ==
    /\ monitors = Monitors /\ debugRows = {} /\ files = Empty /\ unlinking = {}
    /\ limit \in Limits /\ minFree \in MinFrees /\ foreign = 0
    /\ events = 0 /\ edits = 0 /\ torn = {}
    /\ worker = NewWorker
    /\ pruner = [p \in Pruners |-> Idle(limit, minFree)]
    /\ touched = [p \in Pruners |-> {}]

-----------------------------------------------------------------------------
(***************************************************************************)
(* The worker's pictures.                                                  *)
(***************************************************************************)

BeginCycle ==
    /\ worker.stage = "idle"
    /\ worker' = [worker EXCEPT !.stage = "cycle", !.todo = monitors, !.cycle = monitors]
    /\ UNCHANGED <<dbRows, files, foreign, events, pruner, torn, touched, edits>>

\* The file first, under a name that stays the same from cycle to cycle ...
WritePicture(m) ==
    /\ worker.stage = "cycle" /\ worker.picture = NoMonitor /\ m \in worker.todo
    /\ files' = Written(files, m)
    /\ worker' = [worker EXCEPT !.picture = m]
    /\ Touch(Pruners, m)
    /\ UNCHANGED <<dbRows, foreign, events, pruner, torn, edits>>

\* ... and then its row, an upsert whether the monitor is still there or not.  It repairs
\* what an earlier failure left of a monitor that is.
SavePicture ==
    /\ worker.stage = "cycle" /\ worker.picture # NoMonitor
    /\ debugRows' = debugRows \cup {worker.picture}
    /\ torn' = torn \ ({worker.picture} \cap monitors)
    /\ worker' = [worker EXCEPT !.picture = NoMonitor, !.todo = @ \ {worker.picture}]
    /\ UNCHANGED <<monitors, settings, unlinking, files, foreign, events, pruner, touched,
                   edits>>

\* What is left to do when the handling of a camera ends for some of its monitors.
Remaining(done) == [worker EXCEPT !.picture = NoMonitor, !.todo = @ \ done]

\* The file is there, but its row cannot be written: process_once goes on with the next
\* camera.  A row of an earlier cycle leads to the file as well.
SavePictureFails(others) ==
    /\ worker.stage = "cycle" /\ worker.picture # NoMonitor /\ others \subseteq worker.todo
    /\ edits < MaxEdits /\ edits' = edits + 1
    /\ torn' = torn \cup ({worker.picture} \ debugRows)
    /\ worker' = Remaining(others \cup {worker.picture})
    /\ UNCHANGED <<dbRows, files, foreign, events, pruner, touched>>

\* The provider or the writing fails for the monitor and others of its camera, or there
\* is no picture, neither of the provider nor of the camera.
NoPicture(m, others) ==
    /\ worker.stage = "cycle" /\ worker.picture = NoMonitor
    /\ m \in worker.todo /\ others \subseteq worker.todo
    /\ worker' = Remaining(others \cup {m})
    /\ UNCHANGED <<dbRows, files, foreign, events, pruner, torn, touched, edits>>

\* _snapshot_bytes_for: the monitor's picture if its row and its file exist, or one
\* pixel.
ChoosePicture(m) ==
    /\ worker.stage = "cycle" /\ worker.todo = {} /\ m \in worker.cycle /\ events < MaxEvents
    /\ events' = events + 1
    /\ worker' = IF m \in debugRows /\ m \in files.names
                 THEN [worker EXCEPT !.stage = "reading", !.picture = m]
                 ELSE [worker EXCEPT !.stage = "writing"]
    /\ UNCHANGED <<dbRows, files, foreign, pruner, torn, touched, edits>>

\* The file that existed may be gone: the exception ends the process.
ReadPicture ==
    /\ worker.stage = "reading"
    /\ worker' = [worker EXCEPT !.picture = NoMonitor,
                                !.stage = IF worker.picture \in files.names
                                          THEN "writing" ELSE "down"]
    /\ UNCHANGED <<dbRows, files, foreign, events, pruner, torn, touched, edits>>

WriteEvent ==
    /\ worker.stage = "writing"
    /\ files' = Written(files, events)
    /\ worker' = [worker EXCEPT !.stage = "cycle"]
    /\ UNCHANGED <<dbRows, foreign, events, pruner, torn, touched, edits>>

EndRules ==
    /\ worker.stage = "cycle" /\ worker.todo = {}
    /\ worker' = [worker EXCEPT !.stage = "pruning", !.cycle = {}]
    /\ pruner' = [pruner EXCEPT !["worker"].stage = "listing"]
    /\ UNCHANGED <<dbRows, files, foreign, events, torn, touched, edits>>

-----------------------------------------------------------------------------
(***************************************************************************)
(* prune, in the worker and in the cleanup service.                        *)
(***************************************************************************)

\* run_maintenance reads the settings in every run, one after the other; the worker does
\* so once, in build_worker.
StartCleanup ==
    /\ pruner["cleanup"].stage = "off"
    /\ pruner' = [pruner EXCEPT !["cleanup"].stage = "reading", !["cleanup"].limit = limit]
    /\ UNCHANGED <<dbRows, files, foreign, events, worker, torn, touched, edits>>

ReadMinFree(p) ==
    /\ pruner[p].stage = "reading"
    /\ pruner' = [pruner EXCEPT ![p].minFree = minFree,
                                ![p].stage = IF p = "worker" THEN "off" ELSE "listing"]
    /\ worker' = IF p = "worker" THEN NewWorker ELSE worker
    /\ UNCHANGED <<dbRows, files, foreign, events, torn, touched, edits>>

List(p) ==
    /\ pruner[p].stage = "listing"
    /\ pruner' = [pruner EXCEPT ![p].stage = "sizing", ![p].names = files.names]
    /\ UNCHANGED <<dbRows, files, foreign, events, worker, torn, touched, edits>>

Ends(p, stage) ==
    /\ pruner' = [pruner EXCEPT ![p] = Idle(@.limit, @.minFree)]
    /\ touched' = [touched EXCEPT ![p] = {}]
    /\ worker' = IF p = "worker" THEN [NewWorker EXCEPT !.stage = stage] ELSE worker

Gather(p) ==
    LET found == Only(files, pruner[p].names)
    IN  /\ pruner[p].stage = "sizing"
        /\ pruner[p].names \subseteq files.names
        /\ pruner' = [pruner EXCEPT ![p].stage = "deleting", ![p].names = {},
                                    ![p].records = found, ![p].usage = Bytes(found.names)]
        /\ UNCHANGED <<dbRows, files, foreign, events, worker, torn, touched, edits>>

\* A listed file is gone when records asks for its size: the exception ends the worker,
\* or this run of the service.
GatherFails(p) ==
    /\ pruner[p].stage = "sizing"
    /\ ~ pruner[p].names \subseteq files.names
    /\ Ends(p, "down")
    /\ UNCHANGED <<dbRows, files, foreign, events, torn, edits>>

\* The disk as it is now, and the least that the pruner wants free.
Short(p) == FreeSpace < pruner[p].minFree

\* Mutant: one of the two limits is enough.
EnoughOfEither(p) == pruner[p].usage <= pruner[p].limit \/ ~Short(p)

\* The usage is that of the records.
Enough(p) == pruner[p].usage <= pruner[p].limit /\ ~Short(p)

\* Mutant: one file more than the batch.
MoreByOne(p) == pruner[p].records.names # {} /\ pruner[p].deleted <= Batch(p)

More(p) == pruner[p].records.names # {} /\ pruner[p].deleted < Batch(p)

Check(p) ==
    /\ pruner[p].stage = "deleting" /\ More(p) /\ ~Enough(p)
    /\ pruner' = [pruner EXCEPT ![p].stage = "unlinking", ![p].short = Short(p)]
    /\ UNCHANGED <<dbRows, files, foreign, events, worker, torn, touched, edits>>

OutOfTurn(p, f) == f \in touched[p]

Removed(p, f) ==
    /\ files' = Without(files, f)
    /\ Touch({q \in Pruners \ {p} : OutOfTurn(p, f)}, f)
    /\ UNCHANGED <<dbRows, foreign, events, worker, torn, edits>>

\* Mutant: a file another pruner has already deleted does not count as freed.
UnlinkCountingOwn(p) ==
    LET f == Oldest(pruner[p].records)
    IN  /\ pruner[p].stage = "unlinking"
        /\ pruner' = [pruner EXCEPT ![p].stage = "deleting", ![p].short = FALSE,
                                    ![p].records = Without(@, f), ![p].deleted = @ + 1,
                                    ![p].usage = IF f \in files.names THEN @ - Size[f] ELSE @]
        /\ Removed(p, f)

\* A file that is gone already is a deletion like another.
Unlink(p) ==
    LET f == Oldest(pruner[p].records)
    IN  /\ pruner[p].stage = "unlinking"
        /\ pruner' = [pruner EXCEPT ![p].stage = "deleting", ![p].short = FALSE,
                                    ![p].records = Without(@, f), ![p].deleted = @ + 1,
                                    ![p].usage = @ - Size[f]]
        /\ Removed(p, f)

\* The file cannot be deleted: the exception ends the worker, or this run of the service.
UnlinkFails(p) ==
    /\ pruner[p].stage = "unlinking"
    /\ edits < MaxEdits /\ edits' = edits + 1
    /\ Ends(p, "down")
    /\ UNCHANGED <<dbRows, files, foreign, events, torn>>

Finish(p) ==
    /\ pruner[p].stage = "deleting" /\ (~More(p) \/ Enough(p))
    /\ Ends(p, "idle")
    /\ UNCHANGED <<dbRows, files, foreign, events, torn, edits>>

-----------------------------------------------------------------------------
(***************************************************************************)
(* The API, the machine and the service manager.                           *)
(***************************************************************************)

\* Mutant: the paths are looked up after the rows have been deleted.
DeleteMonitorForgetting(m) ==
    /\ m \in monitors
    /\ monitors' = monitors \ {m} /\ debugRows' = debugRows \ {m}
    /\ unlinking' = unlinking \cup (debugRows' \cap {m})
    /\ torn' = IF m \in worker.todo THEN torn \cup {m} ELSE torn
    /\ UNCHANGED <<settings, files, foreign, events, worker, pruner, touched, edits>>

\* One transaction reads the paths and deletes the rows; the files follow.
DeleteMonitor(m) ==
    /\ m \in monitors
    /\ monitors' = monitors \ {m} /\ debugRows' = debugRows \ {m}
    /\ unlinking' = unlinking \cup (debugRows \cap {m})
    /\ torn' = IF m \in worker.todo THEN torn \cup {m} ELSE torn
    /\ UNCHANGED <<settings, files, foreign, events, worker, pruner, touched, edits>>

DeleteFile(m) ==
    /\ m \in unlinking
    /\ unlinking' = unlinking \ {m} /\ files' = Without(files, m)
    /\ Touch(Pruners, m)
    /\ UNCHANGED <<monitors, debugRows, settings, foreign, events, worker, pruner, torn, edits>>

\* delete_files passes over a file that cannot be deleted; or the API ends before it.
DeleteFileFails(m) ==
    /\ m \in unlinking
    /\ unlinking' = unlinking \ {m} /\ torn' = torn \cup {m}
    /\ UNCHANGED <<monitors, debugRows, settings, files, foreign, events, worker, pruner,
                   touched, edits>>

\* update_storage saves one setting and then the other, each in a transaction of its own.
\* Either may be what it was, and the requests of two operators may mix.
UpdateMaxBytes(l) ==
    /\ l # limit
    /\ edits < MaxEdits /\ edits' = edits + 1
    /\ limit' = l
    /\ UNCHANGED <<monitors, debugRows, unlinking, minFree, files, foreign, events, worker,
                   pruner, torn, touched>>

UpdateMinFree(n) ==
    /\ n # minFree
    /\ edits < MaxEdits /\ edits' = edits + 1
    /\ minFree' = n
    /\ UNCHANGED <<monitors, debugRows, unlinking, limit, files, foreign, events, worker,
                   pruner, torn, touched>>

DiskChanges(n) ==
    /\ edits < MaxEdits /\ edits' = edits + 1
    /\ foreign' = n
    /\ UNCHANGED <<dbRows, files, events, worker, pruner, torn, touched>>

WorkerCrash ==
    /\ edits < MaxEdits /\ edits' = edits + 1
    /\ worker.stage # "down"
    /\ torn' = IF worker.stage = "cycle"
               THEN torn \cup ({worker.picture} \ (debugRows \cup {NoMonitor})) ELSE torn
    /\ worker' = [NewWorker EXCEPT !.stage = "down"]
    /\ pruner' = [pruner EXCEPT !["worker"] = Idle(@.limit, @.minFree)]
    /\ touched' = [touched EXCEPT !["worker"] = {}]
    /\ UNCHANGED <<dbRows, files, foreign, events>>

\* systemd starts the worker again, which reads the settings.
WorkerRestart ==
    /\ worker.stage = "down" /\ pruner["worker"].stage = "off"
    /\ pruner' = [pruner EXCEPT !["worker"].stage = "reading", !["worker"].limit = limit]
    /\ worker' = [worker EXCEPT !.stage = "starting"]
    /\ UNCHANGED <<dbRows, files, foreign, events, torn, touched, edits>>

WorkerStep ==
    \/ BeginCycle \/ SavePicture \/ ReadPicture \/ WriteEvent \/ EndRules
    \/ \E m \in Monitors : WritePicture(m) \/ ChoosePicture(m)
    \/ \E m \in Monitors, others \in SUBSET Monitors : NoPicture(m, others)

PrunerStep(p) ==
    ReadMinFree(p) \/ List(p) \/ Gather(p) \/ GatherFails(p) \/ Check(p) \/ Unlink(p) \/ Finish(p)

StoreNext ==
    \/ WorkerStep
    \/ \E p \in Pruners : PrunerStep(p)
    \/ \E p \in Pruners : UnlinkFails(p)
    \/ \E others \in SUBSET Monitors : SavePictureFails(others)
    \/ StartCleanup \/ WorkerCrash \/ WorkerRestart
    \/ \E m \in Monitors : DeleteMonitor(m) \/ DeleteFile(m) \/ DeleteFileFails(m)
    \/ \E l \in Limits : UpdateMaxBytes(l)
    \/ \E n \in MinFrees : UpdateMinFree(n)
    \/ \E n \in Foreign : DiskChanges(n)

StoreSpec == StoreInit /\ [][StoreNext]_vars

(* Both processes go on, systemd restarts the worker and starts the cleanup every hour,
   and a request once begun is finished.  Nothing is assumed of what the cameras give,
   nor of operators, the disk and crashes. *)
StoreFairSpec ==
    /\ StoreSpec
    /\ WF_vars(WorkerStep) /\ WF_vars(WorkerRestart) /\ WF_vars(StartCleanup)
    /\ \A p \in Pruners : WF_vars(PrunerStep(p))
    /\ \A m \in Monitors : WF_vars(DeleteFile(m))

-----------------------------------------------------------------------------
(***************************************************************************)
(* Properties.                                                             *)
(***************************************************************************)

\* Of two names of a directory one is the older, and the oldest of three is of all.
InOrder(dir) ==
    /\ dir.older \subseteq dir.names \X dir.names
    /\ \A f \in dir.names, g \in dir.names :
        <<f, g>> \in dir.older <=> f # g /\ <<g, f>> \notin dir.older
    /\ \A f \in dir.names, g \in dir.names, h \in dir.names :
        <<f, g>> \in dir.older /\ <<g, h>> \in dir.older => <<f, h>> \in dir.older

Directories == {dir \in [names : SUBSET Pictures, older : SUBSET (Pictures \X Pictures)] :
                   InOrder(dir)}

(* The types, among them that the age orders the directory, and what a pruner noted of
   it, whatever is rewritten and deleted meanwhile, and that a pruner never deletes more
   than one batch. *)
StoreTypeOK ==
    /\ monitors \subseteq Monitors /\ debugRows \subseteq Monitors
    /\ unlinking \subseteq Monitors /\ torn \subseteq Monitors
    /\ files \in Directories
    /\ limit \in Limits /\ minFree \in MinFrees
    /\ foreign \in Foreign \cup {0}
    /\ events \in 0 .. MaxEvents /\ edits \in 0 .. MaxEdits
    /\ worker \in
          [stage : {"idle", "cycle", "reading", "writing", "pruning", "down", "starting"},
           todo : SUBSET Monitors, cycle : SUBSET Monitors,
           picture : Monitors \cup {NoMonitor}]
    /\ pruner \in [Pruners ->
          [stage : {"off", "reading", "listing", "sizing", "deleting", "unlinking"},
           names : SUBSET Pictures, records : Directories, usage : Nat, short : BOOLEAN,
           deleted : Nat, limit : Limits, minFree : MinFrees]]
    /\ \A p \in Pruners : pruner[p].deleted <= Batch(p)
    /\ touched \in [Pruners -> SUBSET Pictures]

FromOn(f) == {g \in files.names : g = f \/ <<f, g>> \in files.older}

\* A setting was changed since the pruner read it.
Outdated(p) == pruner[p].limit # limit \/ pruner[p].minFree # minFree

(* Two pruners work on one directory from lists taken at different times, add up what they
   freed without looking again, and delete after others may have acted on what they saw.
   A picture is nevertheless deleted only if it and the newer ones still exceed the limit,
   or the disk was short of space when the pruner looked, the step before.  Limit and
   space are the configured ones, unless they were changed since the pruner read them,
   the worker when it started: then those it read asked for it.  The one other exception
   is a file recorded and since rewritten or deleted by another, a debug picture that is. *)
PruningIsJustified ==
    [][\A p \in Pruners : Unlink(p) =>
        LET f == Oldest(pruner[p].records)
        IN  \/ f \notin files.names
            \/ touched[p] \cap Monitors # {}
            \/ Bytes(FromOn(f)) > limit
            \/ pruner[p].short /\ pruner[p].minFree = minFree
            \/ Outdated(p) /\ (Bytes(FromOn(f)) > pruner[p].limit \/ pruner[p].short)]_vars

(* A deleted monitor leaves neither a row nor a file of its picture behind, once the
   request has deleted the file, but for three accidents: the deletion fell between the
   worker's look at the table and its writing; a crash or a failing write had left the
   first file of the monitor without a row, and no cycle since repaired it; the file could
   not be deleted.  Then they stay, for no row and no cycle leads to them. *)
OrphansAreWitnessed ==
    \A m \in Monitors \ monitors :
        m \in debugRows \/ m \in files.names \ unlinking => m \in torn

(* However the two pruners race and whatever fails and restarts, the directory comes back
   under the configured limit time and again, and the configured space is found free again
   as far as pictures take it: the worker's old settings do not stand in the way. *)
LimitIsReached ==
    []<>(Bytes(files.names) <= limit /\ (FreeSpace >= minFree \/ foreign > Disk - minFree))
=============================================================================
