-------------------------- MODULE MCSnapshotStore --------------------------
(***************************************************************************)
(* One monitor, whose picture is of one byte, and two pictures of events,  *)
(* of three; the worker deletes one file in a run and the cleanup three.   *)
(*                                                                         *)
(* The two halves of the cleanup have nothing to do with each other: logs  *)
(* are cleaned up while no picture has been written, and the pictures are  *)
(* explored without logs.                                                  *)
(***************************************************************************)
EXTENDS SnapshotStore, LogCleanup

MCSize == [f \in Pictures |-> IF f \in Monitors THEN 1 ELSE 3]
MCBatch(p) == IF p = "worker" THEN 1 ELSE 3

WithoutLogs == DOMAIN size = {}

\* At the start the settings are the loose limit and the larger free space; the edit that
\* MaxEdits allows lowers one of them.
MCInit ==
    /\ StoreInit /\ LogInit
    /\ limit = Max(Limits) /\ minFree = Max(MinFrees)

OfPictures(Action) == WithoutLogs /\ Action /\ UNCHANGED cleanup
LogStep == ~WithoutLogs /\ LogNext /\ StoreInit /\ UNCHANGED vars

all == <<vars, cleanup>>

\* The fairness of StoreFairSpec.
MCSpec ==
    /\ MCInit /\ [][OfPictures(StoreNext) \/ LogStep]_all
    /\ WF_all(OfPictures(WorkerStep)) /\ WF_all(OfPictures(WorkerRestart))
    /\ WF_all(OfPictures(StartCleanup))
    /\ \A p \in Pruners : WF_all(OfPictures(PrunerStep(p)))
    /\ \A m \in Monitors : WF_all(OfPictures(DeleteFile(m)))
=============================================================================
