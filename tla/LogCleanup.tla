----------------------------- MODULE LogCleanup -----------------------------
(***************************************************************************)
(* cleanup_logs (maintenance.py), the second half of the cleanup service's *)
(* run: old logs go, and then the oldest until the rest fits.              *)
(*                                                                         *)
(* A log is its place in the order of age, the oldest first, so those past *)
(* the retention are the first ones.  A stuck log is one whose unlink      *)
(* fails: delete_path swallows the error.                                  *)
(***************************************************************************)
EXTENDS Integers, FiniteSetsExt, Functions

CONSTANTS MaxLogs,          \* bounds the logs
          LogSizes,         \* the bytes of a log
          LogLimits         \* the values of SMARTAI_LOG_MAX_BYTES

ASSUME LogAssumption == MaxLogs \in Nat /\ LogSizes \subseteq Nat /\ LogLimits \subseteq Nat

VARIABLES
    logs,       \* the logs that are there
    size,       \* the bytes of each
    stuck,      \* those that cannot be deleted
    listed,     \* the logs that log_records found
    expired,    \* the last log past the retention, 0 if there is none
    maximum,    \* max_total_bytes, 0 before the first run
    todo,       \* the logs the second loop has yet to come to
    total       \* what it takes the kept logs to have

lists   == <<size, stuck, listed, expired, maximum>>
cleanup == <<logs, lists, todo, total>>

LogInit ==
    /\ \E n \in 0 .. MaxLogs : /\ logs = 1 .. n
                               /\ size \in [1 .. n -> LogSizes]
                               /\ stuck \in SUBSET (1 .. n)
    /\ listed = {} /\ expired = 0 /\ maximum = 0 /\ todo = {} /\ total = 0

LogBytes(some) == SumFunctionOnSet(size, some)
Kept == {log \in listed : log > expired}
ButNewest(some) == {log \in some : log # Max(some)}

\* The second loop breaks as soon as the rest fits.
Over == todo = {} \/ total <= maximum

\* Mutant: the newest log is looked at like the others.
CutToSizeToTheLast ==
    /\ total' = LogBytes(Kept')
    /\ todo' = Kept'

\* The total and the loop are about the logs that have not expired.
CutToSize ==
    /\ total' = LogBytes(Kept')
    /\ todo' = ButNewest(Kept')

\* A run with this cutoff: expired logs go before the others are looked at.  Only the logs
\* found are, those whose stat succeeds in this run.
CleanupLogs(cutoff, max, found) ==
    /\ Over
    /\ listed' = found /\ expired' = cutoff /\ maximum' = max
    /\ logs' = logs \ {log \in found \ stuck : log <= cutoff}
    /\ CutToSize
    /\ UNCHANGED <<size, stuck>>

\* One turn of the loop.  A log that cannot be deleted stays in the total.
DeleteLog ==
    LET log == Min(todo)
    IN  /\ ~Over /\ log \notin stuck
        /\ logs' = logs \ {log} /\ todo' = todo \ {log} /\ total' = total - size[log]
        /\ UNCHANGED lists

LeaveLog ==
    LET log == Min(todo)
    IN  /\ ~Over /\ log \in stuck
        /\ todo' = todo \ {log}
        /\ UNCHANGED <<logs, lists, total>>

LogNext ==
    \/ \E cutoff \in logs \cup {0}, max \in LogLimits, found \in SUBSET logs :
          CleanupLogs(cutoff, max, found)
    \/ DeleteLog \/ LeaveLog

LogSpec == LogInit /\ [][LogNext]_cleanup

-----------------------------------------------------------------------------
ExpiredLogsGo == \A log \in listed : log <= expired => (log \in logs <=> log \in stuck)

\* What the cleanup saw when it came to the log: it, the younger, the older that stayed.
FreshLogsGoForSpace ==
    \A log \in Kept \ logs :
        LogBytes({other \in Kept : other >= log \/ other \in logs}) > maximum

WhatStaysFits ==
    Over => \/ LogBytes(Kept \cap logs) <= maximum
            \/ \A log \in (Kept \cap logs) \ stuck : log = Max(Kept)

NewestStays == Kept # {} => Max(Kept) \in logs

(* For any logs, some of which cannot be deleted and some of which log_records passes
   over, any cutoff and any limit, run after run, and of the logs found: the expired ones
   go; of the others one goes only if it, the newer ones and the older ones that could not
   be deleted exceed the limit; what stays at the end fits, or none of it but the newest
   can be deleted; and the newest, the one being written, stays unless it is expired. *)
LogsAreCutToSize ==
    ExpiredLogsGo /\ FreshLogsGoForSpace /\ WhatStaysFits /\ NewestStays
=============================================================================
