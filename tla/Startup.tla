------------------------------ MODULE Startup ------------------------------
(***************************************************************************)
(* The start of the processes on one database: Database.__init__ with      *)
(* migrate, _add_column and the defaults (db.py), run by the API's two     *)
(* processes, the worker and the hourly cleanup at the same time, on a new *)
(* file or on one of an older version; and the first administrator, whom   *)
(* two requests may try to create (main.py).                               *)
(*                                                                         *)
(* A statement outside a transaction is a step; so is a transaction that   *)
(* writes.  ALTER TABLE and PRAGMA are outside of any.                     *)
(***************************************************************************)
EXTENDS Integers, Sequences, SequencesExt

CONSTANTS Services,     \* the processes that are to stay up
          Cleanup,      \* the one that runs once an hour
          Columns,      \* the columns _add_column adds, in its order
          Requests,     \* requests that send a first password
          MaxCrashes

Processes == Services \cup {Cleanup}
Tables == {"relay_channels", "settings"}
Nobody == "nobody"

ASSUME StartAssumption ==
    /\ Cleanup \notin Services /\ Nobody \notin Requests
    /\ Columns \in Seq(STRING) /\ MaxCrashes \in Nat

VARIABLES
    created,    \* the tables are there
    columns,    \* the columns that are there
    process,    \* per process its stage: an index of Columns is looked for or added
    store,      \* per table: empty, the defaults, or what the operator made of them
    kept,       \* history: the same without the processes that start
    admin,      \* whose password is stored
    request,    \* per request: new, hashing, stored, told that it worked, refused, or lost
                \* with the process that served it
    crashes

boot == <<created, columns, process, store, kept, admin, request, crashes>>

At(stage, column) == [stage |-> stage, column |-> column]
Down == At("down", 1)
Goes(p, stage, column) == process' = [process EXCEPT ![p] = At(stage, column)]
Ready == \A p \in Services : process[p].stage = "ready"

\* A new file, or one that lacks columns but has been in use.
StartInit ==
    /\ created \in BOOLEAN
    /\ columns \in IF created THEN SUBSET ToSet(Columns) ELSE {{}}
    /\ store \in [Tables -> IF created THEN {"default", "changed"} ELSE {"empty"}]
    /\ kept = store
    /\ admin = Nobody
    /\ process = [p \in Processes |-> Down]
    /\ request = [r \in Requests |-> "new"]
    /\ crashes = 0

\* The script of CREATE TABLE IF NOT EXISTS statements; a new table has every column.
CreateTables(p) ==
    /\ process[p].stage = "down"
    /\ created' = TRUE
    /\ columns' = IF created THEN columns ELSE ToSet(Columns)
    /\ Goes(p, "look", 1)
    /\ UNCHANGED <<store, kept, admin, request, crashes>>

\* _add_column: PRAGMA table_info ...
LookForColumn(p) ==
    /\ process[p].stage = "look" /\ process[p].column <= Len(Columns)
    /\ IF Columns[process[p].column] \in columns
       THEN Goes(p, "look", process[p].column + 1)
       ELSE Goes(p, "add", process[p].column)
    /\ UNCHANGED <<created, columns, store, kept, admin, request, crashes>>

\* ... and ALTER TABLE, which fails when another process was faster: the exception ends
\* the process.
AddColumn(p) ==
    /\ process[p].stage = "add"
    /\ IF Columns[process[p].column] \in columns
       THEN process' = [process EXCEPT ![p] = Down] /\ UNCHANGED columns
       ELSE /\ columns' = columns \cup {Columns[process[p].column]}
            /\ Goes(p, "look", process[p].column + 1)
    /\ UNCHANGED <<created, store, kept, admin, request, crashes>>

CountRelays(p) ==
    /\ process[p].stage = "look" /\ process[p].column > Len(Columns)
    /\ Goes(p, IF store["relay_channels"] = "empty" THEN "relays" ELSE "settings", 1)
    /\ UNCHANGED <<created, columns, store, kept, admin, request, crashes>>

\* Mutant: INSERT OR REPLACE.
InsertOrReplace(table) == store' = [store EXCEPT ![table] = "default"]

InsertOrIgnore(table) ==
    store' = [store EXCEPT ![table] = IF @ = "empty" THEN "default" ELSE @]

\* ensure_default_relays inserts what it counted, whoever was faster.
InsertRelays(p) ==
    /\ process[p].stage = "relays"
    /\ InsertOrIgnore("relay_channels")
    /\ Goes(p, "settings", 1)
    /\ UNCHANGED <<created, columns, kept, admin, request, crashes>>

InsertSettings(p) ==
    /\ process[p].stage = "settings"
    /\ InsertOrIgnore("settings")
    /\ Goes(p, "ready", 1)
    /\ UNCHANGED <<created, columns, kept, admin, request, crashes>>

\* The cleanup's run is over; the timer starts it again.
CleanupEnds ==
    /\ process[Cleanup].stage = "ready"
    /\ process' = [process EXCEPT ![Cleanup] = Down]
    /\ UNCHANGED <<created, columns, store, kept, admin, request, crashes>>

\* The requests a process may be serving.
Served(p) ==
    IF p \in Services /\ process[p].stage = "ready"
    THEN {r \in Requests : request[r] \in {"hashing", "stored"}} ELSE {}

\* Those that it serves are never answered.
Crash(p) ==
    /\ process[p].stage # "down" /\ crashes < MaxCrashes
    /\ process' = [process EXCEPT ![p] = Down]
    /\ \E cut \in SUBSET Served(p) :
           request' = [r \in Requests |-> IF r \in cut THEN "lost" ELSE request[r]]
    /\ crashes' = crashes + 1
    /\ UNCHANGED <<created, columns, store, kept, admin>>

-----------------------------------------------------------------------------
Serving == \E p \in Services : process[p].stage = "ready"

\* An operator saves the settings, the worker or an operator switches a relay.
Save(table) ==
    /\ Serving /\ store[table] # "empty"
    /\ store' = [store EXCEPT ![table] = "changed"] /\ kept' = store'
    /\ UNCHANGED <<created, columns, process, admin, request, crashes>>

\* bootstrap_admin: look for an administrator, hash for a while, insert.
AskToBootstrap(r) ==
    /\ Serving /\ request[r] = "new"
    /\ request' = [request EXCEPT ![r] = IF admin = Nobody THEN "hashing" ELSE "refused"]
    /\ UNCHANGED <<created, columns, process, store, kept, admin, crashes>>

\* The row's key is always 1: a second insert fails.
InsertAdmin(r) ==
    /\ request[r] = "hashing"
    /\ admin' = IF admin = Nobody THEN r ELSE admin
    /\ request' = [request EXCEPT ![r] = IF admin = Nobody THEN "stored" ELSE "refused"]
    /\ UNCHANGED <<created, columns, process, store, kept, crashes>>

\* The redirection to the login.
Tell(r) ==
    /\ request[r] = "stored"
    /\ request' = [request EXCEPT ![r] = "told"]
    /\ UNCHANGED <<created, columns, process, store, kept, admin, crashes>>

Step(p) ==
    \/ CreateTables(p) \/ LookForColumn(p) \/ AddColumn(p)
    \/ CountRelays(p) \/ InsertRelays(p) \/ InsertSettings(p)

StartNext ==
    \/ \E p \in Processes : Step(p) \/ Crash(p)
    \/ CleanupEnds
    \/ \E table \in Tables : Save(table)
    \/ \E r \in Requests : AskToBootstrap(r) \/ InsertAdmin(r) \/ Tell(r)

StartSpec == StartInit /\ [][StartNext]_boot

\* systemd starts the services again (Restart=on-failure) and they go on.
StartFairSpec == StartSpec /\ \A p \in Services : WF_boot(Step(p))

-----------------------------------------------------------------------------
StartTypeOK ==
    /\ created \in BOOLEAN /\ columns \subseteq ToSet(Columns)
    /\ process \in [Processes -> [stage : {"down", "look", "add", "relays", "settings", "ready"},
                                  column : 1 .. Len(Columns) + 1]]
    /\ store \in [Tables -> {"empty", "default", "changed"}] 
    /\ kept \in [Tables -> {"empty", "default", "changed"}]
    /\ admin \in Requests \cup {Nobody}
    /\ request \in [Requests -> {"new", "hashing", "stored", "told", "refused", "lost"}]
    /\ crashes \in 0 .. MaxCrashes

\* What was stored is what the operators were told, those apart whom nobody answers.
Truthful ==
    /\ \A table \in Tables : kept[table] = "changed" => store[table] = "changed"
    /\ \A r \in Requests :
           /\ request[r] \in {"stored", "told"} => admin = r
           /\ request[r] = "refused" => admin \notin {Nobody, r}
           /\ admin = r => request[r] \in {"stored", "told", "lost"}

(* However the starts of several processes interleave, and with an older file: a process
   that dies because another has added its column starts again, and in the end all
   services are up, with every column, with the settings and relay states that were
   saved meanwhile, and with the password of the request that was told so; nobody is
   refused who set it, or while there is none, and who set it and is told nothing was
   served by a process that crashed. *)
EveryServiceStarts ==
    <>[](Ready /\ columns = ToSet(Columns) /\ Truthful)
=============================================================================
