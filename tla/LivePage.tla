------------------------------ MODULE LivePage ------------------------------
(***************************************************************************)
(* One live fragment of an open page: the tables behind it (db.py), the    *)
(* event stream that samples their signature once a second (live_stream,   *)
(* main.py), and the browser that fetches the fragment on every event and  *)
(* swaps it in (static/src/ui.ts).                                         *)
(*                                                                         *)
(* The content of the tables is a version that every visible change        *)
(* raises; a row keeps the timestamp of its last write, 0 when there is no *)
(* row.  What a writer stamps and when it commits are steps of their own:  *)
(* the timestamp is taken before the database's write lock.                *)
(*                                                                         *)
(* The monitors' outputs are part of the monitors' table, which is a live  *)
(* fragment too and is replaced whole: a request for the table is answered *)
(* with the outputs as they are then, and its swap puts these in place of  *)
(* those on the page.                                                      *)
(***************************************************************************)
EXTENDS Integers, FiniteSets, FiniteSetsExt

CONSTANTS Rows,
          MaxWrites,    \* bounds the changes of the tables
          MaxFetches,   \* bounds the requests of the browser under way
          MaxBreaks     \* bounds breaks of the stream, loads and requests for the table

ASSUME LiveAssumption ==
    /\ IsFiniteSet(Rows) /\ Rows # {}
    /\ MaxWrites \in Nat \ {0} /\ MaxFetches \in Nat \ {0} /\ MaxBreaks \in Nat

\* The fragments.  monitor_debug is like monitor_outputs, in the same table.
Topics == {"relays", "events", "monitors", "monitor_outputs", "health"}

Counted  == {"events"}                        \* the signature counts the rows too
Stamped  == {"relays", "health"}              \* rows that are there from the start
Deleting == {"monitors", "monitor_outputs"}   \* delete_monitor
Silent   == {"events", "monitors", "monitor_outputs", "health"}  \* changes without a timestamp
InPlace  == {"health"}                        \* data-live-swap="innerHTML"
Nested   == {"monitor_outputs"}               \* inside another live fragment
\* The API tests relays and creates monitors, the worker writes all tables.
WritersOf(t) == IF t \in Stamped \cup {"monitors"} THEN {"worker", "api"} ELSE {"worker"}
Writers == {"worker", "api"}
Fetches == 1 .. MaxFetches
None == <<>>
Loading == 0    \* the version of a health panel without content
NoFetch == [state |-> "free", version |-> 0, attached |-> TRUE, whole |-> FALSE]

VARIABLES
    topic,      \* the fragment this behaviour is about
    rows,       \* the timestamps of its tables
    version,    \* of the content
    clock,      \* the last timestamp, counting changes without one too
    pending,    \* per writer: the row and timestamp it is about to commit, or None
    stream,     \* whether the stream is open, and the signature it compares with
    messages,   \* events on their way to the browser
    fetch,      \* per request: the version answered, whether its element is still there, and
                \* whether that is the table around the fragment
    page,       \* the version shown
    lost,       \* history: what the refreshes missed since the page was last current
    breaks      \* breaks of the stream, loads and requests for the table so far

tables  == <<topic, rows, version, clock, pending>>
browser == <<messages, fetch, page>>
live    == <<tables, stream, browser, lost, breaks>>

\* live_signatures, the part of one fragment, of tables with these timestamps.
SignatureOf(stamps) ==
    << Max({stamps[r] : r \in Rows} \cup {0}),
       IF topic \in Counted THEN Cardinality({r \in Rows : stamps[r] # 0}) ELSE 0 >>
Signature == SignatureOf(rows)

\* A page is rendered with the fragment; but the health panel is rendered empty and asks
\* for its content when it is loaded.
FirstPage(t, v) == IF t \in InPlace THEN Loading ELSE v
FirstFetch(t) ==
    [i \in Fetches |-> IF t \in InPlace /\ i = 1 THEN [NoFetch EXCEPT !.state = "asked"]
                                                ELSE NoFetch]

Init ==
    /\ topic \in Topics
    /\ rows = [r \in Rows |-> IF topic \in Stamped THEN 1 ELSE 0]
    /\ clock = 1 /\ version = 1 /\ pending = [w \in Writers |-> None]
    /\ stream = [open |-> FALSE, previous |-> <<0, 0>>]
    /\ messages = 0 /\ fetch = FirstFetch(topic)
    /\ page = FirstPage(topic, version) /\ lost = {} /\ breaks = 0

-----------------------------------------------------------------------------
(***************************************************************************)
(* The tables.                                                             *)
(***************************************************************************)

\* The content changes, and with it the timestamps or not.  A change that leaves the
\* signature as the stream saw it last goes unnoticed.
Change(stamps, reason) ==
    /\ rows' = stamps /\ version' = version + 1
    /\ lost' = IF stream.open /\ SignatureOf(stamps) = stream.previous
               THEN lost \cup {reason} ELSE lost

\* utc_iso() in the call that writes; an observation's timestamp is taken when it is made,
\* in the order in which the worker records them.
Stamp(w, r) ==
    /\ w \in WritersOf(topic) /\ pending[w] = None /\ clock < MaxWrites
    /\ topic \in Counted => rows[r] = 0           \* an event is inserted, never updated
    /\ clock' = clock + 1
    /\ pending' = [pending EXCEPT ![w] = <<r, clock + 1>>]
    /\ UNCHANGED <<topic, rows, version, stream, browser, lost, breaks>>

Commit(w) ==
    /\ pending[w] # None
    /\ Change([rows EXCEPT ![pending[w][1]] = pending[w][2]], "overtaken")
    /\ pending' = [pending EXCEPT ![w] = None]
    /\ UNCHANGED <<topic, clock, stream, browser, breaks>>

\* An event's webhook status, the name of a monitor, a camera or a rule, the number of
\* rules: shown, and not stamped in the tables the signature looks at.
ChangeSilently ==
    /\ topic \in Silent /\ clock < MaxWrites
    /\ clock' = clock + 1 /\ Change(rows, "unstamped")
    /\ UNCHANGED <<topic, pending, stream, browser, breaks>>

DeleteRow(r) ==
    /\ topic \in Deleting /\ rows[r] # 0 /\ clock < MaxWrites
    /\ clock' = clock + 1 /\ Change([rows EXCEPT ![r] = 0], "deleted")
    /\ UNCHANGED <<topic, pending, stream, browser, breaks>>

-----------------------------------------------------------------------------
(***************************************************************************)
(* The stream.                                                             *)
(***************************************************************************)

\* A request under way will bring the content up to date.
Awaited == \E i \in Fetches : fetch[i].state = "asked" /\ fetch[i].attached

\* Mutant: the stream starts without a first sample.
ConnectUnsampled ==
    /\ ~stream.open
    /\ stream' = [open |-> TRUE, previous |-> None]
    /\ lost' = IF page # version /\ ~Awaited THEN lost \cup {"gap"} ELSE lost
    /\ UNCHANGED <<tables, browser, breaks>>

\* The browser connects after the page is rendered, and again after a break; the first
\* sample is taken then.
Connect ==
    /\ ~stream.open
    /\ stream' = [open |-> TRUE, previous |-> Signature]
    /\ lost' = IF page # version /\ ~Awaited THEN lost \cup {"gap"} ELSE lost
    /\ UNCHANGED <<tables, browser, breaks>>

Sample ==
    /\ stream.open /\ Signature # stream.previous
    /\ stream' = [stream EXCEPT !.previous = Signature]
    /\ messages' = messages + 1
    /\ UNCHANGED <<tables, fetch, page, lost, breaks>>

Break ==
    /\ stream.open /\ breaks < MaxBreaks /\ breaks' = breaks + 1
    /\ stream' = [stream EXCEPT !.open = FALSE]
    /\ messages' = 0
    /\ UNCHANGED <<tables, fetch, page, lost>>

-----------------------------------------------------------------------------
(***************************************************************************)
(* The browser.                                                            *)
(***************************************************************************)

Load ==
    /\ breaks < MaxBreaks /\ breaks' = breaks + 1
    /\ page' = FirstPage(topic, version) /\ fetch' = FirstFetch(topic) /\ messages' = 0
    /\ stream' = [stream EXCEPT !.open = FALSE]
    /\ lost' = {}
    /\ UNCHANGED tables

Free == {i \in Fetches : fetch[i] = NoFetch}

\* Mutant: an event that arrives while the fragment is being fetched is dropped.
RefreshOnce ==
    /\ messages > 0 /\ Free # {}
    /\ messages' = messages - 1
    /\ fetch' = IF Free = Fetches
                THEN [fetch EXCEPT ![Min(Free)] = [NoFetch EXCEPT !.state = "asked"]]
                ELSE fetch
    /\ UNCHANGED <<tables, stream, page, lost, breaks>>

\* refreshLiveFragments: every event starts a request for the element that is there.
Refresh ==
    /\ messages > 0 /\ Free # {}
    /\ messages' = messages - 1
    /\ fetch' = [fetch EXCEPT ![Min(Free)] = [NoFetch EXCEPT !.state = "asked"]]
    /\ UNCHANGED <<tables, stream, page, lost, breaks>>

\* The monitors' table is asked for: an event of its own, which the stream may notice at
\* any time, or the answer to an operator's command, which htmx puts in its place alike.
RefreshTable ==
    /\ topic \in Nested \cup {"monitors"} /\ Free # {}
    /\ breaks < MaxBreaks /\ breaks' = breaks + 1
    /\ fetch' = [fetch EXCEPT ![Min(Free)] = [NoFetch EXCEPT !.state = "asked",
                                                            !.whole = topic \in Nested]]
    /\ UNCHANGED <<tables, stream, messages, page, lost>>

\* The server renders the fragment.
Answer(i) ==
    /\ fetch[i].state = "asked"
    /\ fetch' = [fetch EXCEPT ![i].state = "answered", ![i].version = version]
    /\ UNCHANGED <<tables, stream, messages, page, lost, breaks>>

Detached(j) == IF j \in Free THEN NoFetch ELSE [fetch[j] EXCEPT !.attached = FALSE]

Shown(i) ==
    /\ fetch[i].state = "answered"
    /\ page' = fetch[i].version
    /\ lost' = IF page' = version THEN {}
               ELSE IF page' < page THEN lost \cup {IF fetch[i].whole THEN "table" ELSE "overlap"}
               ELSE lost
    /\ UNCHANGED <<tables, stream, messages, breaks>>

\* Mutant: the element is looked up when the answer arrives.
SwapByName(i) ==
    /\ Shown(i)
    /\ fetch' = [fetch EXCEPT ![i] = NoFetch]

\* Replacing an element takes those inside it along, and leaves those around it.
Stays(j, i) == topic \in InPlace \/ (fetch[j].whole /\ ~fetch[i].whole)

\* innerHTML of the element, or replaceWith: then the element is no longer in the page
\* and the other requests under way for it hold a detached one.
Swap(i) ==
    /\ fetch[i].attached /\ Shown(i)
    /\ fetch' = [j \in Fetches |-> IF j = i THEN NoFetch
                                   ELSE IF Stays(j, i) THEN fetch[j] ELSE Detached(j)]

Ended(i, reason) ==
    /\ fetch' = [fetch EXCEPT ![i] = NoFetch]
    /\ lost' = IF page # version THEN lost \cup {reason} ELSE lost
    /\ UNCHANGED <<tables, stream, messages, page, breaks>>

\* replaceWith of a detached element does nothing that is seen: the answer, newer perhaps
\* than the one that is shown, is dropped.
SwapDetached(i) ==
    /\ fetch[i].state = "answered" /\ ~fetch[i].attached
    /\ Ended(i, "overlap")

\* An answer that is not ok, or none: nothing tries again.
FetchFails(i) ==
    /\ fetch[i].state # "free"
    /\ Ended(i, "failed")

Next ==
    \/ \E w \in Writers : Commit(w) \/ \E r \in Rows : Stamp(w, r)
    \/ ChangeSilently
    \/ \E r \in Rows : DeleteRow(r)
    \/ Connect \/ Sample \/ Break \/ Load \/ Refresh \/ RefreshTable
    \/ \E i \in Fetches : Answer(i) \/ Swap(i) \/ SwapDetached(i) \/ FetchFails(i)

Spec == Init /\ [][Next]_live

(* A write once stamped is committed, the stream samples every second and the browser
   connects again by itself, and a request is answered or fails. *)
Fairness ==
    /\ \A w \in Writers : WF_live(Commit(w))
    /\ WF_live(Connect) /\ WF_live(Sample) /\ WF_live(Refresh)
    /\ \A i \in Fetches : WF_live(Answer(i)) /\ WF_live(Swap(i) \/ SwapDetached(i))

FairSpec == Spec /\ Fairness

-----------------------------------------------------------------------------
(***************************************************************************)
(* Properties.                                                             *)
(***************************************************************************)

Reasons == {"overtaken", "unstamped", "deleted", "gap", "overlap", "table", "failed"}

(* The page shows a version that was, no answer is from the future, a page that is
   current has missed nothing, and no two writers hold one timestamp. *)
TypeOK ==
    /\ topic \in Topics
    /\ rows \in [Rows -> 0 .. clock] /\ clock \in 1 .. MaxWrites
    /\ version \in 1 .. clock /\ page \in 0 .. version
    /\ \A w \in Writers : pending[w] # None =>
        /\ pending[w] \in Rows \X (1 .. clock)
        /\ \A v \in Writers \ {w} : pending[v] # None => pending[v][2] # pending[w][2]
    /\ stream.open \in BOOLEAN /\ stream.previous \in (0 .. clock) \X (0 .. Cardinality(Rows))
    /\ messages \in Nat /\ breaks \in 0 .. MaxBreaks
    /\ fetch \in [Fetches -> [state : {"free", "asked", "answered"}, version : 0 .. version,
                              attached : BOOLEAN, whole : BOOLEAN]]
    /\ lost \subseteq Reasons /\ (page = version => lost = {})

(* Two events in quick succession have two requests under way, and their answers come
   in any order.  A fragment that is replaced shows an older version after a newer one
   only if the table around it was asked for meanwhile: of its own requests the one that
   is overtaken holds an element that is gone, but the table's does not, and its late
   answer brings the older outputs.  (The health panel is filled in place and does go
   back.) *)
PageNeverGoesBack ==
    [][page' < page => topic \in InPlace \/ \E i \in Fetches : fetch[i].whole /\ Swap(i)]_live

(* docs/architecture.md:42: changes of the persisted state are emitted and refresh the
   fragment.  When the tables come to rest a page that is connected shows them, with seven exceptions,
   each of which stays until the next change that is noticed: a commit with a timestamp
   that another had overtaken, a change without a timestamp, a deletion of a row that is
   not the newest, a change between rendering and the first sample or during a break that
   no request under way makes up for, an answer that finds its element replaced by an
   older one or replaces a newer one in place, an older answer for the table around the
   fragment, a failed request. *)
PageCatchesUp == []<>stream.open => <>[](page = version \/ lost # {})
=============================================================================
