----------------------------- MODULE MCLivePage -----------------------------
(***************************************************************************)
(* The start of the services, and then a page that is opened on them.      *)
(*                                                                         *)
(* The page is opened by the administrator once all services are up.  To   *)
(* keep the instance small that is after both password requests, without a *)
(* crash, between two runs of the cleanup, with settings and relays saved  *)
(* at least once.                                                          *)
(***************************************************************************)
EXTENDS LivePage, Startup

CONSTANTS api, worker, hourly

VARIABLE opened    \* the page has been opened

TwoServices == {api, worker}
TwoColumns == <<"source_json", "mode">>

MCInit == Init /\ StartInit /\ opened = FALSE

Open ==
    /\ ~opened /\ opened' = TRUE
    /\ Ready /\ process[Cleanup].stage = "down"
    /\ admin = "first" /\ crashes = 0 /\ \A r \in Requests : request[r] \in {"told", "refused"}
    /\ \A table \in Tables : kept[table] = "changed"
    /\ UNCHANGED <<live, boot>>

Starting(Action) == ~opened /\ Action /\ UNCHANGED <<live, opened>>
Browsing(Action) == opened /\ Action /\ UNCHANGED <<boot, opened>>

all == <<live, boot, opened>>

\* The fairness of both specifications, each in its phase.
MCSpec ==
    /\ MCInit
    /\ [][Starting(StartNext) \/ Open \/ Browsing(Next)]_all
    /\ \A p \in Services : WF_all(Starting(Step(p)))
    /\ \A w \in Writers : WF_all(Browsing(Commit(w)))
    /\ WF_all(Browsing(Connect)) /\ WF_all(Browsing(Sample)) /\ WF_all(Browsing(Refresh))
    /\ \A i \in Fetches :
           WF_all(Browsing(Answer(i))) /\ WF_all(Browsing(Swap(i) \/ SwapDetached(i)))
=============================================================================
