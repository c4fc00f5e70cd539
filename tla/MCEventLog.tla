----------------------------- MODULE MCEventLog -----------------------------
(***************************************************************************)
(* "door" sees two people, three, none, or nothing at all; "lamp", which   *)
(* nobody edits, logs events of its own and pushes those of "door" out of  *)
(* the window.                                                             *)
(***************************************************************************)
EXTENDS EventLog

Scene(v, s) == [verdict |-> v, seen |-> s]

MCScenes ==
    [r \in Rules |->
        IF r = "door" THEN {Scene("true", "two"), Scene("true", "three"),
                            Scene("false", "zero"), Scene("fault", Nothing)}
        ELSE {Scene("true", "two")}]
MCCameraOf == [s \in Sightings |-> IF s = "zero" THEN "cam-2" ELSE "cam-1"]

Form(e, d, hook) == [enabled |-> e, hook |-> hook, cooldown |-> 0,
               debounce |-> [t \in Targets |-> IF t = "false" THEN d ELSE 0]]

\* For the log alone: no waiting.  For its liveness: a rule that waits, or is disabled.
Instant == [r \in Rules |-> {Form(TRUE, 0, r = "door")}]
Waiting == [r \in Rules |-> {Form(TRUE, 1, TRUE), Form(FALSE, 1, TRUE)}]
=============================================================================
