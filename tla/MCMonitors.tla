----------------------------- MODULE MCMonitors -----------------------------
(***************************************************************************)
(* "people" is created, edited and deleted, and moves between two cameras, *)
(* the second of which comes and goes; "cars" stays at the first one.      *)
(***************************************************************************)
EXTENDS Monitors

MCPlaced == [m \in Monitors |-> IF m = "people" THEN Cameras ELSE {"cam-1"}]
=============================================================================
