--------------------------- MODULE MCHailoProvider ---------------------------
(***************************************************************************)
(* Two cameras, the first of which may be silent for any time and has two  *)
(* configurations, the second of which is assumed to deliver.              *)
(***************************************************************************)
EXTENDS HailoProvider

MCCameraOf == [s \in Streams |-> IF s = "yard" THEN "cam-2" ELSE "cam-1"]
MCTables == {{}, {"gate"}, {"gate", "yard"}, {"gate-2", "yard"}}
FewTables == {{}, {"yard"}, {"gate", "yard"}}
=============================================================================
