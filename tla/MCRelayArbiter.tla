--------------------------- MODULE MCRelayArbiter ---------------------------
(***************************************************************************)
(* Every list of up to three commands for two channels at three            *)
(* priorities, in every order.                                             *)
(***************************************************************************)
EXTENDS RelayArbiter

CONSTANTS MaxCommands, Priorities

MCLists ==
    UNION {[1 .. n -> [channel : Channels, state : States, source : Sources,
                   priority : Priorities]]
              : n \in 0 .. MaxCommands}
=============================================================================
