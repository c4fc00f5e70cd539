----------------------------- MODULE Arbitration -----------------------------
(***************************************************************************)
(* What RelayArbiter.resolve promises for a list of relay commands         *)
(* (relay/service.py): per channel the state that the commands of highest  *)
(* priority ask for, or a RelayConflictError when those disagree.          *)
(***************************************************************************)
EXTENDS RelayCommands

CONSTANT Lists          \* the command lists resolve is called with

VARIABLES
    commands,   \* the argument of the call
    exit,       \* "none" until the call ends, then "returned" or "raised"
    result      \* what it returned

Nothing == [ch \in Channels |-> "none"]

Init == commands \in Lists /\ exit = "none" /\ result = Nothing

Return ==
    /\ exit = "none"
    /\ ~Ambiguous(commands)
    /\ exit' = "returned"
    /\ result' \in {verdict \in [Channels -> States \cup {"none"}] :
                       IsVerdict(commands, verdict)}
    /\ UNCHANGED commands

\* A list in priority order is refused for an ambiguous top only; out of order, a
\* disagreement that a later command outranks may be refused too.
Raise ==
    /\ exit = "none"
    /\ Ambiguous(commands) \/ (~Sorted(commands) /\ Disagreement(commands))
    /\ exit' = "raised"
    /\ UNCHANGED <<commands, result>>

Next == Return \/ Raise

Spec == Init /\ [][Next]_<<commands, exit, result>>
=============================================================================
