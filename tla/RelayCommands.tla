---------------------------- MODULE RelayCommands ----------------------------
(***************************************************************************)
(* Relay commands and what a list of them calls for (relay/service.py).    *)
(***************************************************************************)
EXTENDS Integers, Sequences

CONSTANTS Channels,     \* relay channel ids that commands name
          Sources       \* ids of the rules that commands come from

States == {"off", "on"}                                    \* RelayDesiredState

\* RelayCommand
Commands == [channel : Channels, state : States, source : Sources, priority : Int]

For(list, ch) == {i \in DOMAIN list : list[i].channel = ch}

\* The commands for a channel that no other command for it outranks.
Top(list, ch) ==
    {i \in For(list, ch) :
        \A j \in For(list, ch) : list[j].priority <= list[i].priority}

Ambiguous(list) ==
    \E ch \in Channels : \E i, j \in Top(list, ch) :
        list[i].state # list[j].state

\* The order in which the worker issues commands: list_rules returns the rules by
\* falling priority.
Sorted(list) ==
    \A i, j \in DOMAIN list : i <= j => list[j].priority <= list[i].priority

\* Some channel gets two different states at one priority, at whatever rank.
Disagreement(list) ==
    \E i, j \in DOMAIN list :
        /\ list[i].channel = list[j].channel
        /\ list[i].priority = list[j].priority
        /\ list[i].state # list[j].state

\* `result` gives every channel the state its top commands ask for, "none" if it has none.
IsVerdict(list, result) ==
    /\ result \in [Channels -> States \cup {"none"}]
    /\ \A ch \in Channels :
        /\ result[ch] = "none" <=> For(list, ch) = {}
        /\ \A i \in Top(list, ch) : result[ch] = list[i].state
=============================================================================
