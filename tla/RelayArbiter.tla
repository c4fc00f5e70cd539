---------------------------- MODULE RelayArbiter ----------------------------
(***************************************************************************)
(* RelayArbiter.resolve (relay/service.py): one pass over the commands of  *)
(* a cycle that keeps the winning command of every channel.  One step is   *)
(* one turn of the loop.                                                   *)
(***************************************************************************)
EXTENDS RelayCommands

CONSTANT Lists          \* the command lists resolve is called with

ASSUME ListsAssumption == Lists \subseteq Seq(Commands)

Nobody   == [channel |-> "none", state |-> "none", source |-> "none", priority |-> 0]

VARIABLES commands,     \* the argument
          turn,         \* index of the command the loop considers next
          winners,      \* the local dictionary; Nobody where it has no entry
          exit          \* how the call ended: "none" yet, "returned" or "raised"

vars == <<commands, turn, winners, exit>>

Init ==
    /\ commands \in Lists
    /\ turn = 1
    /\ winners = [ch \in Channels |-> Nobody]
    /\ exit = "none"

Current(command) == winners[command.channel]

\* Mutant: a command of equal priority replaces the winner before it is compared.
TakesOverAtEqual(command) ==
    Current(command) = Nobody \/ command.priority >= Current(command).priority

TakesOver(command) ==
    Current(command) = Nobody \/ command.priority > Current(command).priority

\* Mutant: the comparison of the states is left out.
ClashesAlways(command) == Current(command).priority = command.priority

Clashes(command) ==
    /\ Current(command).priority = command.priority
    /\ Current(command).state # command.state

Looping == exit = "none" /\ turn <= Len(commands)

Win ==
    /\ Looping
    /\ TakesOver(commands[turn])
    /\ winners' = [winners EXCEPT ![commands[turn].channel] = commands[turn]]
    /\ turn' = turn + 1
    /\ UNCHANGED <<commands, exit>>

\* Mutant: a losing command is removed from the list under the loop, which then skips the
\* one behind it.
LoseSkipping ==
    /\ Looping
    /\ ~TakesOver(commands[turn]) /\ ~Clashes(commands[turn])
    /\ turn' = turn + 2
    /\ UNCHANGED <<commands, winners, exit>>

Lose ==
    /\ Looping
    /\ ~TakesOver(commands[turn]) /\ ~Clashes(commands[turn])
    /\ turn' = turn + 1
    /\ UNCHANGED <<commands, winners, exit>>

Raise ==
    /\ Looping
    /\ ~TakesOver(commands[turn]) /\ Clashes(commands[turn])
    /\ exit' = "raised"
    /\ UNCHANGED <<commands, turn, winners>>

Return ==
    /\ exit = "none" /\ turn > Len(commands)
    /\ exit' = "returned"
    /\ UNCHANGED <<commands, turn, winners>>

Next == Win \/ Lose \/ Raise \/ Return

Spec == Init /\ [][Next]_vars

-----------------------------------------------------------------------------
\* The dictionary that resolve returns.
Result == [ch \in Channels |-> IF exit = "returned" THEN winners[ch].state ELSE "none"]

Promise == INSTANCE Arbitration WITH result <- Result

TypeOK ==
    /\ commands \in Lists
    /\ turn \in 1 .. Len(commands) + 1
    /\ winners \in [Channels -> Commands \cup {Nobody}]
    /\ exit \in {"none", "returned", "raised"}

Seen == 1 .. turn - 1                       \* the indices already considered

\* At every turn the winner of a channel is a command already seen, no command seen
\* outranks it, and every one of its rank asks for the same state: a conflict among the
\* leaders is noticed no later than at the command that completes it.
WinnersLead ==
    \A ch \in Channels :
        LET seen == {i \in Seen : commands[i].channel = ch}
        IN  IF seen = {} THEN winners[ch] = Nobody
            ELSE /\ \E i \in seen : winners[ch] = commands[i]
                 /\ \A i \in seen :
                        /\ commands[i].priority <= winners[ch].priority
                        /\ commands[i].priority = winners[ch].priority =>
                               commands[i].state = winners[ch].state

\* The loop implements the promise: it returns exactly the verdict of the commands of
\* highest priority, never one of an ambiguous list, and refuses a list in priority order
\* for nothing else.
ImplementsArbitration == Promise!Spec
=============================================================================
