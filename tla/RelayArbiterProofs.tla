------------------------- MODULE RelayArbiterProofs -------------------------
(***************************************************************************)
(* The arbiter's loop keeps its leaders and implements Arbitration, for    *)
(* every set of channels and every set of command lists.                   *)
(***************************************************************************)
EXTENDS RelayArbiter, TLAPS

\* A list of commands is a function from 1 .. Len to commands.
LEMMA ListFacts ==
    ASSUME commands \in Lists
    PROVE  /\ commands \in Seq(Commands)
           /\ Len(commands) \in Nat
           /\ DOMAIN commands = 1 .. Len(commands)
           /\ \A i \in 1 .. Len(commands) :
                /\ commands[i] \in Commands
                /\ commands[i].channel \in Channels
                /\ commands[i].priority \in Int
                /\ commands[i].state \in States
                /\ commands[i] # Nobody
<1>1. commands \in Seq(Commands)
  BY ListsAssumption
<1>2. \A c \in Commands : /\ c.channel \in Channels /\ c.priority \in Int
                          /\ c.state \in States /\ c # Nobody
  BY DEF Commands, Nobody, States
<1>3. /\ Len(commands) \in Nat
      /\ DOMAIN commands = 1 .. Len(commands)
      /\ \A i \in 1 .. Len(commands) : commands[i] \in Commands
  BY <1>1
<1>4. QED
  BY <1>1, <1>2, <1>3

LEMMA InitType == Init => TypeOK
BY ListFacts DEF Init, TypeOK

LEMMA StepType == TypeOK /\ [Next]_vars => TypeOK'
<1> SUFFICES ASSUME TypeOK, [Next]_vars PROVE TypeOK'
  OBVIOUS
<1>1. CASE Win
  BY <1>1, ListFacts DEF TypeOK, Win, Looping
<1>2. CASE Lose
  BY <1>2, ListFacts DEF TypeOK, Lose, Looping
<1>3. CASE Raise
  BY <1>3 DEF TypeOK, Raise
<1>4. CASE Return
  BY <1>4 DEF TypeOK, Return
<1>5. CASE UNCHANGED vars
  BY <1>5 DEF TypeOK, vars
<1>6. QED
  BY <1>1, <1>2, <1>3, <1>4, <1>5 DEF Next

\* The loop's variables stay in their sets for every set of lists.
THEOREM TypeCorrect == Spec => []TypeOK
BY InitType, StepType, PTL DEF Spec

-----------------------------------------------------------------------------
(* The leaders. *)

IInv == TypeOK /\ WinnersLead

SeenFor(ch) == {i \in Seen : commands[i].channel = ch}

\* What WinnersLead says of one channel, with the two cases apart.
LEMMA LeadFacts ==
    ASSUME WinnersLead, NEW ch \in Channels
    PROVE  /\ SeenFor(ch) = {} => winners[ch] = Nobody
           /\ SeenFor(ch) # {} =>
                 /\ \E i \in SeenFor(ch) : winners[ch] = commands[i]
                 /\ \A i \in SeenFor(ch) :
                       /\ commands[i].priority <= winners[ch].priority
                       /\ commands[i].priority = winners[ch].priority =>
                              commands[i].state = winners[ch].state
BY DEF WinnersLead, SeenFor

\* The step from one turn to the next adds one command to those seen.
LEMMA SeenGrows ==
    ASSUME TypeOK, Looping, turn' = turn + 1, commands' = commands
    PROVE  /\ turn \in 1 .. Len(commands)
           /\ Seen' = Seen \cup {turn}
           /\ Seen \subseteq 1 .. Len(commands)
BY ListFacts DEF TypeOK, Looping, Seen

LEMMA WinLeads == ASSUME IInv, Win PROVE WinnersLead'
<1> DEFINE c == commands[turn]
<1>1. /\ turn \in 1 .. Len(commands)
      /\ Seen' = Seen \cup {turn}
      /\ Seen \subseteq 1 .. Len(commands)
      /\ commands' = commands
  BY SeenGrows DEF IInv, Win
<1>2. /\ c \in Commands /\ c.channel \in Channels /\ c.priority \in Int
      /\ winners' = [winners EXCEPT ![c.channel] = c]
      /\ winners \in [Channels -> Commands \cup {Nobody}]
  BY <1>1, ListFacts DEF IInv, TypeOK, Win
<1>3. ASSUME NEW ch \in Channels
      PROVE  LET seen == {i \in Seen' : commands[i].channel = ch}
             IN  IF seen = {} THEN winners'[ch] = Nobody
                 ELSE /\ \E i \in seen : winners'[ch] = commands[i]
                      /\ \A i \in seen :
                            /\ commands[i].priority <= winners'[ch].priority
                            /\ commands[i].priority = winners'[ch].priority =>
                                   commands[i].state = winners'[ch].state
  <2>1. CASE ch # c.channel
    <3>1. {i \in Seen' : commands[i].channel = ch} = SeenFor(ch)
      BY <1>1, <2>1 DEF SeenFor
    <3>2. winners'[ch] = winners[ch]
      BY <1>2, <2>1
    <3>3. QED
      BY <3>1, <3>2, LeadFacts DEF IInv
  <2>2. CASE ch = c.channel
    <3>1. {i \in Seen' : commands[i].channel = ch} = SeenFor(ch) \cup {turn}
      BY <1>1, <2>2 DEF SeenFor
    <3>2. winners'[ch] = c
      BY <1>2, <2>2
    <3>3. \A i \in SeenFor(ch) : commands[i].priority < c.priority
      <4>1. \A i \in SeenFor(ch) : /\ commands[i] \in Commands
                                   /\ commands[i].priority \in Int
                                   /\ commands[i] # Nobody
        BY <1>1, ListFacts DEF SeenFor, IInv, TypeOK
      <4>2. winners[ch] = Nobody \/ c.priority > winners[ch].priority
        BY <2>2 DEF Win, TakesOver, Current
      <4>3. ASSUME NEW i \in SeenFor(ch) PROVE commands[i].priority < c.priority
        <5>1. PICK j \in SeenFor(ch) : winners[ch] = commands[j]
          BY LeadFacts DEF IInv
        <5>2. /\ winners[ch] # Nobody /\ winners[ch].priority \in Int
              /\ commands[i].priority <= winners[ch].priority
          BY <4>1, <5>1, LeadFacts DEF IInv
        <5>3. QED
          BY <1>2, <4>1, <4>2, <5>2
      <4>4. QED
        BY <4>3
    <3>4. \A i \in SeenFor(ch) : commands[i].priority \in Int
      BY <1>1, ListFacts DEF SeenFor, IInv, TypeOK
    <3>5. QED
      BY <1>2, <3>1, <3>2, <3>3, <3>4
  <2>3. QED
    BY <2>1, <2>2
<1>4. QED
  BY <1>1, <1>3 DEF WinnersLead

LEMMA LoseLeads == ASSUME IInv, Lose PROVE WinnersLead'
<1> DEFINE c == commands[turn]
<1>1. /\ turn \in 1 .. Len(commands)
      /\ Seen' = Seen \cup {turn}
      /\ Seen \subseteq 1 .. Len(commands)
      /\ commands' = commands
      /\ winners' = winners
  BY SeenGrows DEF IInv, Lose
<1>2. c.channel \in Channels /\ c.priority \in Int
  BY <1>1, ListFacts DEF IInv, TypeOK
<1>3. /\ winners[c.channel] # Nobody
      /\ ~(c.priority > winners[c.channel].priority)
      /\ c.priority = winners[c.channel].priority => c.state = winners[c.channel].state
  BY DEF Lose, TakesOver, Clashes, Current
<1>4. ASSUME NEW ch \in Channels
      PROVE  LET seen == {i \in Seen' : commands[i].channel = ch}
             IN  IF seen = {} THEN winners[ch] = Nobody
                 ELSE /\ \E i \in seen : winners[ch] = commands[i]
                      /\ \A i \in seen :
                            /\ commands[i].priority <= winners[ch].priority
                            /\ commands[i].priority = winners[ch].priority =>
                                   commands[i].state = winners[ch].state
  <2>1. CASE ch # c.channel
    <3>1. {i \in Seen' : commands[i].channel = ch} = SeenFor(ch)
      BY <1>1, <2>1 DEF SeenFor
    <3>2. QED
      BY <3>1, LeadFacts DEF IInv
  <2>2. CASE ch = c.channel
    <3>1. {i \in Seen' : commands[i].channel = ch} = SeenFor(ch) \cup {turn}
      BY <1>1, <2>2 DEF SeenFor
    <3>2. SeenFor(ch) # {}
      BY <1>3, <2>2, LeadFacts DEF IInv
    <3>3. winners[ch].priority \in Int
      BY <1>1, <3>2, LeadFacts, ListFacts DEF SeenFor, IInv, TypeOK
    <3>4. c.priority <= winners[ch].priority
      BY <1>2, <1>3, <2>2, <3>3
    <3>5. QED
      BY <1>3, <2>2, <3>1, <3>2, <3>4, LeadFacts DEF IInv
  <2>3. QED
    BY <2>1, <2>2
<1>5. QED
  BY <1>1, <1>4 DEF WinnersLead

LEMMA StepInv == IInv /\ [Next]_vars => IInv'
<1> SUFFICES ASSUME IInv, [Next]_vars PROVE IInv'
  OBVIOUS
<1>1. TypeOK'
  BY StepType DEF IInv
<1>2. CASE Raise
  BY <1>1, <1>2 DEF IInv, Raise, WinnersLead, Seen
<1>3. CASE Return
  BY <1>1, <1>3 DEF IInv, Return, WinnersLead, Seen
<1>4. CASE UNCHANGED vars
  BY <1>1, <1>4 DEF IInv, vars, WinnersLead, Seen
<1>5. QED
  BY <1>1, <1>2, <1>3, <1>4, WinLeads, LoseLeads DEF IInv, Next

LEMMA InvHolds == Spec => []IInv
<1>1. Init => IInv
  <2>1. Init => Seen = {}
    BY DEF Init, Seen
  <2>2. QED
    BY <2>1, InitType DEF Init, IInv, WinnersLead
<1>2. QED
  BY <1>1, StepInv, PTL DEF Spec

\* The winners lead the commands seen so far, at every turn of every call.
THEOREM WinnersAlwaysLead == Spec => []WinnersLead
BY InvHolds, PTL DEF IInv

-----------------------------------------------------------------------------
(* The refinement. *)

\* A disagreement with a winner is one among the commands; in a list in priority order
\* it is one among the top commands of the channel.
LEMMA RaiseRefines == ASSUME IInv, Raise PROVE Promise!Raise
<1> DEFINE k == turn
           ch == commands[turn].channel
<1>1. /\ k \in 1 .. Len(commands) /\ Seen = 1 .. k - 1
      /\ DOMAIN commands = 1 .. Len(commands)
      /\ Len(commands) \in Nat
      /\ ch \in Channels
      /\ \A i \in 1 .. Len(commands) : commands[i].priority \in Int
  BY ListFacts DEF IInv, TypeOK, Raise, Looping, Seen
<1>2. /\ winners[ch] # Nobody
      /\ winners[ch].priority = commands[k].priority
      /\ winners[ch].state # commands[k].state
  BY DEF Raise, TakesOver, Clashes, Current
<1>3. PICK i \in SeenFor(ch) : winners[ch] = commands[i]
  BY <1>1, <1>2, LeadFacts DEF IInv
<1>4. /\ i \in 1 .. k - 1 /\ i \in DOMAIN commands /\ k \in DOMAIN commands
      /\ commands[i].channel = ch
      /\ commands[i].priority = commands[k].priority
      /\ commands[i].state # commands[k].state
  BY <1>1, <1>2, <1>3 DEF SeenFor
<1>5. Promise!Disagreement(commands)
  BY <1>4 DEF Promise!Disagreement
<1>6. ASSUME Promise!Sorted(commands) PROVE Promise!Ambiguous(commands)
  <2>1. ASSUME NEW j \in Promise!For(commands, ch)
        PROVE  commands[j].priority <= commands[k].priority
    <3>1. j \in 1 .. Len(commands) /\ commands[j].channel = ch
      BY <1>1 DEF Promise!For
    <3>2. CASE j < k
      <4>1. j \in SeenFor(ch)
        BY <1>1, <3>1, <3>2 DEF SeenFor
      <4>2. commands[j].priority <= winners[ch].priority
        BY <1>1, <4>1, LeadFacts DEF IInv
      <4>3. QED
        BY <1>2, <4>2
    <3>3. CASE j >= k
      BY <1>1, <1>4, <1>6, <3>1, <3>3 DEF Promise!Sorted
    <3>4. QED
      BY <1>1, <3>1, <3>2, <3>3
  <2>2. i \in Promise!Top(commands, ch) /\ k \in Promise!Top(commands, ch)
    BY <1>4, <2>1 DEF Promise!Top, Promise!For
  <2>3. QED
    BY <1>1, <1>4, <2>2 DEF Promise!Ambiguous
<1>7. /\ exit = "none" /\ exit' = "raised" /\ UNCHANGED commands
      /\ Result' = Result
  BY DEF Raise, Looping, Result
<1>8. QED
  BY <1>5, <1>6, <1>7 DEF Promise!Raise

\* When the loop is over every command has been seen, so the winners are the verdict.
LEMMA ReturnRefines == ASSUME IInv, Return PROVE Promise!Return
<1>1. /\ DOMAIN commands = 1 .. Len(commands) /\ Seen = DOMAIN commands
      /\ \A i \in DOMAIN commands : /\ commands[i].priority \in Int
                                    /\ commands[i].state \in States
                                    /\ commands[i] # Nobody
  BY ListFacts DEF IInv, TypeOK, Return, Seen
<1>2. /\ exit = "none" /\ exit' = "returned" /\ UNCHANGED commands
      /\ Result' = [ch \in Channels |-> winners[ch].state]
  BY DEF Return, Result
<1>3. \A ch \in Channels : Promise!For(commands, ch) = SeenFor(ch)
  BY <1>1 DEF Promise!For, SeenFor
<1>4. ASSUME NEW ch \in Channels, NEW i \in Promise!Top(commands, ch)
      PROVE  winners[ch].state = commands[i].state
  <2>1. i \in SeenFor(ch) /\ \A j \in SeenFor(ch) :
                                 commands[j].priority <= commands[i].priority
    BY <1>3 DEF Promise!Top
  <2>2. PICK j \in SeenFor(ch) : winners[ch] = commands[j]
    BY <2>1, LeadFacts DEF IInv
  <2>3. /\ commands[j].priority <= commands[i].priority
        /\ commands[i].priority <= commands[j].priority
        /\ commands[i].priority \in Int /\ commands[j].priority \in Int
    BY <1>1, <2>1, <2>2, LeadFacts DEF IInv, SeenFor
  <2>4. commands[i].priority = winners[ch].priority
    BY <2>2, <2>3
  <2>5. QED
    BY <2>1, <2>4, LeadFacts DEF IInv
<1>5. ~Promise!Ambiguous(commands)
  BY <1>4 DEF Promise!Ambiguous
<1>6. ASSUME NEW ch \in Channels
      PROVE  /\ winners[ch].state \in States \cup {"none"}
             /\ winners[ch].state = "none" <=> Promise!For(commands, ch) = {}
  <2>1. CASE SeenFor(ch) = {}
    BY <1>3, <2>1, LeadFacts DEF IInv, Nobody
  <2>2. CASE SeenFor(ch) # {}
    BY <1>1, <1>3, <2>2, LeadFacts DEF IInv, SeenFor, States
  <2>3. QED
    BY <2>1, <2>2
<1>7. Promise!IsVerdict(commands, Result')
  BY <1>2, <1>4, <1>6 DEF Promise!IsVerdict, Promise!States, States
<1>8. QED
  BY <1>2, <1>5, <1>7 DEF Promise!Return, Promise!IsVerdict

\* The arbiter's loop implements its promise: it returns the verdict of the commands of
\* highest priority or refuses, and in priority order refuses an ambiguous top only.
THEOREM LoopImplementsArbitration == Spec => ImplementsArbitration
<1>1. Init => Promise!Init
  BY DEF Init, Promise!Init, Promise!Nothing, Result
<1>2. IInv /\ [Next]_vars => [Promise!Next]_<<commands, exit, Result>>
  <2> SUFFICES ASSUME IInv, [Next]_vars
               PROVE  [Promise!Next]_<<commands, exit, Result>>
    OBVIOUS
  <2>1. CASE Win \/ Lose
    BY <2>1 DEF Win, Lose, Looping, Result
  <2>2. CASE Raise
    BY <2>2, RaiseRefines DEF Promise!Next
  <2>3. CASE Return
    BY <2>3, ReturnRefines DEF Promise!Next
  <2>4. CASE UNCHANGED vars
    BY <2>4 DEF vars, Result
  <2>5. QED
    BY <2>1, <2>2, <2>3, <2>4 DEF Next
<1>3. QED
  BY <1>1, <1>2, InvHolds, PTL DEF Spec, ImplementsArbitration, Promise!Spec
=============================================================================
