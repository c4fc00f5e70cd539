SPECIFICATION Spec
CONSTANTS
    Horizon = 1
    Rules = {"door", "lamp"}
    Sources = {"door", "lamp"}
    Channels = {"relay-1", "relay-2", "relay-9"}
    Relays = {"relay-1", "relay-2"}
    Tested = {"relay-1"}
    Forms <- MCForms
    QuietForms <- MCQuiet
INVARIANTS
    TypeOK
    CommandsInPriorityOrder
    RecordTracksBoard
    BoardFollowsRules
