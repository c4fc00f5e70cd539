SPECIFICATION Spec
CONSTANTS
    Channels = {"relay-1", "relay-2"}
    Sources = {"rule-1"}
    MaxCommands = 3
    Priorities = {50, 100, 200}
    Lists <- MCLists
INVARIANTS
    TypeOK
    WinnersLead
PROPERTIES
    ImplementsArbitration
CHECK_DEADLOCK FALSE
