SPECIFICATION QuietSpec
CONSTANTS
    Horizon = 1
    Rules = {"door", "lamp"}
    Sources = {"door", "lamp"}
    Channels = {"relay-1"}
    Relays = {"relay-1"}
    Tested = {"relay-1"}
    Forms <- PriorityForms
    QuietForms <- PriorityForms
PROPERTY
    HigherPriorityHolds
