SPECIFICATION MCSpec
CONSTANTS
    Horizon = 2
    Side = 2
    Rules = {"rule-1"}
    Configs <- MCConfigs
INVARIANTS
    TypeOK
    PendingIsWitnessed
    UnannouncedHasACause
    ZoneCountsWhatWasDrawn
    RulesMeanWhatWasTyped
PROPERTIES
    DebounceHonoured
    CooldownSpacing
    Settles
