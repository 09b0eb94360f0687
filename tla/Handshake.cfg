SPECIFICATION EitherSpec
CONSTANTS
    Reports <- MixedReports
    MaxReports = 4
    Timeout = 3
    SlowSleep = 2
    PhaseTimeout = 1
INVARIANTS
    TypeOK NothingSkipped
PROPERTIES
    ConversationGoesOn
CHECK_DEADLOCK FALSE
