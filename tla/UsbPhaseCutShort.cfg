SPECIFICATION UsbSpec
CONSTANTS
    Reports <- UsbReports
    MaxReports = 3
    Timeout = 4
    SlowSleep = 2
    PhaseTimeout = 2
INVARIANTS
    CommandsAreAnswered
CHECK_DEADLOCK FALSE
