SPECIFICATION FairSpec
CONSTANTS
    A = A
    B = B
    center = center
    pushed = pushed
    p1 = p1
    Buttons = {A, B}
    Positions <- TwoPositions
    Center = center
    Presses = {p1}
    PressOf <- PressOneButton
    Durations <- PositiveOrNegative
    Frames <- TwoFrames
    Calls = {"hold", "release", "stick", "frame"}
    MaxCalls = 2
    TimerSize = 3
INVARIANTS
    TypeOK PressIsShown
PROPERTIES
    WireOrder LatestInputIsSent
CHECK_DEADLOCK FALSE
