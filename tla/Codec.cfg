SPECIFICATION CodecSpec
CONSTANTS
    Coordinates <- AllCoordinates
    ButtonSets <- PairsAndAll
    Addresses <- EdgeAddresses
    Lengths = {0, 1, 2, 18, 29, 30, 31, 64}
    OutputLengths = {11, 12, 13, 49}
INVARIANTS
    InputReachesConsole ConsoleIsUnderstood
