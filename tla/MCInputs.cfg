SPECIFICATION InputsSpec
CONSTANTS
    Lengths = {1, 232, 233, 238, 239, 240, 4051, 4052, 4053, 4054, 4055, 4072, 4073, 4074, 4080, 4081, 4082, 4083, 4094, 4095}
    Names = {3, 31, 32}
    Bytes = {0, 1, 2, 3, 17, 96}
    Sizes = {0, 5, 6, 7, 22, 23, 24, 102, 103, 262, 4096, 4097}
INVARIANTS
    FittingIsShown
    
    ForcedHasRelay
    NothingIgnored
CHECK_DEADLOCK FALSE
