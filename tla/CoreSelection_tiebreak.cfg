\* Two cores: does a tie go to the lower id?
CONSTANTS
    NumCores = 2
    Usage = {0, 90}
    NoCore = NoCore
SPECIFICATION Spec
INVARIANT LowestIdTieBreak
