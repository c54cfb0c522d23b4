SPECIFICATION FairSpec
CONSTANTS
    LastPlace = 4
    ExtStart = 1
    Limit = 3
    EndMark = EndMark
    BadMark = BadMark
    Lost = Lost
    NoLength = NoLength
    MaxWrites = 1
INVARIANTS ListedAreReal WholeChainListed ReasonIsTrue
PROPERTIES ImplementsGuardedWalk WalkEnds
CHECK_DEADLOCK FALSE
