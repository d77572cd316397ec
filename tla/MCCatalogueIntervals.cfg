CONSTANTS
    Catalogues <- TwoIntervals
    MaxTrouble = 0
    MaxArchives = 0
SPECIFICATION Spec
CHECK_DEADLOCK FALSE
INVARIANTS SoldAsListed
