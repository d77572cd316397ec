CONSTANTS
    Catalogues <- SomeCatalogues
    MaxTrouble = 3
    MaxArchives = 2
SPECIFICATION Spec
CHECK_DEADLOCK FALSE
INVARIANTS Inv ArmedAsListed SoldAsListed
