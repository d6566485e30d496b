SPECIFICATION FairSpec
CONSTANT Args <- UpToFour
INVARIANT DistinctNodes
PROPERTY Finishes
CHECK_DEADLOCK FALSE
