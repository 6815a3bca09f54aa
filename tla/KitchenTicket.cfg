SPECIFICATION Spec
CONSTANTS
    Lines = {1, 2}
    Boards = {k1}
    NumLanes = 3
    Restaurant = TRUE
    MaxQty = 2
    TargetLanes = {0}
    MaxQuantity = 2
    MaxEvents = 3
    MaxNamed = 2
INVARIANTS TypeOK HistoryReplays IntakeExact StampedUnlessVoided
PROPERTIES AppendOnly OnlyMoveNamed
CHECK_DEADLOCK FALSE
