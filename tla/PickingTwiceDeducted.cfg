SPECIFICATION Spec
CONSTANTS
    l1 = l1
    l2 = l2
    bench = bench
    none = none
    b1 = b1
    b2 = b2
    group = group
    unit = unit
    o1 = o1
    o2 = o2
    NoBatch = NoBatch
    Sessions = {s1}
    Orders = {o1}
    Locations = {l1, l2}
    OpenLoc = none
    Batches = {NoBatch}
    Rank <- MCRank
    InitialQty <- MCInitialQty
    Lines <- MCOneLine
    Stop <- MCStop
    MoveQtys = {1, 2}
    MaxBoxes = 5
    Records = {group, unit}
    RecordOf <- MCRecordOf
    TradeUnit <- MCTradeUnit
    CodeOf <- MCCodeOf
    GtinOf <- MCGtinOf
    Base <- MCBase
    OrderLines <- MCOrderLines
    Handlers = {"ship"}
INVARIANT BoxesConserved
CHECK_DEADLOCK FALSE
