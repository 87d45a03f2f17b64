SPECIFICATION Spec
CONSTANTS
    pick = pick
    reserve = reserve
    c1 = c1
    c2 = c2
    Sessions = {s1, s2}
    Locations = {pick, reserve}
    Batches = {1, 2}
    NoBatch = NoBatch
    Tasks = {1, 2}
    NoTask = NoTask
    Codes = {c1, c2}
    NoLoc = NoLoc
    OnShelf <- MCOnShelf
    Amounts = {2}
    ReturnZone = reserve
    QuarantineZone = NoLoc
    PatchStatuses = {"pending", "cancelled"}
    MaxRequests = 3
    UnitsOf <- MCUnitsOf
    QuarantineOnReceipt = FALSE
    CountLimit = 1
    PickFaces = {pick}
    Reserve = {reserve}
    Levels <- MCLevels
    Thresholds = {0}
SYMMETRY MCSymmetry
INVARIANT CacheIsLedger
INVARIANT StockIsOnShelf
INVARIANT PlacedOnce
INVARIANT ReceivedIsPlaced
INVARIANT OneAvailableBatch
CHECK_DEADLOCK FALSE
