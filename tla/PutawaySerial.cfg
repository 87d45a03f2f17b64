SPECIFICATION FairSpec
CONSTANTS
    l1 = l1
    l2 = l2
    p1 = p1
    p2 = p2
    c1 = c1
    c2 = c2
    c3 = c3
    c4 = c4
    a1 = a1
    a2 = a2
    NoProduct = NoProduct
    NoCode = NoCode
    NoLoc = NoLoc
    Sessions = {s1}
    Workers = {w}
    Reservations = {r1, r2}
    Locations = {l1, l2}
    Products = {p1, p2}
    Codes = {c1, c2, c3}
    ProductOf <- MCProductOf
    QtyOf <- MCQtyOf
    Unbatched = {p2}
    ArticleOf <- MCTwoArticles
    BoxesPerPallet <- MCBoxesPerPallet
    MaxPallets <- MCMaxPallets
    AllowMixed = {}
    PatchStatuses = {"blocked"}
    Storage = {l1, l2}
    Rules <- MCRules
    TooHeavy <- MCTooHeavy
    TopN = 2
    Limit = 1
INVARIANT NoOverbooking
INVARIANT FullIsOccupied
INVARIANT SuggestedIsReservable
PROPERTY HoldsAreReleased
CHECK_DEADLOCK FALSE
