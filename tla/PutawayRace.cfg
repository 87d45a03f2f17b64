SPECIFICATION Spec
CONSTANTS
    l1 = l1
    l2 = l2
    p1 = p1
    p2 = p2
    c1 = c1
    c2 = c2
    c3 = c3
    c4 = c4
    a1 = a1
    a2 = a2
    NoProduct = NoProduct
    NoCode = NoCode
    NoLoc = NoLoc
    Sessions = {s1, s2}
    Workers = {}
    Reservations = {r1, r2}
    Locations = {l1, l2}
    Products = {p1}
    Codes = {c1, c2}
    ProductOf <- MCSameProduct
    QtyOf <- MCQtyOf
    Unbatched = {}
    ArticleOf <- MCOneArticle
    BoxesPerPallet <- MCBoxesOfOne
    MaxPallets <- MCMaxPallets
    AllowMixed = {}
    PatchStatuses = {}
    Storage = {l1, l2}
    Rules <- MCRules
    TooHeavy <- MCTooHeavy
    TopN = 2
    Limit = 1
INVARIANT NoOverbooking
CHECK_DEADLOCK FALSE
