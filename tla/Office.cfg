SPECIFICATION Spec
CONSTANTS
    Sessions = {s1, s2}
    MaxRequests = 4
    Smartup = Smartup
    AslBelgisi = AslBelgisi
    Hosts = {h1, h2}
    NoHost = NoHost
    Policies = {roles}
    NoPolicy = NoPolicy
    Flows <- MCFlows
    DueFlows <- MCDueFlows
    Items = {i1}
    MaxDay = 2
    MaxKey = 2
    Users = {u1}
    Tokens = {1, 2, 3}
    MaxAttempts = 2
    pallet = pallet
    box1 = box1
    box2 = box2
    other = other
    Marks = {pallet, box1, box2, other}
    NoMark = NoMark
    Above <- MCAbove
    Places = {l1, l2}
    NoPlace = NoPlace
    Answers <- MCAnswers
    MaxUp = 6
    MaxDepth = 6
    juice = juice
    NoGoods = NoGoods
    GoodsRead <- MCGoodsRead
    LevelsDown = 4
    p1 = p1
    c1 = c1
    c2 = c2
    Picks = {p1}
    PlannedCodes <- MCPlannedCodes
    Viewers = {v1, v2}
    Changes = {1, 2}
    MaxQueue = 1
    Desks = {"connectors", "accounts", "codes", "scans", "screens"}
SYMMETRY MCSymmetry
INVARIANT NoMissedChanges
INVARIANT KeyIsValid
INVARIANT OneLiveToken
INVARIANT CodesAreWhereTheyLie
INVARIANT CountedAsPacked
INVARIANT DoneMeansScanned
INVARIANT ScreensFollow
PROPERTY SettingsSurvive
CHECK_DEADLOCK FALSE
