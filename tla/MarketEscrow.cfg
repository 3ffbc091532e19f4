CONSTANTS
    buyer = buyer  prov = prov  work = work  work2 = work2
    admin = admin  treas = treas  verif = verif
    None = None
    Keys = {buyer, prov, work, admin, treas, verif}
    Buyers = {buyer}
    Providers = {prov}
    Workers = {work}
    Machines = {m1}
    Offers = {}
    Jobs = {j1, j2}
    Configs <- OneConfig
    Orders <- OneOrder
    BidTerms <- OneBid
    OfferTerms = {}
    AuthSpans = {3}
    Receipts = {r1}
    Awards = {0, 100}
    Endowment = 600
    DAY = 1
    GRACE = 1
    MAX_DISPUTE = 2
    MAX_BUDGET = 300
    MaxTime = 0
SYMMETRY JobSymmetry
SPECIFICATION Spec
INVARIANT MarketInv
INVARIANT Accounted
PROPERTY SettledIsFinal
PROPERTY EngagementSpec
