CONSTANTS
    buyer = buyer  prov = prov  work = work  work2 = work2
    admin = admin  treas = treas  verif = verif
    None = None
    Keys = {buyer, prov, work, admin, treas, verif}
    Buyers = {buyer}
    Providers = {prov}
    Workers = {work}
    Machines = {m1}
    Offers = {}
    Jobs = {j1}
    Configs <- TwoConfigs
    Orders <- TwoOrders
    BidTerms <- OneBid
    OfferTerms = {}
    AuthSpans = {1, 3}
    Receipts = {r1}
    Awards = {0, 100}
    Endowment = 600
    DAY = 2
    GRACE = 1
    MAX_DISPUTE = 2
    MAX_BUDGET = 300
    MaxTime = 0
SPECIFICATION FairSpec
INVARIANT PaidWorkWasEarned
INVARIANT DisputedOnce
PROPERTY TermsFrozen
PROPERTY Released
