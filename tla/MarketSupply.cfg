CONSTANTS
    buyer = buyer  prov = prov  work = work  work2 = work2
    admin = admin  treas = treas  verif = verif
    None = None
    Keys = {buyer, prov, work, work2, admin, treas, verif}
    Buyers = {buyer}
    Providers = {prov}
    Workers = {work, work2}
    Machines = {m1}
    Offers = {o1}
    Jobs = {j1}
    Configs <- OneConfig
    Orders <- OneOrder
    BidTerms <- OneBid
    OfferTerms <- TwoOffers
    AuthSpans = {2}
    Receipts = {r1}
    Awards = {0, 100}
    Endowment = 600
    DAY = 1
    GRACE = 1
    MAX_DISPUTE = 2
    MAX_BUDGET = 300
    MaxTime = 0
SPECIFICATION Spec
INVARIANT MarketInv
