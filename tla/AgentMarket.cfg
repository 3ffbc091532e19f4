CONSTANTS
    buyer = buyer  prov = prov  work = work  admin = admin  treas = treas  verif = verif
    agent = agent  sp1 = sp1  sp2 = sp2 j1 = j1 j2 = j2
    None = None
    Keys = {buyer, prov, work, admin, treas, verif, agent}
    Buyers = {buyer}
    Workers = {work}
    Agents = {agent}
    Offers = {}
    OfferTerms = {}
    Configs <- OneConfig
    BidTerms <- OneBid
    AuthSpans = {2}
    Receipts = {r1}
    Awards = {0, 1}
    GRACE = 1
    MAX_DISPUTE = 2
    MAX_BUDGET = 2
    Providers = {prov}
    Machines = {m1}
    Jobs = {j1, j2}
    Specs = {sp1, sp2}
    Orders <- TwoOrders
    PolicyTerms <- ThreePolicies
    Allowances = {3}
    Endowment = 3
    DAY = 2
    MaxTime = 2
SPECIFICATION MCSpec
INVARIANT DailySpendCapped
PROPERTY EngagementSpec
