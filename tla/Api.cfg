SPECIFICATION MCSpec
CONSTANTS
  Names = {a, b}
  Ids = {1, 2, 3, 4, 5}
  Size = 2
  Slot = {1, 2}
  Patient = TRUE
  Ttl = 2
  Early = 1
  Grace = 1
  Skew = 1
  MaxTime = 6
  Workers = {"w1", "w2"}
  Handlers = {1, 2}
  Tolerance = 1
  NonceLife = 2
  Fresh = 2
  Lead = 2
  MaxAge = 2
  Kits = {"k1", "k2"}
  ReportTolerance = 1
  Bidder = {"p1", "p2"}
  Price <- MCPrice
  StartDelay = 3
  WaitLimit = 2
  BidLimit = 2
  Job = {"j1", "j2", "j3"}
  Replicas = 2
  Limit = 1
  Answers = 1
  None = "none"
SYMMETRY Symmetry
CHECK_DEADLOCK FALSE
INVARIANT ChallengeFair
INVARIANT QuotedWasUp
INVARIANT StoredWasMeasured
 
INVARIANT PagesInv
 
INVARIANT AllowlistExact
PROPERTY RowsForward
