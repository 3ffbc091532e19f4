------------------------------- MODULE Quotes -------------------------------
(***************************************************************************)
(* Discovery: quoteSupply (packages/pricing/index.ts) over the rows that   *)
(* supply reads, the figures of GET /v1/prices (apps/api/src/server.ts)    *)
(* and selectBid (apps/scheduler/src/select.ts), which ranks bids the way  *)
(* quoteSupply ranks offers.                                               *)
(*                                                                         *)
(* Offers come in the order of their ids, and the ranking grows by one     *)
(* row at a time, as a stable sort by insertion does. The present is 0.    *)
(* publicReadOnly is off; runtimes are all "oci". A daemon's configured    *)
(* rate is taken to be the one its offer lists. Only a test calls          *)
(* selectBid.                                                              *)
(***************************************************************************)
EXTENDS Integers, FiniteSets, SequencesExt

CONSTANTS
  Listings,     \* an active offer with its machine and its last heartbeat
  Asks,         \* specification, budget and region of a request
  MaxRows,      \* rows read at most
  Fresh,        \* age from which a heartbeat no longer counts
  Ahead,        \* how far a heartbeat may be ahead of the clock
  Estimated,    \* estimatedStartSeconds of every row
  Standard,     \* code of the policy of every row
  Soon          \* the start a daemon's bid promises

VARIABLES
  rows,         \* the rows that have been read
  ask,
  ranked        \* positions in rows of the quotes, best first

vars == <<rows, ask, ranked>>

Init == rows = <<>> /\ ranked = <<>> /\ ask \in Asks
-----------------------------------------------------------------------------
\* The row supply makes of an offer: without a heartbeat it counts as never seen.
Supply(x) ==
  [rate |-> x.rate, reputation |-> x.reputation, active |-> x.active, ends |-> x.ends,
   available |-> ~x.busy /\ x.seen /\ (x.gpus = 0 \/ x.free > 0),
   heartbeat |-> IF x.seen THEN x.heartbeat ELSE Fresh,
   gpus |-> x.gpus, vram |-> x.vram, model |-> x.model, region |-> x.region,
   start |-> Estimated, verification |-> Standard,
   max_seconds |-> x.max_seconds]

\* What a row costs for the time that is asked for.
Total(r) == r.rate * ask.timeout

\* Both filters of quoteSupply.
Fits(r) ==
  /\ r.active /\ r.available /\ r.ends > 0 /\ r.heartbeat \in -Ahead..Fresh - 1
  /\ r.gpus >= ask.gpus /\ r.vram >= ask.vram
  /\ ask.models = {} \/ r.model \in ask.models
  /\ ask.region \in {"any", r.region}
  /\ r.start <= ask.start /\ ask.timeout <= r.max_seconds
  /\ r.verification >= ask.verification
  /\ Total(r) > 0 /\ Total(r) <= ask.budget

\* A wrong form of Before: reputation counts before the price.
Before_reputed(r, q) ==
  IF r.reputation = q.reputation THEN Total(r) < Total(q) ELSE r.reputation > q.reputation

\* The comparison of the sort: price, then reputation.
Before(r, q) ==
  IF Total(r) = Total(q) THEN r.reputation > q.reputation ELSE Total(r) < Total(q)

\* The next row is read and finds its place behind all that are not after it.
Read(x) ==
  LET r == Supply(x)
      i == Len(rows) + 1
      place == 1 + Cardinality({k \in DOMAIN ranked : ~Before(r, rows[ranked[k]])}) IN
  /\ Len(rows) < MaxRows
  /\ rows' = Append(rows, r)
  /\ ranked' = IF Fits(r) THEN InsertAt(ranked, place, i) ELSE ranked
  /\ UNCHANGED ask

Next == \E x \in Listings : Read(x)

Spec == Init /\ [][Next]_vars
-----------------------------------------------------------------------------
\* The bid selectBid names for a list of bids, 0 if there is none.
Choosable(b) == b.price > 0 /\ b.price <= ask.budget /\ b.ends > 0 /\ b.start <= ask.deadline

selectBid(bids) ==
  LET good == {i \in DOMAIN bids : Choosable(bids[i])}
      top == {i \in good : \A k \in good :
                 bids[i].price < bids[k].price
                 \/ (bids[i].price = bids[k].price /\ bids[i].reputation >= bids[k].reputation)} IN
  IF good = {} THEN 0 ELSE CHOOSE i \in top : \A k \in top : i <= k

\* Whether the daemon of a machine that is not busy bids for the job.
Bids(r) ==
  /\ ask.deadline > Soon
  /\ ask.gpus <= r.gpus /\ ask.vram <= r.vram
  /\ ask.models = {} \/ r.model \in ask.models
  /\ Total(r) <= ask.budget

\* Its bid: the rate for the whole time, good until just before the deadline.
BidOf(r) ==
  [price |-> Total(r), start |-> Soon, ends |-> ask.deadline - 1, reputation |-> r.reputation]

\* The machines of a model that are up, and their rates by rank from 0.
Up(m) == {i \in DOMAIN rows : rows[i].model = m /\ rows[i].available /\ rows[i].heartbeat < Fresh}

Rate(m, n) ==
  CHOOSE x \in {rows[i].rate : i \in Up(m)} :
    /\ Cardinality({i \in Up(m) : rows[i].rate < x}) <= n
    /\ n < Cardinality({i \in Up(m) : rows[i].rate <= x})

best(m) == Rate(m, 0)
median(m) == Rate(m, Cardinality(Up(m)) \div 2)
p25(m) == Rate(m, (Cardinality(Up(m)) - 1) \div 4)
p75(m) == Rate(m, (3 * (Cardinality(Up(m)) - 1)) \div 4)
-----------------------------------------------------------------------------
(* Properties *)

\* "It ranks surviving offers by price then reputation" (docs/MARKET_DESIGN.md):
\* the quotes are the rows that fit, each once; none is cheaper, or as cheap and
\* better reputed, than one before it; and rows that are equal in both keep the
\* order of their ids, so that the same market gives the same list.
QuotesRanked ==
  /\ ToSet(ranked) = {i \in DOMAIN rows : Fits(rows[i])} /\ IsInjective(ranked)
  /\ \A k \in 1..Len(ranked) - 1 :
       LET q == rows[ranked[k]]
           r == rows[ranked[k + 1]] IN
       \/ Total(q) < Total(r)
       \/ Total(q) = Total(r) /\ q.reputation > r.reputation
       \/ Total(q) = Total(r) /\ q.reputation = r.reputation /\ ranked[k] < ranked[k + 1]

\* The two sides of the market agree: unless the deadline is too near for any bid,
\* the daemon of every quoted machine bids, and selectBid names, of these bids,
\* the one of the first quote.
SelectionAgrees ==
  ask.deadline > Soon /\ ranked # <<>> =>
    /\ \A i \in ToSet(ranked) : Bids(rows[i])
    /\ selectBid([k \in DOMAIN ranked |-> BidOf(rows[ranked[k]])]) = 1

\* The figures of GET /v1/prices split the machines that are up as their names
\* say: no more than a quarter, half or three quarters of them are cheaper, and
\* more than half cost no more than the median.
FiguresSplit ==
  \A m \in {r.model : r \in ToSet(rows)} :
    LET below(x) == Cardinality({i \in Up(m) : rows[i].rate < x})
        upto(x) == Cardinality({i \in Up(m) : rows[i].rate <= x})
        n == Cardinality(Up(m)) IN
    n > 0 => /\ below(best(m)) = 0 /\ 4 * below(p25(m)) <= n /\ 2 * below(median(m)) <= n
             /\ 4 * below(p75(m)) <= 3 * n /\ 2 * upto(median(m)) > n
==============================================================================
