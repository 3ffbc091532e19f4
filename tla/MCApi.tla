-------------------------------- MODULE MCApi --------------------------------
(***************************************************************************)
(* Api on a small instance, with two cases more:                           *)
(*   quotes     offers are ranked and priced for a request                 *)
(*   policy     the allowlist an owner builds for an agent                 *)
(* Heartbeats count in minutes.                                            *)
(***************************************************************************)
EXTENDS Api, TLC

VARIABLES rows, ask, ranked, leaves, level, index, next, proofs, descendants

Symmetry == Permutations(Names)
MCPrice == [p1 |-> 1, p2 |-> 2]
-------------------------------------------------------------------------------
(* The components *)

\* Offers that fit at several rates and reputations, and offers that differ from
\* them in one field.
Listing(rate, reputation) ==
  [rate |-> rate, reputation |-> reputation, active |-> TRUE, ends |-> 1, busy |-> FALSE,
   seen |-> TRUE, heartbeat |-> 0, gpus |-> 1, free |-> 1, vram |-> 1, model |-> "m1",
   region |-> "r1", max_seconds |-> 2]

Odd ==
  LET L == Listing(1, 2) IN
  {[L EXCEPT !.active = FALSE], [L EXCEPT !.busy = TRUE], [L EXCEPT !.seen = FALSE],
   [L EXCEPT !.free = 0], [L EXCEPT !.gpus = 0, !.free = 0], [L EXCEPT !.ends = 0],
   [L EXCEPT !.heartbeat = 3], [L EXCEPT !.heartbeat = -1], [L EXCEPT !.heartbeat = -2],
   [L EXCEPT !.vram = 0], [L EXCEPT !.model = "m2"], [L EXCEPT !.region = "r2"],
   [L EXCEPT !.max_seconds = 1]}

\* Requests that ask for nothing special, and for one thing more.
Asks ==
  LET Plain(timeout, budget) ==
        [timeout |-> timeout, budget |-> budget, gpus |-> 1, vram |-> 1, models |-> {},
         region |-> "any", start |-> 2, verification |-> 1, deadline |-> 2] IN
  UNION {{A, [A EXCEPT !.models = {"m1"}], [A EXCEPT !.region = "r1"], [A EXCEPT !.gpus = 0],
          [A EXCEPT !.start = 1], [A EXCEPT !.verification = 2], [A EXCEPT !.deadline = 1]} :
           A \in {Plain(timeout, budget) : timeout \in 1..2, budget \in {2, 4}}}

Quoting == INSTANCE Quotes WITH
  Listings <- {Listing(rate, reputation) : rate \in 1..2, reputation \in 1..2} \cup Odd,
  MaxRows <- 3, Fresh <- 3, Ahead <- 1, Estimated <- 2, Standard <- 1, Soon <- 1

Policy == INSTANCE Allowlist WITH Specs <- 1..9, MaxDepth <- 4
-------------------------------------------------------------------------------
(* The cases *)

quotes == <<rows, ask, ranked>>
owner == <<leaves, level, index, next, proofs, descendants>>

NoQuotes == rows = 0 /\ ask = 0 /\ ranked = 0
NoPolicy == leaves = 0 /\ level = 0 /\ index = 0 /\ next = 0 /\ proofs = 0 /\ descendants = 0
NoCase == NoService /\ NoClient /\ row = 0 /\ run = 0 /\ job = 0

\* Bounds: how long processes overlap; heartbeats are delayed for one worker, whose
\* clock is far from the API's, and replaced workers have the right time, one
\* request under way and a machine that no job engages.
Bounds ==
  /\ scenario = "overlap" => now' <= 3
  /\ scenario = "delayed" => worker' = "w1" /\ "w2" \in auth'
  /\ scenario = "replaced" =>
       ~busy' /\ handler'[2] = Beats!Waiting /\ \A n \in Names : net'[n].age >= 0

MCInit ==
  \/ ApiInit /\ NoQuotes /\ NoPolicy /\ (scenario = "delayed" => worker = "w1")
  \/ scenario = "quotes" /\ Quoting!Init /\ NoCase /\ NoPolicy
  \/ scenario = "policy" /\ Policy!Init /\ NoCase /\ NoQuotes

MCNext ==
  \/ ApiNext /\ Bounds /\ UNCHANGED <<quotes, owner>>
  \/ scenario = "quotes" /\ Quoting!Next /\ UNCHANGED <<all, owner>>
  \/ scenario = "policy" /\ Policy!Next /\ UNCHANGED <<all, quotes>>

MCSpec == MCInit /\ [][MCNext]_<<all, quotes, owner>>
-------------------------------------------------------------------------------
(* Properties *)

\* The two sides of the market agree on the supply. "It ranks surviving offers by
\* price then reputation" (docs/MARKET_DESIGN.md): the quotes are the rows that
\* fit, in that order and otherwise in the order of their ids. The daemon of every
\* quoted machine bids, and selectBid names, of these bids, the one of the first
\* quote (select.ts:24). The figures of GET /v1/prices split the machines that are
\* up as their names say (server.ts:484).
QuotesAgree ==
  scenario = "quotes" =>
    Quoting!QuotesRanked /\ Quoting!SelectionAgrees /\ Quoting!FiguresSplit

\* buildSpecAllowlist: at any time the proof of a leaf, as far as it goes, leads to
\* the one node under construction that the leaf is below. The finished allowlist
\* admits exactly what the owner allowed, and no proof is longer than a balanced
\* tree needs, so that 16 siblings are enough for 65,536 leaves.
AllowlistExact ==
  scenario = "policy" =>
    Policy!ProofsLead /\ Policy!ExactlyAllowed /\ Policy!DepthBounded
===============================================================================
