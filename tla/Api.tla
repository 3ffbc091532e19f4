--------------------------------- MODULE Api ---------------------------------
(***************************************************************************)
(* What the API decides and what its users make of its answers, one case   *)
(* of which a behaviour is in from its start:                              *)
(*   alone      the processes of a node answer the challenge of a job, one *)
(*              at a time                                                  *)
(*   overlap    they answer it at the same time                            *)
(*   delayed    heartbeats handled in parallel                             *)
(*   replaced   heartbeats of workers that replace each other              *)
(*   benchmark  the benchmark of a machine whose GPUs are changed          *)
(*   offers     the list of offers in the web application                  *)
(*   run        the SDK's run, with a signer that waits for the indexer    *)
(*   replicas   the form for a redundant job                               *)
(* delayed and replaced are the same here and are explored apart.  A       *)
(* variable of another case keeps its first value.                         *)
(***************************************************************************)
EXTENDS OfferPages

CONSTANTS
  Names,      \* names of calls, and nonces of messages
  Ttl, Early, Grace, Skew, MaxTime,                                 \* of Challenge
  Workers, Handlers, Tolerance, NonceLife, Fresh, Lead, MaxAge,     \* of Heartbeats
  Kits, ReportTolerance,                                            \* of Benchmarks
  Bidder, Price, StartDelay, WaitLimit, BidLimit,                   \* of BuyerRun
  Job, Replicas, Limit, Answers,                                    \* of JobPage
  None

\* The node's clock is within what the API tolerates before the issuance of a
\* challenge.
ASSUME ChallengeAssumption ==
  /\ Ttl \in Nat /\ Early \in Nat /\ Grace \in Nat /\ Skew \in Nat /\ MaxTime \in Nat
  /\ Skew <= Early

\* MaxAge is large enough to tell apart the ages that count: those of messages when
\* they are sent, while they are accepted, and of the row while it is fresh.
ASSUME HeartbeatsAssumption ==
  /\ Tolerance \in Nat /\ NonceLife \in Nat /\ Fresh \in Nat /\ Lead \in Nat /\ MaxAge \in Nat
  /\ Tolerance <= MaxAge /\ Lead <= MaxAge /\ Fresh <= MaxAge + 1
  /\ "none" \notin Names \cup Workers

ASSUME ClientAssumption ==
  /\ StartDelay \in Int /\ WaitLimit \in Int /\ BidLimit \in Int
  /\ None \notin Bidder /\ Replicas \in Nat \ {0} /\ Limit \in Int

VARIABLES now, skew, row, issued, call, inTime, missed, verdict,
          worker, auth, busy, rowBusy, net, handler, used, held, idle, kept,
          live, file, machine, published, run, stored, measured,
          job, bid, listed, trouble, form, page, scenario
-------------------------------------------------------------------------------
(* The components *)

Hidden == INSTANCE Challenge WITH Call <- Names
Beats == INSTANCE Heartbeats WITH Nonces <- Names, shown <- kept
Bench == INSTANCE Benchmarks WITH Tolerance <- ReportTolerance
Buyer == INSTANCE BuyerRun WITH SignerWaits <- TRUE
Replicated == INSTANCE JobPage
-------------------------------------------------------------------------------
(* The cases *)

challenge == <<now, skew, issued, call, inTime, missed, verdict>>
heartbeat == <<worker, busy, rowBusy, net, handler, used, held, idle, kept>>
benchmark == <<live, file, machine, published, stored, measured>>
sdk == <<bid, listed, trouble>>
web == <<form, page>>

service == <<challenge, heartbeat, benchmark, auth>>
client == <<vars, sdk, web, job>>

all == <<service, client, row, run, scenario>>

NoOffers ==
  /\ offers = {} /\ shown = {} /\ cursor = 0 /\ loading = FALSE /\ stable = {}
  /\ req = [s \in Slot |-> Idle]
NoChallenge ==
  now = 0 /\ skew = 0 /\ issued = 0 /\ call = 0 /\ inTime = 0 /\ missed = 0 /\ verdict = 0
NoHeartbeat ==
  /\ worker = 0 /\ busy = 0 /\ rowBusy = 0 /\ net = 0 /\ handler = 0 /\ used = 0
  /\ held = 0 /\ idle = 0 /\ kept = 0
NoBenchmark ==
  live = 0 /\ file = 0 /\ machine = 0 /\ published = 0 /\ stored = 0 /\ measured = 0
NoBuyer == bid = 0 /\ listed = 0 /\ trouble = 0
NoPage == form = 0 /\ page = 0

NoService == NoChallenge /\ NoHeartbeat /\ NoBenchmark /\ auth = 0
NoClient == NoOffers /\ NoBuyer /\ NoPage

ApiInit ==
  \/ /\ scenario \in {"alone", "overlap"} /\ Hidden!Init
     /\ NoHeartbeat /\ NoBenchmark /\ auth = 0 /\ run = 0 /\ job = 0 /\ NoClient
  \/ /\ scenario \in {"delayed", "replaced"} /\ Beats!Init
     /\ NoChallenge /\ NoBenchmark /\ run = 0 /\ job = 0 /\ NoClient
  \/ /\ scenario = "benchmark" /\ Bench!Init
     /\ NoChallenge /\ NoHeartbeat /\ row = 0 /\ job = 0 /\ NoClient
  \/ /\ scenario = "offers" /\ Init
     /\ NoService /\ row = 0 /\ run = 0 /\ job = 0 /\ NoBuyer /\ NoPage
  \/ /\ scenario = "run" /\ Buyer!Init
     /\ NoService /\ NoOffers /\ NoPage
  \/ /\ scenario = "replicas" /\ Replicated!Init
     /\ NoService /\ run = 0 /\ NoOffers /\ NoBuyer

\* No two calls are under way at the same time.
OneCall == \A c, d \in Names : call[c] # Hidden!Quiet /\ call[d] # Hidden!Quiet => c = d

In(names) == scenario \in names /\ UNCHANGED scenario

ApiNext ==
  \/ /\ In({"alone", "overlap"}) /\ Hidden!Next /\ (scenario = "alone" => OneCall')
     /\ UNCHANGED <<heartbeat, benchmark, auth, run, client>>
  \/ /\ In({"delayed", "replaced"}) /\ Beats!Next
     /\ UNCHANGED <<challenge, benchmark, run, client>>
  \/ /\ In({"benchmark"}) /\ Bench!Next
     /\ UNCHANGED <<challenge, heartbeat, row, client>>
  \/ /\ In({"offers"}) /\ Next
     /\ UNCHANGED <<service, sdk, web, row, run, job>>
  \/ /\ In({"run"}) /\ Buyer!Next
     /\ UNCHANGED <<service, vars, web>>
  \/ /\ In({"replicas"}) /\ Replicated!FormNext
     /\ UNCHANGED <<service, vars, sdk, run>>

ApiSpec == ApiInit /\ [][ApiNext]_all
-------------------------------------------------------------------------------
(* Properties; PagesInv of OfferPages holds in every case *)

\* The verifier passes a job only on a right answer that reached the API within
\* the challenge's life and the grace after it, by the API's clock, also when the
\* challenge was replaced while the answer was being judged (server.ts:1601).
\* With one process at a time and a clock within the tolerance it fails a job
\* only on a wrong answer or a late one (challenge.ts:119).
ChallengeFair ==
  scenario \in {"alone", "overlap"} =>
    /\ Hidden!TypeOK
    /\ Hidden!PassEarned
    /\ scenario = "alone" => Hidden!FailureEarned

\* No row is taken back: a verdict is replaced only with its challenge
\* (server.ts:1602). However heartbeats are delayed, reordered and repeated, their
\* row never returns to an older report, and no message becomes the row twice,
\* also after its nonce has been forgotten (record_heartbeat).
RowsForward ==
  [][/\ scenario \in {"alone", "overlap"} => Hidden!VerdictKept
     /\ scenario \in {"delayed", "replaced"} => Beats!MovesForward]_all

\* A machine is only quoted on the word of a worker that was its own authorized
\* worker, and on a report from when it was free, less than the age limit and a
\* clock's lead ago (server.ts:1437-1458, pricing/index.ts:39-41).
QuotedWasUp == scenario \in {"delayed", "replaced"} => Beats!TypeOK /\ Beats!QuotedWasUp

\* Whatever is changed while a benchmark runs or its report is on the way, a
\* report is only stored as passed for GPUs on which a benchmark has passed
\* (benchmark.ts:47-64, server.ts:1276-1304).
StoredWasMeasured == scenario = "benchmark" => Bench!StoredWasMeasured

\* What a buyer is told is so. run throws only for a cause its caller can name: a
\* failed call or signature, an abort, a job that is over or was handled elsewhere,
\* a limit that has passed, a chosen bid that lapsed. A returned handle is for a
\* job assigned to the very bid that run chose. wait reports no job that still runs
\* or is still to be verified (sdk/index.ts:232-279, 372-382). "Redundant job funded
\* across n independent replicas" is only said when each of them has been funded
\* (exchange.tsx:929-934).
BuyerTold ==
  /\ scenario = "run" => /\ Buyer!TypeOK
                         /\ Buyer!RunFailsForCause
                         /\ Buyer!HandleMatchesChain
                         /\ Buyer!ReportIsFinal
  /\ scenario = "replicas" => Replicated!TypeOK /\ Replicated!FundedReported
===============================================================================
