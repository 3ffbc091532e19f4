------------------------------ MODULE BuyerRun ------------------------------
(***************************************************************************)
(* ComputeClient.run and the handle's wait (packages/sdk/index.ts) with    *)
(* the API handlers they call, one job on the chain, the providers' bids   *)
(* and the projected rows the API answers from.  The job and the bids      *)
(* change on the chain at any time; a row follows when the indexer gets to *)
(* it.  Limits and deadlines are counted down by Tick: left is the time    *)
(* until then.                                                             *)
(*                                                                         *)
(* signAndSendTransaction is the integrator's: it returns when the         *)
(* transaction is confirmed or, if SignerWaits, when the indexer has it.   *)
(***************************************************************************)
EXTENDS Integers, FiniteSets

CONSTANTS
  Bidder,         \* providers that may bid
  Price,          \* the price each of them asks
  StartDelay,     \* maxStartDelaySeconds of the specification
  WaitLimit,      \* timeoutMs of waitFor
  BidLimit,       \* bidTimeoutMs
  SignerWaits,
  None

VARIABLES
  job,            \* the job's account
  bid,            \* the bids' accounts
  row,            \* state in the job's projected row, "none" before there is one
  listed,         \* the bids whose projected row is active
  run,            \* the call of run, then of wait
  trouble         \* a call failed, the buyer gave up or acted elsewhere, or the job ended

vars == <<job, bid, row, listed, run, trouble>>

Over == {"CANCELLED", "EXPIRED", "FAILED", "DISPUTED", "REFUNDED"}
Assigned == {"ASSIGNED", "RUNNING", "VERIFYING", "COMPLETED"}

Init ==
  /\ job = [state |-> "ABSENT", left |-> StartDelay, bid |-> None]
  /\ bid = [p \in Bidder |-> [state |-> "none", left |-> 0]]
  /\ row = "none" /\ listed = {}
  /\ run = [at |-> "quote", left |-> WaitLimit, bid |-> None, result |-> "none"]
  /\ trouble = FALSE
-----------------------------------------------------------------------------
(* ComputeClient.run *)

Throw == run' = [run EXCEPT !.at = "threw"]

\* POST /v1/jobs: the specification is kept, and the deadline of the transaction
\* counts from now.
createJob == [job EXCEPT !.left = StartDelay]

\* quote and createJob.
Create ==
  /\ run.at = "quote"
  /\ run' = [run EXCEPT !.at = "fund"]
  /\ job' = createJob
  /\ UNCHANGED <<bid, row, listed, trouble>>

\* create_job and fund_job in one transaction.
Fund ==
  /\ run.at = "fund"
  /\ IF job.left > 0
     THEN job' = [job EXCEPT !.state = "OPEN"] /\ run' = [run EXCEPT !.at = "funded"]
     ELSE Throw /\ UNCHANGED job
  /\ UNCHANGED <<bid, row, listed, trouble>>

\* Answers from the job's row, and 404 without one.
ownedJob == row # "none"

\* sign: the integrator's callback returns.
Funded ==
  /\ run.at = "funded" /\ (SignerWaits => ownedJob)
  /\ run' = [run EXCEPT !.at = "open?", !.left = WaitLimit]
  /\ UNCHANGED <<job, bid, row, listed, trouble>>

\* One turn of waitFor: an error of the answer is thrown; otherwise the state
\* is reached, is over, or is asked for again after a delay.
waitFor(at, states, next) ==
  /\ run.at = at
  /\ \/ run.left > 0 /\ row \in states /\ run' = next
     \/ (run.left <= 0 \/ ~ownedJob \/ row \in Over \ states) /\ Throw
  /\ UNCHANGED <<job, bid, row, listed, trouble>>

WaitOpen == waitFor("open?", {"OPEN"}, [run EXCEPT !.at = "bids", !.left = BidLimit])

\* GET /v1/jobs/:id/bids orders the active rows by price, and the first is taken.
Cheapest(p) == p \in listed /\ \A q \in listed : Price[p] <= Price[q]

Choose ==
  /\ run.at = "bids" /\ run.left > 0
  /\ \E p \in Bidder :
       Cheapest(p) /\ run' = [run EXCEPT !.at = "accept", !.bid = p, !.left = WaitLimit]
  /\ UNCHANGED <<job, bid, row, listed, trouble>>

NoBid ==
  /\ run.at = "bids" /\ run.left <= 0
  /\ Throw
  /\ UNCHANGED <<job, bid, row, listed, trouble>>

\* accept_bid.
Acceptable(p) ==
  /\ job.state = "OPEN" /\ job.left > 0
  /\ bid[p].state = "active" /\ bid[p].left > 0

\* A wrong form of Accept: the callback's answer is not waited for.
Accept_unchecked ==
  /\ run.at = "accept"
  /\ run' = [run EXCEPT !.at = "assigned?", !.left = WaitLimit]
  /\ job' = IF Acceptable(run.bid) THEN [job EXCEPT !.state = "ASSIGNED", !.bid = run.bid] ELSE job
  /\ UNCHANGED <<bid, row, listed, trouble>>

\* The handler builds the transaction from the bid's account; the callback
\* throws when it does not succeed.
Accept ==
  /\ run.at = "accept"
  /\ IF Acceptable(run.bid)
     THEN /\ job' = [job EXCEPT !.state = "ASSIGNED", !.bid = run.bid]
          /\ run' = [run EXCEPT !.at = "assigned?", !.left = WaitLimit]
     ELSE Throw /\ UNCHANGED job
  /\ UNCHANGED <<bid, row, listed, trouble>>

\* run returns the handle, and the caller calls wait.
WaitAssigned == waitFor("assigned?", Assigned, [run EXCEPT !.at = "wait", !.left = WaitLimit])

\* The handle's wait returns every state that is final for the buyer.
wait == waitFor("wait", {"COMPLETED"} \cup Over, [run EXCEPT !.at = "done", !.result = row])

\* A wrong form of Step: after the last delay the limit is not looked at.
Step_endless ==
  \/ Create \/ Fund \/ Funded \/ WaitOpen \/ Choose \/ Accept \/ WaitAssigned \/ wait

Step ==
  \/ Create \/ Fund \/ Funded \/ WaitOpen \/ Choose \/ NoBid \/ Accept \/ WaitAssigned \/ wait

\* A request fails or is refused, no supply is quoted, the signer declines or
\* loses the answer to what it sent, the caller aborts.
Fault ==
  /\ run.at \notin {"done", "threw"}
  /\ Throw /\ trouble' = TRUE
  /\ UNCHANGED <<job, bid, row, listed>>
-----------------------------------------------------------------------------
(* The chain and the indexer *)

\* place_bid: one bid per provider.
PlaceBid(p) ==
  /\ job.state = "OPEN" /\ job.left > 0 /\ bid[p].state = "none"
  /\ \E left \in 1..job.left : bid' = [bid EXCEPT ![p] = [state |-> "active", left |-> left]]
  /\ UNCHANGED <<job, row, listed, run, trouble>>

\* cancel_bid, or the machine is taken by another job.
LoseBid(p) ==
  /\ job.state = "OPEN" /\ bid[p].state = "active"
  /\ bid' = [bid EXCEPT ![p].state = "lost"]
  /\ UNCHANGED <<job, row, listed, run, trouble>>

\* start_job, submit_receipt, submit_verification, open_dispute, resolve_dispute.
Work ==
  \E s \in {<<"ASSIGNED", "RUNNING">>, <<"RUNNING", "VERIFYING">>, <<"VERIFYING", "COMPLETED">>,
            <<"VERIFYING", "FAILED">>, <<"COMPLETED", "DISPUTED">>, <<"DISPUTED", "COMPLETED">>} :
    /\ job.state = s[1]
    /\ (s[1] = "ASSIGNED" => job.left >= 0)
    /\ job' = [job EXCEPT !.state = s[2]]
    /\ trouble' = (trouble \/ s[2] \in Over)
    /\ UNCHANGED <<bid, row, listed, run>>

\* cancel_job and accept_bid signed on the web page, expire_job, refund_job.
Interfere ==
  /\ \/ job.state = "OPEN" /\ job' = [job EXCEPT !.state = "CANCELLED"]
     \/ \E p \in Bidder : Acceptable(p) /\ job' = [job EXCEPT !.state = "ASSIGNED", !.bid = p]
     \/ /\ job.state \in {"RUNNING", "VERIFYING"} \/ (job.state \in {"OPEN", "ASSIGNED"} /\ job.left < 0)
        /\ job' = [job EXCEPT !.state = "EXPIRED"]
     \/ job.state \in {"CANCELLED", "EXPIRED", "FAILED"} /\ job' = [job EXCEPT !.state = "REFUNDED"]
  /\ trouble' = TRUE
  /\ UNCHANGED <<bid, row, listed, run>>

IndexJob ==
  /\ job.state # "ABSENT" /\ row' = job.state
  /\ UNCHANGED <<job, bid, listed, run, trouble>>

IndexBid(p) ==
  /\ row # "none"     \* bids.job_id references jobs
  /\ listed' = IF bid[p].state = "active" THEN listed \cup {p} ELSE listed \ {p}
  /\ UNCHANGED <<job, bid, row, run, trouble>>

Down(n) == IF n < 0 THEN n ELSE n - 1

Tick ==
  /\ job' = [job EXCEPT !.left = Down(@)]
  /\ bid' = [p \in Bidder |-> [bid[p] EXCEPT !.left = Down(@)]]
  /\ run' = IF run.at \in {"open?", "bids", "assigned?", "wait"} THEN [run EXCEPT !.left = Down(@)] ELSE run
  /\ UNCHANGED <<row, listed, trouble>>

Next ==
  \/ Step \/ Fault \/ Work \/ Interfere \/ IndexJob \/ Tick
  \/ \E p \in Bidder : PlaceBid(p) \/ LoseBid(p) \/ IndexBid(p)

Spec == Init /\ [][Next]_vars
-----------------------------------------------------------------------------
(* Properties *)

\* The variables have the values the code gives them; a bid is chosen before it
\* is accepted, and wait ends with a state.
TypeOK ==
  /\ job.state \in {"ABSENT", "OPEN"} \cup Assigned \cup Over /\ job.bid \in Bidder \cup {None}
  /\ \A p \in Bidder : bid[p].state \in {"none", "active", "lost"}
  /\ row \in {"none", "OPEN"} \cup Assigned \cup Over /\ listed \subseteq Bidder
  /\ run.at \in {"quote", "fund", "funded", "open?", "bids", "accept", "assigned?", "wait", "done", "threw"}
  /\ run.at \in {"accept", "assigned?", "wait", "done"} => run.bid # None
  /\ run.at = "done" <=> run.result # "none"

Lapsed(p) == p # None /\ (bid[p].state = "lost" \/ bid[p].left <= 0)

\* run throws only for a cause its caller can name: a failed call or signature,
\* an abort, a job that is over or was handled elsewhere, a limit that has
\* passed, a chosen bid that lapsed (sdk/index.ts:232-279).
RunFailsForCause ==
  run.at = "threw" => trouble \/ run.left <= 0 \/ job.left <= 0 \/ Lapsed(run.bid)

\* A returned handle is for a job assigned to the very bid that run chose,
\* whatever bids came, went or were accepted elsewhere meanwhile
\* (sdk/index.ts:261-278).
HandleMatchesChain ==
  run.at \in {"wait", "done"} =>
    /\ job.bid = run.bid
    /\ job.state \in Assigned \cup {"EXPIRED", "FAILED", "DISPUTED", "REFUNDED"}

\* wait never reports a job that still runs or is still to be verified, and
\* what it reports is not taken back (sdk/index.ts:372-382).
ReportIsFinal ==
  run.at = "done" =>
    IF run.result \in {"COMPLETED", "DISPUTED"} THEN job.state \in {"COMPLETED", "DISPUTED"}
    ELSE job.state \in {run.result, "REFUNDED"}

\* run or wait has ended, with a result or an error.
Ended == run.at \in {"done", "threw"}
=============================================================================
