------------------------------- MODULE Market -------------------------------
(***************************************************************************)
(* The on-chain compute market: programs/compute-market/src/lib.rs without *)
(* its stake and agent-policy instructions.                                *)
(*                                                                         *)
(* An instruction is one action: the Solana runtime applies a transaction  *)
(* atomically or not at all, so an early return or a failed constraint is  *)
(* an action that is not enabled.  Program-derived accounts are functions  *)
(* indexed by what they are derived from; an account that does not exist   *)
(* yet holds a blank record.  A provider account is derived from its       *)
(* authority, so a provider is named by that key, which is also the payout *)
(* key of its jobs.                                                        *)
(***************************************************************************)
EXTENDS Integers, FiniteSets, Totals

CONSTANTS
    Keys,           \* public keys
    Buyers,         \* keys that create jobs
    Providers,      \* authority keys of providers
    Workers,        \* keys that providers delegate to
    Machines,       \* addresses of machine accounts
    Offers,         \* addresses of offer accounts
    Jobs,           \* addresses of job accounts
    None,           \* the zero key or hash of a blank account
    Configs,        \* settings the admin may ask for
    Orders,         \* terms a buyer may ask for
    BidTerms,       \* terms a worker may bid
    OfferTerms,     \* terms a provider may offer
    AuthSpans,      \* lifetimes of worker authorizations
    Receipts,       \* receipt commitments
    Awards,         \* awards a resolver may ask for
    Endowment,      \* tokens each buyer starts with
    DAY,            \* 86400 seconds
    GRACE,          \* 60 seconds to submit after the timeout
    MAX_DISPUTE,    \* 604800 seconds
    MAX_BUDGET,     \* 10^12 base units
    MaxTime         \* bound of the clock when no timer is running

ConfigTerms == [fee_bps: Nat, dispute_seconds: Nat, treasury: Keys, verifier: Keys, resolver: Keys]

ASSUME KeysAssumption ==
    /\ Buyers \subseteq Keys /\ Providers \subseteq Keys /\ Workers \subseteq Keys
    /\ None \notin Keys \cup Machines \cup Jobs \cup Receipts

ASSUME FiniteAssumption == IsFiniteSet(Keys) /\ IsFiniteSet(Jobs)

ASSUME InputsAssumption ==
    /\ Configs \subseteq ConfigTerms
    /\ Orders \subseteq [budget: Nat, span: Nat, timeout: Nat, policy: Nat]
    /\ BidTerms \subseteq [price: Nat, span: Nat]
    /\ OfferTerms \subseteq [rate: Nat, min_seconds: Nat, max_seconds: Nat, span: Nat]
    /\ AuthSpans \subseteq Nat /\ Awards \subseteq Nat

ASSUME BoundsAssumption ==
    {Endowment, DAY, GRACE, MAX_DISPUTE, MAX_BUDGET, MaxTime} \subseteq Nat

VARIABLES
    now,        \* Clock::get()?.unix_timestamp
    config,     \* ProtocolConfig
    provider,   \* Provider accounts
    auth,       \* WorkerAuthorization accounts, by provider and worker
    machine,    \* Machine accounts
    offer,      \* Offer accounts
    bid,        \* Bid accounts, by job and provider
    job,        \* Job accounts
    escrow,     \* balance of each job's escrow token account
    wallet      \* balance of each key's own token account

supply == <<provider, auth, machine, offer>>
vars == <<now, config, provider, auth, machine, offer, bid, job, escrow, wallet>>

States == {"ABSENT", "CREATED", "OPEN", "ASSIGNED", "RUNNING", "VERIFYING", "COMPLETED",
           "CANCELLED", "EXPIRED", "FAILED", "DISPUTED", "REFUNDED"}

BlankJob ==
    [state |-> "ABSENT", buyer |-> None, budget |-> 0, deposit |-> 0, price |-> 0,
     deadline |-> 0, timeout |-> 0, policy |-> 0, fee_bps |-> 0, dispute_seconds |-> 0,
     treasury |-> None, verifier |-> None, resolver |-> None,
     provider |-> None, machine |-> None, worker |-> None, receipt_hash |-> None,
     started_at |-> 0, submitted_at |-> 0, verified_at |-> 0,
     settled |-> FALSE, resolved |-> FALSE,
     provider_paid |-> 0, fee_paid |-> 0, refunded |-> 0]

BlankMachine ==
    [provider |-> None, worker |-> None, active |-> FALSE, busy |-> FALSE,
     active_job |-> None, completed |-> 0, failed |-> 0]

BlankOffer ==
    [machine |-> None, rate |-> 0, min_seconds |-> 0, max_seconds |-> 0,
     expires_at |-> 0, active |-> FALSE]

BlankBid == [machine |-> None, worker |-> None, price |-> 0, expires_at |-> 0, active |-> FALSE]

BlankAuth == [active |-> FALSE, expires_at |-> 0]

-----------------------------------------------------------------------------
(* The protocol configuration.                                             *)

ValidConfig(c) == c.fee_bps <= 300 /\ c.dispute_seconds \in 1..MAX_DISPUTE

Init ==
    /\ now = 0
    /\ config \in [terms: {c \in Configs : ValidConfig(c)}, paused: {FALSE}]
    /\ provider = [p \in Providers |-> [registered |-> FALSE, active |-> FALSE, completed |-> 0]]
    /\ auth = [p \in Providers |-> [w \in Workers |-> BlankAuth]]
    /\ machine = [m \in Machines |-> BlankMachine]
    /\ offer = [o \in Offers |-> BlankOffer]
    /\ bid = [j \in Jobs |-> [p \in Providers |-> BlankBid]]
    /\ job = [j \in Jobs |-> BlankJob]
    /\ escrow = [j \in Jobs |-> 0]
    /\ wallet = [k \in Keys |-> IF k \in Buyers THEN Endowment ELSE 0]

PauseProtocol(paused) ==
    /\ config' = [config EXCEPT !.paused = paused]
    /\ UNCHANGED <<now, supply, bid, job, escrow, wallet>>

UpdateProtocol(c) ==
    /\ ValidConfig(c)
    /\ config' = [config EXCEPT !.terms = c]
    /\ UNCHANGED <<now, supply, bid, job, escrow, wallet>>

-----------------------------------------------------------------------------
(* Providers, the workers they delegate to, and their machines.            *)

RegisterProvider(p) ==
    /\ ~config.paused
    /\ ~provider[p].registered
    /\ provider' = [provider EXCEPT ![p].registered = TRUE, ![p].active = TRUE]
    /\ UNCHANGED <<now, config, auth, machine, offer, bid, job, escrow, wallet>>

UpdateProvider(p, active) ==
    /\ provider[p].registered
    /\ provider' = [provider EXCEPT ![p].active = active]
    /\ UNCHANGED <<now, config, auth, machine, offer, bid, job, escrow, wallet>>

\* An authorization account is created once and never closed.
Authorized(p, w) == auth[p][w].expires_at > 0

active_worker(p, w) == auth[p][w].active /\ auth[p][w].expires_at > now

AuthorizeWorker(p, w, span) ==
    /\ provider[p].registered
    /\ ~Authorized(p, w)
    /\ span > 0
    /\ auth' = [auth EXCEPT ![p][w] = [active |-> TRUE, expires_at |-> now + span]]
    /\ UNCHANGED <<now, config, provider, machine, offer, bid, job, escrow, wallet>>

RevokeWorker(p, w) ==
    /\ Authorized(p, w)
    /\ auth' = [auth EXCEPT ![p][w].active = FALSE]
    /\ UNCHANGED <<now, config, provider, machine, offer, bid, job, escrow, wallet>>

RotateWorker(p, old, new, span) ==
    /\ Authorized(p, old)
    /\ ~Authorized(p, new)
    /\ span > 0
    /\ old # new
    /\ auth' = [auth EXCEPT ![p][old].active = FALSE,
                            ![p][new] = [active |-> TRUE, expires_at |-> now + span]]
    /\ UNCHANGED <<now, config, provider, machine, offer, bid, job, escrow, wallet>>

\* Registration asks for an authorization that is active, not for one that is unexpired.
RegisterMachine(m, p, w) ==
    /\ provider[p].registered
    /\ auth[p][w].active
    /\ machine[m].provider = None
    /\ machine' = [machine EXCEPT ![m] = [BlankMachine EXCEPT !.provider = p, !.worker = w,
                                                              !.active = TRUE]]
    /\ UNCHANGED <<now, config, provider, auth, offer, bid, job, escrow, wallet>>

\* Mutant: a busy machine may change its worker.
UpdateMachine_busy(m, w) ==
    /\ machine[m].provider # None
    /\ active_worker(machine[m].provider, w)
    /\ machine' = [machine EXCEPT ![m].worker = w]
    /\ UNCHANGED <<now, config, provider, auth, offer, bid, job, escrow, wallet>>

UpdateMachine(m, w) ==
    /\ machine[m].provider # None
    /\ ~machine[m].busy
    /\ active_worker(machine[m].provider, w)
    /\ machine' = [machine EXCEPT ![m].worker = w]
    /\ UNCHANGED <<now, config, provider, auth, offer, bid, job, escrow, wallet>>

DeactivateMachine(m) ==
    /\ machine[m].provider # None
    /\ ~machine[m].busy
    /\ machine' = [machine EXCEPT ![m].active = FALSE]
    /\ UNCHANGED <<now, config, provider, auth, offer, bid, job, escrow, wallet>>

-----------------------------------------------------------------------------
(* Offers: standing rates for a machine.  A closed account may be reopened. *)

ValidOffer(t) ==
    /\ t.rate > 0 /\ t.min_seconds > 0 /\ t.max_seconds >= t.min_seconds
    /\ t.max_seconds <= DAY /\ t.span > 0

CreateOffer(o, m, t) ==
    /\ machine[m].provider # None
    /\ offer[o].machine = None
    /\ ValidOffer(t)
    /\ offer' = [offer EXCEPT ![o] =
           [machine |-> m, rate |-> t.rate, min_seconds |-> t.min_seconds,
            max_seconds |-> t.max_seconds, expires_at |-> now + t.span, active |-> TRUE]]
    /\ UNCHANGED <<now, config, provider, auth, machine, bid, job, escrow, wallet>>

PauseOffer(o, paused) ==
    /\ offer[o].machine # None
    /\ offer' = [offer EXCEPT ![o].active = ~paused]
    /\ UNCHANGED <<now, config, provider, auth, machine, bid, job, escrow, wallet>>

UpdateOffer(o, t) ==
    /\ offer[o].machine # None
    /\ ValidOffer(t)
    /\ offer' = [offer EXCEPT ![o].rate = t.rate, ![o].min_seconds = t.min_seconds,
                              ![o].max_seconds = t.max_seconds, ![o].expires_at = now + t.span]
    /\ UNCHANGED <<now, config, provider, auth, machine, bid, job, escrow, wallet>>

CloseOffer(o) ==
    /\ offer[o].machine # None
    /\ ~machine[offer[o].machine].busy
    /\ offer' = [offer EXCEPT ![o] = BlankOffer]
    /\ UNCHANGED <<now, config, provider, auth, machine, bid, job, escrow, wallet>>

-----------------------------------------------------------------------------
(* Jobs: creation, funding, bids and assignment.                           *)

\* The order's deadline is now + span.
CreateJob(j, b, r) ==
    /\ ~config.paused
    /\ job[j].state = "ABSENT"
    /\ r.budget \in 1..MAX_BUDGET /\ r.span \in 1..DAY /\ r.timeout \in 1..DAY
    /\ r.policy <= 5
    /\ job' = [job EXCEPT ![j] =
           [BlankJob EXCEPT !.state = "CREATED", !.buyer = b, !.budget = r.budget,
                            !.deadline = now + r.span, !.timeout = r.timeout, !.policy = r.policy,
                            !.fee_bps = config.terms.fee_bps,
                            !.dispute_seconds = config.terms.dispute_seconds,
                            !.treasury = config.terms.treasury,
                            !.verifier = config.terms.verifier,
                            !.resolver = config.terms.resolver]]
    /\ UNCHANGED <<now, config, supply, bid, escrow, wallet>>

\* Mutant: the dispute window is read again when the job is funded.
FundJob_rereads(j) ==
    /\ job[j].state = "CREATED" /\ now < job[j].deadline
    /\ wallet[job[j].buyer] >= job[j].budget
    /\ wallet' = [wallet EXCEPT ![job[j].buyer] = @ - job[j].budget]
    /\ escrow' = [escrow EXCEPT ![j] = @ + job[j].budget]
    /\ job' = [job EXCEPT ![j].deposit = job[j].budget, ![j].state = "OPEN",
                          ![j].dispute_seconds = config.terms.dispute_seconds]
    /\ UNCHANGED <<now, config, supply, bid>>

FundJob(j) ==
    /\ job[j].state = "CREATED" /\ now < job[j].deadline
    /\ wallet[job[j].buyer] >= job[j].budget
    /\ wallet' = [wallet EXCEPT ![job[j].buyer] = @ - job[j].budget]
    /\ escrow' = [escrow EXCEPT ![j] = @ + job[j].budget]
    /\ job' = [job EXCEPT ![j].deposit = job[j].budget, ![j].state = "OPEN"]
    /\ UNCHANGED <<now, config, supply, bid>>

\* A worker bids once per job and provider; the bid expires at now + span.
PlaceBid(j, p, w, m, t) ==
    /\ bid[j][p].machine = None
    /\ machine[m].provider = p /\ machine[m].worker = w
    /\ job[j].state = "OPEN" /\ now < job[j].deadline
    /\ t.span > 0 /\ now + t.span <= job[j].deadline
    /\ t.price \in 1..job[j].deposit
    /\ active_worker(p, w)
    /\ machine[m].active /\ provider[p].active
    /\ bid' = [bid EXCEPT ![j][p] = [machine |-> m, worker |-> w, price |-> t.price,
                                     expires_at |-> now + t.span, active |-> TRUE]]
    /\ UNCHANGED <<now, config, supply, job, escrow, wallet>>

CancelBid(j, p) ==
    /\ bid[j][p].machine # None
    /\ active_worker(p, bid[j][p].worker)
    /\ job[j].state = "OPEN"
    /\ bid' = [bid EXCEPT ![j][p].active = FALSE]
    /\ UNCHANGED <<now, config, supply, job, escrow, wallet>>

\* Mutant: assignment does not ask whether the machine is busy.
Available_busy(m) == machine[m].active /\ provider[machine[m].provider].active

\* The capacity check both assignments make.
Available(m) == machine[m].active /\ ~machine[m].busy /\ provider[machine[m].provider].active

Assign(j, m, w, price) ==
    /\ job' = [job EXCEPT ![j].provider = machine[m].provider, ![j].machine = m,
                          ![j].worker = w, ![j].price = price, ![j].state = "ASSIGNED"]
    /\ machine' = [machine EXCEPT ![m].busy = TRUE, ![m].active_job = j]

AcceptBid(j, p) ==
    LET b == bid[j][p] IN
    /\ b.active /\ now < b.expires_at /\ b.price <= job[j].deposit
    /\ job[j].state = "OPEN" /\ now < job[j].deadline
    /\ machine[b.machine].provider = p /\ machine[b.machine].worker = b.worker
    /\ active_worker(p, b.worker)
    /\ Available(b.machine)
    /\ p # job[j].verifier
    /\ Assign(j, b.machine, b.worker, b.price)
    /\ UNCHANGED <<now, config, provider, auth, offer, bid, escrow, wallet>>

AssignOffer(j, o) ==
    LET f == offer[o]
        m == f.machine
        price == f.rate * job[j].timeout
    IN
    /\ f.active /\ now < f.expires_at
    /\ job[j].state = "OPEN" /\ now < job[j].deadline
    /\ job[j].timeout \in f.min_seconds..f.max_seconds
    /\ active_worker(machine[m].provider, machine[m].worker)
    /\ Available(m)
    /\ machine[m].provider # job[j].verifier
    /\ price \in 1..job[j].deposit
    /\ Assign(j, m, machine[m].worker, price)
    /\ UNCHANGED <<now, config, provider, auth, offer, bid, escrow, wallet>>

-----------------------------------------------------------------------------
(* Execution, verification and disputes.                                   *)

StartJob(j) ==
    /\ job[j].state = "ASSIGNED" /\ now <= job[j].deadline
    /\ active_worker(job[j].provider, job[j].worker)
    /\ job' = [job EXCEPT ![j].started_at = now, ![j].state = "RUNNING"]
    /\ UNCHANGED <<now, config, supply, bid, escrow, wallet>>

\* The last moment at which a receipt is accepted.
SubmitBy(j) == job[j].started_at + job[j].timeout + GRACE

SubmitReceipt(j, r) ==
    /\ job[j].state = "RUNNING" /\ now <= SubmitBy(j)
    /\ active_worker(job[j].provider, job[j].worker)
    /\ job' = [job EXCEPT ![j].receipt_hash = r, ![j].submitted_at = now, ![j].state = "VERIFYING"]
    /\ UNCHANGED <<now, config, supply, bid, escrow, wallet>>

\* Mutant: the verifier may be the worker or the payee.
SubmitVerification_self(j, r, passed) ==
    /\ job[j].state = "VERIFYING" /\ r = job[j].receipt_hash
    /\ job' = [job EXCEPT ![j].verified_at = now,
                          ![j].state = IF passed THEN "COMPLETED" ELSE "FAILED"]
    /\ UNCHANGED <<now, config, supply, bid, escrow, wallet>>

SubmitVerification(j, r, passed) ==
    /\ job[j].state = "VERIFYING" /\ r = job[j].receipt_hash
    /\ job[j].verifier \notin {job[j].worker, job[j].provider}
    /\ job' = [job EXCEPT ![j].verified_at = now,
                          ![j].state = IF passed THEN "COMPLETED" ELSE "FAILED"]
    /\ UNCHANGED <<now, config, supply, bid, escrow, wallet>>

CancelJob(j) ==
    /\ job[j].state \in {"CREATED", "OPEN"}
    /\ job' = [job EXCEPT ![j].state = "CANCELLED"]
    /\ UNCHANGED <<now, config, supply, bid, escrow, wallet>>

\* Mutant: verification has no time limit.
Overdue_unverified(j) ==
    \/ job[j].state \in {"CREATED", "OPEN", "ASSIGNED"} /\ now > job[j].deadline
    \/ job[j].state = "RUNNING" /\ now > SubmitBy(j)

Overdue(j) ==
    \/ job[j].state \in {"CREATED", "OPEN", "ASSIGNED"} /\ now > job[j].deadline
    \/ job[j].state = "RUNNING" /\ now > SubmitBy(j)
    \/ job[j].state = "VERIFYING" /\ now > job[j].submitted_at + DAY

ExpireJob(j) ==
    /\ Overdue(j)
    /\ job' = [job EXCEPT ![j].state = "EXPIRED"]
    /\ UNCHANGED <<now, config, supply, bid, escrow, wallet>>

DisputeEnd(j) == job[j].verified_at + job[j].dispute_seconds

\* Mutant: a dispute may be opened after the window and the settlement.
OpenDispute_late(j) ==
    /\ job[j].state = "COMPLETED"
    /\ job' = [job EXCEPT ![j].state = "DISPUTED"]
    /\ UNCHANGED <<now, config, supply, bid, escrow, wallet>>

OpenDispute(j) ==
    /\ ~job[j].settled /\ job[j].state = "COMPLETED" /\ now < DisputeEnd(j)
    /\ job' = [job EXCEPT ![j].state = "DISPUTED"]
    /\ UNCHANGED <<now, config, supply, bid, escrow, wallet>>

\* Mutant: a resolution starts a new dispute window.
ResolveDispute_redated(j, award) ==
    /\ job[j].state = "DISPUTED" /\ award <= job[j].price
    /\ job' = [job EXCEPT ![j].price = award, ![j].state = "COMPLETED",
                          ![j].verified_at = now, ![j].resolved = TRUE]
    /\ UNCHANGED <<now, config, supply, bid, escrow, wallet>>

ResolveDispute(j, award) ==
    /\ job[j].state = "DISPUTED" /\ award <= job[j].price
    /\ job' = [job EXCEPT ![j].price = award, ![j].state = "COMPLETED",
                          ![j].verified_at = now - job[j].dispute_seconds, ![j].resolved = TRUE]
    /\ UNCHANGED <<now, config, supply, bid, escrow, wallet>>

-----------------------------------------------------------------------------
(* Money leaves the escrow, and the machine is given back.                 *)

Fee(price, fee_bps) == (price * fee_bps) \div 10000

\* Provider, treasury and buyer shares of an escrow.
split(deposit, price, fee_bps) ==
    [payment |-> price - Fee(price, fee_bps), fee |-> Fee(price, fee_bps),
     refund |-> deposit - price]

\* Mutant: the rest of the deposit is not sent back to the buyer.
Credit_unreturned(j, s) ==
    [k \in Keys |-> wallet[k] + (IF k = job[j].provider THEN s.payment ELSE 0)
                              + (IF k = job[j].treasury THEN s.fee ELSE 0)]

\* Three transfers in a row: the destination accounts may belong to one key.
Credit(j, s) ==
    [k \in Keys |-> wallet[k] + (IF k = job[j].provider THEN s.payment ELSE 0)
                              + (IF k = job[j].treasury THEN s.fee ELSE 0)
                              + (IF k = job[j].buyer THEN s.refund ELSE 0)]

SettleJob(j) ==
    LET s == split(job[j].deposit, job[j].price, job[j].fee_bps) IN
    /\ ~job[j].settled /\ job[j].state = "COMPLETED" /\ now >= DisputeEnd(j)
    /\ job[j].fee_bps <= 300 /\ job[j].price <= job[j].deposit
    /\ escrow[j] >= s.payment + s.fee + s.refund
    /\ escrow' = [escrow EXCEPT ![j] = @ - (s.payment + s.fee + s.refund)]
    /\ wallet' = Credit(j, s)
    /\ job' = [job EXCEPT ![j].settled = TRUE, ![j].provider_paid = s.payment,
                          ![j].fee_paid = s.fee, ![j].refunded = s.refund]
    /\ machine' = [machine EXCEPT ![job[j].machine].busy = FALSE,
                                  ![job[j].machine].completed = @ + 1]
    /\ provider' = [provider EXCEPT ![job[j].provider].completed = @ + 1]
    /\ UNCHANGED <<now, config, auth, offer, bid>>

RefundJob(j) ==
    /\ ~job[j].settled /\ job[j].state \in {"CANCELLED", "EXPIRED", "FAILED"}
    /\ escrow[j] >= job[j].deposit
    /\ escrow' = [escrow EXCEPT ![j] = @ - job[j].deposit]
    /\ wallet' = [wallet EXCEPT ![job[j].buyer] = @ + job[j].deposit]
    /\ job' = [job EXCEPT ![j].settled = TRUE, ![j].refunded = job[j].deposit,
                          ![j].state = "REFUNDED"]
    /\ UNCHANGED <<now, config, supply, bid>>

\* Mutant: a machine is released by a job it has moved on from.
ReleaseMachine_stale(j) ==
    LET m == job[j].machine IN
    /\ job[j].settled /\ job[j].state = "REFUNDED"
    /\ m # None /\ machine[m].busy
    /\ machine' = [machine EXCEPT ![m].busy = FALSE, ![m].failed = @ + 1]
    /\ UNCHANGED <<now, config, provider, auth, offer, bid, job, escrow, wallet>>

ReleaseMachine(j) ==
    LET m == job[j].machine IN
    /\ job[j].settled /\ job[j].state = "REFUNDED"
    /\ m # None /\ machine[m].busy /\ machine[m].active_job = j
    /\ machine' = [machine EXCEPT ![m].busy = FALSE, ![m].failed = @ + 1]
    /\ UNCHANGED <<now, config, provider, auth, offer, bid, job, escrow, wallet>>

-----------------------------------------------------------------------------
(* Time.  Past MaxTime the clock only moves while a job waits for it, so a *)
(* bounded run still sees every timer of every job run out.                *)

Waiting(j) ==
    \/ job[j].state \in {"CREATED", "OPEN", "ASSIGNED"} /\ now <= job[j].deadline
    \/ job[j].state = "RUNNING" /\ now <= SubmitBy(j)
    \/ job[j].state = "VERIFYING" /\ now <= job[j].submitted_at + DAY
    \/ job[j].state = "COMPLETED" /\ now < DisputeEnd(j)

Tick ==
    /\ now < MaxTime \/ \E j \in Jobs : Waiting(j)
    /\ now' = now + 1
    /\ UNCHANGED <<config, supply, bid, job, escrow, wallet>>

AdminStep ==
    \/ \E paused \in BOOLEAN : PauseProtocol(paused)
    \/ \E c \in Configs : UpdateProtocol(c)

SupplyStep ==
    \/ \E p \in Providers :
          \/ RegisterProvider(p)
          \/ \E active \in BOOLEAN : UpdateProvider(p, active)
          \/ \E w \in Workers, span \in AuthSpans : AuthorizeWorker(p, w, span)
          \/ \E w \in Workers : RevokeWorker(p, w)
          \/ \E old, new \in Workers, span \in AuthSpans : RotateWorker(p, old, new, span)
          \/ \E m \in Machines, w \in Workers : RegisterMachine(m, p, w)
    \/ \E m \in Machines : DeactivateMachine(m) \/ \E w \in Workers : UpdateMachine(m, w)
    \/ \E o \in Offers :
          \/ \E m \in Machines, t \in OfferTerms : CreateOffer(o, m, t)
          \/ \E paused \in BOOLEAN : PauseOffer(o, paused)
          \/ \E t \in OfferTerms : UpdateOffer(o, t)
          \/ CloseOffer(o)

MatchStep(j) ==
    \/ \E b \in Buyers, r \in Orders : CreateJob(j, b, r)
    \/ FundJob(j)
    \/ \E p \in Providers, w \in Workers, m \in Machines, t \in BidTerms : PlaceBid(j, p, w, m, t)
    \/ \E p \in Providers : CancelBid(j, p) \/ AcceptBid(j, p)
    \/ \E o \in Offers : AssignOffer(j, o)

RunStep(j) ==
    \/ StartJob(j)
    \/ \E r \in Receipts : SubmitReceipt(j, r)
    \/ \E r \in Receipts, passed \in BOOLEAN : SubmitVerification(j, r, passed)
    \/ CancelJob(j)
    \/ ExpireJob(j)
    \/ OpenDispute(j)
    \/ \E award \in Awards : ResolveDispute(j, award)
    \/ SettleJob(j)
    \/ RefundJob(j)
    \/ ReleaseMachine(j)

Next ==
    \/ AdminStep
    \/ SupplyStep
    \/ \E j \in Jobs : MatchStep(j) \/ RunStep(j)
    \/ Tick

Spec == Init /\ [][Next]_vars

\* The instructions that close a job carry no signer (expire_job, settle_job, refund_job,
\* release_machine), so any interested party can send them; the resolver answers disputes.
Fairness ==
    /\ WF_vars(Tick)
    /\ \A j \in Jobs :
          /\ WF_vars(ExpireJob(j))
          /\ WF_vars(SettleJob(j))
          /\ WF_vars(RefundJob(j))
          /\ WF_vars(ReleaseMachine(j))
          /\ WF_vars(\E award \in Awards : ResolveDispute(j, award))

FairSpec == Spec /\ Fairness

-----------------------------------------------------------------------------
(* Properties.                                                             *)

ProtocolConfigs == [terms: ConfigTerms, paused: BOOLEAN]

ProviderAccounts == [registered: BOOLEAN, active: BOOLEAN, completed: Nat]

AuthAccounts == [active: BOOLEAN, expires_at: Nat]

OfferAccounts ==
    [machine: Machines \cup {None}, rate: Nat, min_seconds: Nat, max_seconds: Nat,
     expires_at: Nat, active: BOOLEAN]

BidAccounts ==
    [machine: Machines \cup {None}, worker: Workers \cup {None}, price: Nat, expires_at: Nat,
     active: BOOLEAN]

JobAccounts ==
    [state: States, buyer: Keys \cup {None}, budget: Nat, deposit: Nat, price: Nat,
     deadline: Nat, timeout: Nat, policy: Nat, fee_bps: Nat, dispute_seconds: Nat,
     treasury: Keys \cup {None}, verifier: Keys \cup {None}, resolver: Keys \cup {None},
     provider: Providers \cup {None}, machine: Machines \cup {None}, worker: Workers \cup {None},
     receipt_hash: Receipts \cup {None},
     started_at: Nat, submitted_at: Nat, verified_at: Int,
     settled: BOOLEAN, resolved: BOOLEAN,
     provider_paid: Nat, fee_paid: Nat, refunded: Nat]

MachineAccounts ==
    [provider: Providers \cup {None}, worker: Workers \cup {None}, active: BOOLEAN,
     busy: BOOLEAN, active_job: Jobs \cup {None}, completed: Nat, failed: Nat]

\* Every account of the program holds values of its declared Rust types.
TypeOK ==
    /\ now \in Nat
    /\ config \in ProtocolConfigs
    /\ provider \in [Providers -> ProviderAccounts]
    /\ auth \in [Providers -> [Workers -> AuthAccounts]]
    /\ machine \in [Machines -> MachineAccounts]
    /\ offer \in [Offers -> OfferAccounts]
    /\ bid \in [Jobs -> [Providers -> BidAccounts]]
    /\ job \in [Jobs -> JobAccounts]
    /\ escrow \in [Jobs -> Nat]
    /\ wallet \in [Keys -> Nat]

\* What an account that names another relies on: an offer or bid that can be used names a
\* registered machine, a registered machine has a worker, and only such a machine is busy.
AccountsLinked ==
    /\ \A m \in Machines :
          /\ machine[m].provider # None => machine[m].worker # None
          /\ machine[m].busy => machine[m].provider # None
    /\ \A o \in Offers : offer[o].active => offer[o].machine # None
    /\ \A o \in Offers : offer[o].machine # None => machine[offer[o].machine].provider # None
    /\ \A j \in Jobs, p \in Providers :
          bid[j][p].active => bid[j][p].machine # None /\ bid[j][p].worker # None

\* A job that has a machine and still needs it: from its assignment until its money moves.
Engaged(j) ==
    \/ job[j].state \in {"ASSIGNED", "RUNNING", "VERIFYING", "DISPUTED"}
    \/ job[j].state = "COMPLETED" /\ ~job[j].settled
    \/ job[j].state \in {"EXPIRED", "FAILED"} /\ job[j].machine # None

\* An engaged job's machine is busy and points at that very job, so no machine serves two
\* jobs.  settle_job frees job.machine without looking at active_job: this is why it frees
\* no other job's machine.
ExclusiveReservation ==
    \A j \in Jobs : Engaged(j) =>
        /\ job[j].machine \in Machines
        /\ machine[job[j].machine].busy
        /\ machine[job[j].machine].active_job = j

\* A busy machine always has a job that can still give it back: its active job is engaged
\* on it, or refunded and waiting for release_machine.  No sequence of expiry, refund,
\* settlement and release strands a machine.
NoStrandedMachine ==
    \A m \in Machines : machine[m].busy =>
        \E j \in Jobs :
            /\ machine[m].active_job = j /\ job[j].machine = m
            /\ Engaged(j) \/ job[j].state = "REFUNDED"

\* While a job is engaged its machine keeps the provider and the worker the job was
\* assigned to, and stays active: update_machine and deactivate_machine are refused.
EngagedMachineStable ==
    \A j \in Jobs : Engaged(j) =>
        /\ machine[job[j].machine].provider = job[j].provider
        /\ machine[job[j].machine].worker = job[j].worker
        /\ machine[job[j].machine].active

\* The escrow of a job holds exactly its deposit until the job is settled or refunded,
\* and nothing afterwards: no path pays out twice, and no path leaves a rest behind.
EscrowBacked ==
    \A j \in Jobs : escrow[j] = IF job[j].settled THEN 0 ELSE job[j].deposit

\* Settlement accounting of docs/PROTOCOL.md, after every settlement and every refund:
\* deposit = provider_paid + fee_paid + refunded; and a refund pays the provider nothing.
SettlementAccounting ==
    \A j \in Jobs : job[j].settled =>
        /\ job[j].deposit = job[j].provider_paid + job[j].fee_paid + job[j].refunded
        /\ job[j].state \in {"COMPLETED", "REFUNDED"}
        /\ job[j].state = "REFUNDED" => job[j].refunded = job[j].deposit

\* A provider is paid only for work that was started by the job's deadline, committed
\* within the timeout and the grace period, judged by a key that is neither the worker nor
\* the payee, and only when the dispute window the job was created with is over.
PaidWorkWasEarned ==
    \A j \in Jobs : job[j].settled /\ job[j].state = "COMPLETED" =>
        /\ job[j].started_at <= job[j].deadline
        /\ job[j].receipt_hash # None
        /\ job[j].submitted_at <= SubmitBy(j)
        /\ job[j].verifier \notin {job[j].worker, job[j].provider}
        /\ now >= DisputeEnd(j)

\* resolve_dispute back-dates verified_at: a resolved job is never disputed again, and
\* once resolved it can be settled at once.
DisputedOnce ==
    \A j \in Jobs : job[j].resolved => job[j].state = "COMPLETED" /\ now >= DisputeEnd(j)

\* How far a job has come bounds what its account holds: a machine only from the assignment
\* on, a deposit exactly from the funding on, settled only in a final state, and no payment
\* before that.
Lifecycle ==
    \A j \in Jobs :
        /\ job[j].state \in {"ABSENT", "CREATED", "OPEN", "CANCELLED"} => job[j].machine = None
        /\ job[j].state \in {"ABSENT", "CREATED"} => job[j].deposit = 0
        /\ job[j].settled => job[j].state \in {"COMPLETED", "REFUNDED"}
        /\ ~job[j].settled =>
               job[j].provider_paid = 0 /\ job[j].fee_paid = 0 /\ job[j].refunded = 0
        /\ job[j].state = "CREATED" => job[j].budget > 0
        /\ job[j].state \notin {"ABSENT", "CREATED", "CANCELLED", "EXPIRED", "REFUNDED"} =>
               job[j].deposit > 0

\* The first inductive invariant of MarketProofs: the safety invariants about machines and money
\* together with what keeps them true, which accounts name which and how far a job has come.
MarketInv ==
    /\ TypeOK /\ AccountsLinked /\ Lifecycle
    /\ ExclusiveReservation /\ NoStrandedMachine /\ EngagedMachineStable
    /\ EscrowBacked /\ SettlementAccounting

\* The one about work: what each state says about the work done so
\* far, and when a completed job can no longer be disputed.
WorkChecked ==
    \A j \in Jobs :
        /\ job[j].state \in {"RUNNING", "VERIFYING", "COMPLETED", "DISPUTED"} =>
               job[j].started_at <= job[j].deadline
        /\ job[j].state \in {"VERIFYING", "COMPLETED", "DISPUTED"} =>
               job[j].receipt_hash # None /\ job[j].submitted_at <= SubmitBy(j)
        /\ job[j].state \in {"COMPLETED", "DISPUTED"} =>
               job[j].verifier \notin {job[j].worker, job[j].provider}
        /\ job[j].settled /\ job[j].state = "COMPLETED" => now >= DisputeEnd(j)
        /\ job[j].resolved => job[j].state = "COMPLETED" /\ now >= DisputeEnd(j)

\* The terms a job was created with, its fee, its dispute window, its verifier, resolver,
\* treasury and deadlines, survive every later update_protocol; once assigned, the parties
\* never change and the price can only go down (a resolver's award).
TermsFrozen ==
    [][\A j \in Jobs : job[j].state # "ABSENT" =>
        /\ \A f \in {"buyer", "budget", "deadline", "timeout", "policy", "fee_bps",
                     "dispute_seconds", "treasury", "verifier", "resolver"} :
               job'[j][f] = job[j][f]
        /\ job[j].machine # None =>
               /\ \A f \in {"provider", "machine", "worker", "deposit"} : job'[j][f] = job[j][f]
               /\ job'[j].price <= job[j].price]_vars

\* Nothing changes a job whose money has moved.
SettledIsFinal ==
    [][\A j \in Jobs : job[j].settled => job'[j] = job[j]]_vars

\* The jobs settle_job has paid on a machine, and those it has paid to a provider.
PaidOn(m) == {j \in Jobs : job[j].machine = m /\ job[j].settled /\ job[j].state = "COMPLETED"}
PaidTo(p) == {j \in Jobs : job[j].provider = p /\ job[j].settled /\ job[j].state = "COMPLETED"}

\* The refunded jobs of a machine that release_machine has taken off it.
ReleasedFrom(m) ==
    {j \in Jobs : /\ job[j].machine = m /\ job[j].settled /\ job[j].state = "REFUNDED"
                  /\ ~(machine[m].busy /\ machine[m].active_job = j)}

\* The counters reputation is read from count every job exactly once: completed after
\* settle_job, failed after release_machine, on the machine and on its provider.
CountersAgree ==
    /\ \A m \in Machines : /\ machine[m].completed = Cardinality(PaidOn(m))
                           /\ machine[m].failed = Cardinality(ReleasedFrom(m))
    /\ \A p \in Providers : provider[p].completed = Cardinality(PaidTo(p))

\* Every token is in a wallet or in an escrow: funding, settlement and refund move tokens
\* and neither make nor lose any.
TokensConserved == Total(wallet, Keys) + Total(escrow, Jobs) = Endowment * Cardinality(Buyers)

\* The books of the program close: no token is made or lost, and the counters reputation is
\* read from count every job exactly once, however settle_job, refund_job and
\* release_machine of two jobs on one machine are ordered.
Accounted == TokensConserved /\ CountersAgree

\* What else the counters rest on: a machine that ever had a job is registered, so that
\* register_machine, which starts its counters at zero, cannot be sent for it again.
JobsOnRegistered ==
    \A j \in Jobs : job[j].machine # None => machine[job[j].machine].provider # None

\* Once a job has been created its buyer and its treasury are keys, with a token account.
PartiesKnown ==
    \A j \in Jobs : job[j].state # "ABSENT" => job[j].buyer \in Keys /\ job[j].treasury \in Keys

\* The one about the books.
AccountsInv == MarketInv /\ JobsOnRegistered /\ PartiesKnown /\ Accounted

\* Whatever the buyer, the worker and the verifier do or fail to do, the money of a funded
\* job eventually leaves the escrow.
EscrowReleased == \A j \in Jobs : job[j].deposit > 0 ~> job[j].settled

\* A reserved machine is eventually given back.
MachineReleased == \A m \in Machines : machine[m].busy ~> ~machine[m].busy

-----------------------------------------------------------------------------
(* The market implements Engagement.                                       *)

stageOf(j) ==
    IF job[j].settled
      THEN IF job[j].state = "COMPLETED" THEN "paid" ELSE "returned"
      ELSE IF job[j].deposit = 0 THEN "idle" ELSE "held"

shareOf(j) == [paid |-> job[j].provider_paid, fee |-> job[j].fee_paid, back |-> job[j].refunded]

E == INSTANCE Engagement WITH
        stage <- [j \in Jobs |-> stageOf(j)],
        held <- escrow,
        share <- [j \in Jobs |-> shareOf(j)],
        holder <- [m \in Machines |-> IF machine[m].busy THEN machine[m].active_job ELSE None]

\* Every instruction is a deposit, a hold, a payment, a return or a leave of Engagement, or
\* changes none of what Engagement sees: settle_job only ever frees the machine its own job
\* holds, refund_job returns what is held, release_machine frees what a refund left behind.
EngagementSpec == E!Spec

=============================================================================
