---------------------------- MODULE MarketProofs ----------------------------
(***************************************************************************)
(* The safety of the market, with and without agents, for every value of   *)
(* the constants: types, machines and money, the work that is paid for,    *)
(* the books, the agents' daily limits, and the refinement of Engagement.  *)
(***************************************************************************)
EXTENDS AgentMarket, TLAPS

-----------------------------------------------------------------------------
(* Type correctness, and which accounts name which, one action at a time. *)

\* The fee compute_fee takes is a natural number and never more than the price.
LEMMA FeeBounded ==
    ASSUME NEW price \in Nat, NEW fee_bps \in Nat, fee_bps <= 300
    PROVE  Fee(price, fee_bps) \in Nat /\ Fee(price, fee_bps) <= price
<1>1. price * fee_bps \in Nat /\ price * fee_bps <= price * 300
  OBVIOUS
<1>2. QED
  BY <1>1 DEF Fee

\* The job states, and that they differ: cited instead of expanding States everywhere.
LEMMA StateNames ==
    /\ "ABSENT" \in States /\ "CREATED" \in States /\ "OPEN" \in States
    /\ "ASSIGNED" \in States /\ "RUNNING" \in States /\ "VERIFYING" \in States
    /\ "COMPLETED" \in States /\ "CANCELLED" \in States /\ "EXPIRED" \in States
    /\ "FAILED" \in States /\ "DISPUTED" \in States /\ "REFUNDED" \in States
BY Zenon DEF States

\* Writing only the state of a job keeps it a Job account.
LEMMA StateTyped ==
    ASSUME NEW f \in [Jobs -> JobAccounts], NEW j \in Jobs, NEW s \in States
    PROVE  [f EXCEPT ![j].state = s] \in [Jobs -> JobAccounts]
<1>1. [f[j] EXCEPT !.state = s] \in JobAccounts
  BY DEF JobAccounts
<1>2. QED
  BY <1>1, Zenon

\* The Job that create_job writes is a Job account.
LEMMA TermsTyped ==
    ASSUME NEW r \in JobAccounts, NEW fee_bps \in Nat, NEW dispute_seconds \in Nat,
           NEW treasury \in Keys, NEW verifier \in Keys, NEW resolver \in Keys
    PROVE  [r EXCEPT !.fee_bps = fee_bps, !.dispute_seconds = dispute_seconds,
                     !.treasury = treasury, !.verifier = verifier, !.resolver = resolver]
               \in JobAccounts
<1>1. [r EXCEPT !.fee_bps = fee_bps, !.dispute_seconds = dispute_seconds] \in JobAccounts
  BY ZenonT(60) DEF JobAccounts
<1>2. ASSUME NEW q \in JobAccounts
      PROVE  [q EXCEPT !.treasury = treasury, !.verifier = verifier, !.resolver = resolver]
                 \in JobAccounts
  BY ZenonT(200) DEF JobAccounts
<1>3. QED
  BY <1>1, <1>2, Zenon

\* settle_job and refund_job keep the reputation counters natural numbers.
LEMMA CountedTyped ==
    ASSUME NEW r \in MachineAccounts
    PROVE  /\ [r EXCEPT !.busy = FALSE, !.completed = @ + 1] \in MachineAccounts
           /\ [r EXCEPT !.busy = FALSE, !.failed = @ + 1] \in MachineAccounts
<1>1. r.completed + 1 \in Nat /\ r.failed + 1 \in Nat
  BY DEF MachineAccounts
<1>2. ASSUME NEW n \in Nat
      PROVE  /\ [r EXCEPT !.busy = FALSE, !.completed = n] \in MachineAccounts
             /\ [r EXCEPT !.busy = FALSE, !.failed = n] \in MachineAccounts
  BY Zenon DEF MachineAccounts
<1>3. QED
  BY <1>1, <1>2, Zenon

\* The three parts of the deposit that settle_job pays out are natural numbers.
LEMMA SplitTyped ==
    ASSUME NEW deposit \in Nat, NEW price \in Nat, NEW fee_bps \in Nat,
           fee_bps <= 300, price <= deposit
    PROVE  LET s == split(deposit, price, fee_bps) IN
           /\ s.payment \in Nat /\ s.fee \in Nat /\ s.refund \in Nat
           /\ s.payment + s.fee + s.refund = deposit
BY FeeBounded, SMTT(90) DEF split

\* accept_bid and assign_offer write well-typed Job and Machine accounts.
LEMMA AssignTyped ==
    ASSUME job \in [Jobs -> JobAccounts], machine \in [Machines -> MachineAccounts],
           NEW j \in Jobs, NEW m \in Machines, NEW w \in Workers, NEW price \in Nat,
           machine[m].provider \in Providers, Assign(j, m, w, price)
    PROVE  job' \in [Jobs -> JobAccounts] /\ machine' \in [Machines -> MachineAccounts]
<1> DEFINE p == machine[m].provider
<1>1. [job[j] EXCEPT !.provider = p, !.machine = m, !.worker = w, !.price = price,
                     !.state = "ASSIGNED"] \in JobAccounts
  <2>1. job[j] \in JobAccounts /\ p \in Providers \cup {None} /\ "ASSIGNED" \in States
    BY StateNames, Zenon
  <2> HIDE DEF p
  <2>2. QED
    BY <2>1, ZenonT(200) DEF JobAccounts
<1>2. job' = [job EXCEPT ![j] = [job[j] EXCEPT !.provider = p, !.machine = m, !.worker = w,
                                                !.price = price, !.state = "ASSIGNED"]]
  BY Zenon DEF Assign
<1>3. [machine[m] EXCEPT !.busy = TRUE, !.active_job = j] \in MachineAccounts
  BY ZenonT(60) DEF MachineAccounts
<1>4. machine' = [machine EXCEPT ![m] = [machine[m] EXCEPT !.busy = TRUE, !.active_job = j]]
  BY Zenon DEF Assign
<1>5. QED
  BY <1>1, <1>2, <1>3, <1>4, Zenon

\* Every instruction, and the clock, keeps every account well typed.
LEMMA TypeStep ==
    TypeOK /\ AccountsLinked /\ [Next]_vars => TypeOK'
<1> SUFFICES ASSUME TypeOK, AccountsLinked, [Next]_vars PROVE TypeOK'
  BY Zenon
<1>1. ASSUME NEW paused \in BOOLEAN, PauseProtocol(paused) PROVE TypeOK'
  BY <1>1, Zenon DEF TypeOK, PauseProtocol, supply, ProtocolConfigs
<1>2. ASSUME NEW c \in Configs, UpdateProtocol(c) PROVE TypeOK'
  BY <1>2, InputsAssumption, Zenon DEF TypeOK, UpdateProtocol, supply, ProtocolConfigs
<1>3. ASSUME NEW p \in Providers, RegisterProvider(p) PROVE TypeOK'
  BY <1>3, ZenonT(60) DEF TypeOK, RegisterProvider, ProviderAccounts
<1>4. ASSUME NEW p \in Providers, NEW active \in BOOLEAN, UpdateProvider(p, active) PROVE TypeOK'
  BY <1>4, Zenon DEF TypeOK, UpdateProvider, ProviderAccounts
<1>5. ASSUME NEW p \in Providers, NEW w \in Workers, NEW span \in AuthSpans, AuthorizeWorker(p, w, span) PROVE TypeOK'
  BY <1>5, InputsAssumption DEF TypeOK, AuthorizeWorker, AuthAccounts
<1>6. ASSUME NEW p \in Providers, NEW w \in Workers, RevokeWorker(p, w) PROVE TypeOK'
  <2>1. [auth[p][w] EXCEPT !.active = FALSE] \in AuthAccounts
    <3>1. auth[p][w] \in AuthAccounts
      BY Zenon DEF TypeOK
    <3>2. QED
      BY <3>1, Zenon DEF AuthAccounts
  <2>2. auth' = [auth EXCEPT ![p] = [auth[p] EXCEPT ![w] = [auth[p][w] EXCEPT !.active = FALSE]]]
    BY <1>6, Zenon DEF TypeOK, RevokeWorker
  <2>3. QED
    BY <1>6, <2>1, <2>2 DEF TypeOK, RevokeWorker
<1>7. ASSUME NEW p \in Providers, NEW old \in Workers, NEW new \in Workers, NEW span \in AuthSpans, RotateWorker(p, old, new, span) PROVE TypeOK'
  <2>1. [auth[p][old] EXCEPT !.active = FALSE] \in AuthAccounts
    <3>1. auth[p][old] \in AuthAccounts
      BY Zenon DEF TypeOK
    <3>2. QED
      BY <3>1, Zenon DEF AuthAccounts
  <2>2. [active |-> TRUE, expires_at |-> now + span] \in AuthAccounts
    BY InputsAssumption DEF TypeOK, AuthAccounts
  <2>3. auth' = [auth EXCEPT ![p] = [auth[p] EXCEPT ![old] = [auth[p][old] EXCEPT !.active = FALSE],
                                       ![new] = [active |-> TRUE, expires_at |-> now + span]]]
    BY <1>7, Zenon DEF TypeOK, RotateWorker
  <2>4. auth' \in [Providers -> [Workers -> AuthAccounts]]
    BY <2>1, <2>2, <2>3, Zenon DEF TypeOK
  <2>5. QED
    BY <1>7, <2>4, Zenon DEF TypeOK, RotateWorker
<1>8. ASSUME NEW p \in Providers, NEW m \in Machines, NEW w \in Workers, RegisterMachine(m, p, w) PROVE TypeOK'
  BY <1>8, Zenon DEF TypeOK, RegisterMachine, MachineAccounts, BlankMachine
<1>9. ASSUME NEW m \in Machines, DeactivateMachine(m) PROVE TypeOK'
  BY <1>9, ZenonT(200) DEF TypeOK, DeactivateMachine, MachineAccounts
<1>10. ASSUME NEW m \in Machines, NEW w \in Workers, UpdateMachine(m, w) PROVE TypeOK'
  BY <1>10, ZenonT(200) DEF TypeOK, UpdateMachine, MachineAccounts
<1>11. ASSUME NEW o \in Offers, NEW m \in Machines, NEW t \in OfferTerms, CreateOffer(o, m, t) PROVE TypeOK'
  BY <1>11, InputsAssumption DEF TypeOK, CreateOffer, OfferAccounts
<1>12. ASSUME NEW o \in Offers, NEW paused \in BOOLEAN, PauseOffer(o, paused) PROVE TypeOK'
  BY <1>12, ZenonT(60) DEF TypeOK, PauseOffer, OfferAccounts
<1>13. ASSUME NEW o \in Offers, NEW t \in OfferTerms, UpdateOffer(o, t) PROVE TypeOK'
  <2>1. t.rate \in Nat /\ t.min_seconds \in Nat /\ t.max_seconds \in Nat /\ now + t.span \in Nat
    BY InputsAssumption DEF TypeOK
  <2>2. offer[o] \in OfferAccounts
    BY Zenon DEF TypeOK
  <2>3. [offer[o] EXCEPT !.rate = t.rate, !.min_seconds = t.min_seconds,
                         !.max_seconds = t.max_seconds, !.expires_at = now + t.span] \in OfferAccounts
    BY <2>1, <2>2, Zenon DEF OfferAccounts
  <2>4. QED
    BY <1>13, <2>3, Zenon DEF TypeOK, UpdateOffer
<1>14. ASSUME NEW o \in Offers, CloseOffer(o) PROVE TypeOK'
  BY <1>14, Zenon DEF TypeOK, CloseOffer, BlankOffer, OfferAccounts
<1>15. ASSUME NEW j \in Jobs, NEW b \in Buyers, NEW r \in Orders, CreateJob(j, b, r) PROVE TypeOK'
  <2>1. /\ r.budget \in Nat /\ now + r.span \in Nat /\ r.timeout \in Nat /\ r.policy \in Nat
        /\ b \in Keys
    BY InputsAssumption, KeysAssumption DEF TypeOK
  <2>2. config.terms \in ConfigTerms
    BY Zenon DEF TypeOK, ProtocolConfigs
  <2>3. job'[j] \in JobAccounts
    <3>1. /\ config.terms.fee_bps \in Nat /\ config.terms.dispute_seconds \in Nat
          /\ config.terms.treasury \in Keys /\ config.terms.verifier \in Keys
          /\ config.terms.resolver \in Keys
      BY <2>2, Zenon DEF ConfigTerms
    <3>2. job'[j] = [BlankJob EXCEPT !.state = "CREATED", !.buyer = b, !.budget = r.budget,
                            !.deadline = now + r.span, !.timeout = r.timeout, !.policy = r.policy,
                            !.fee_bps = config.terms.fee_bps,
                            !.dispute_seconds = config.terms.dispute_seconds,
                            !.treasury = config.terms.treasury,
                            !.verifier = config.terms.verifier,
                            !.resolver = config.terms.resolver]
      BY <1>15, Zenon DEF TypeOK, CreateJob
    <3>3. BlankJob \in JobAccounts
      BY StateNames DEF JobAccounts, BlankJob
    <3> DEFINE J == [BlankJob EXCEPT !.state = "CREATED", !.buyer = b, !.budget = r.budget,
                            !.deadline = now + r.span, !.timeout = r.timeout, !.policy = r.policy]
    <3>4. J \in JobAccounts
      BY <2>1, <3>3, StateNames, ZenonT(60) DEF JobAccounts
    <3>5. job'[j] = [J EXCEPT !.fee_bps = config.terms.fee_bps,
                              !.dispute_seconds = config.terms.dispute_seconds,
                              !.treasury = config.terms.treasury,
                              !.verifier = config.terms.verifier,
                              !.resolver = config.terms.resolver]
      BY <3>2, Zenon
    <3> HIDE DEF J
    <3> DEFINE c == config.terms
    <3>6. /\ J \in JobAccounts /\ c.fee_bps \in Nat /\ c.dispute_seconds \in Nat
          /\ c.treasury \in Keys /\ c.verifier \in Keys /\ c.resolver \in Keys
      BY <3>1, <3>4, Zenon
    <3>7. [J EXCEPT !.fee_bps = c.fee_bps, !.dispute_seconds = c.dispute_seconds,
                    !.treasury = c.treasury, !.verifier = c.verifier,
                    !.resolver = c.resolver] \in JobAccounts
      BY <3>6, TermsTyped, Zenon
    <3>8. QED
      BY <3>5, <3>7, Zenon
  <2>4. job' \in [Jobs -> JobAccounts]
    BY <1>15, <2>3, Zenon DEF TypeOK, CreateJob
  <2>5. QED
    BY <1>15, <2>4, Zenon DEF TypeOK, CreateJob, supply
<1>16. ASSUME NEW j \in Jobs, FundJob(j) PROVE TypeOK'
  <2>1. job[j] \in JobAccounts
    BY Zenon DEF TypeOK
  <2>2. [job[j] EXCEPT !.deposit = job[j].budget, !.state = "OPEN"] \in JobAccounts
    BY <1>16, <2>1, StateNames, ZenonT(60) DEF TypeOK, JobAccounts
  <2>3. job' = [job EXCEPT ![j] = [job[j] EXCEPT !.deposit = job[j].budget, !.state = "OPEN"]]
    BY <1>16, Zenon DEF TypeOK, JobAccounts, FundJob
  <2>4. job' \in [Jobs -> JobAccounts]
    BY <2>2, <2>3, Zenon DEF TypeOK
  <2>5. escrow' \in [Jobs -> Nat] /\ wallet' \in [Keys -> Nat]
    BY <1>16, <2>1, SMTT(20) DEF TypeOK, FundJob, JobAccounts
  <2>6. QED
    BY <1>16, <2>4, <2>5, Zenon DEF TypeOK, FundJob, supply
<1>17. ASSUME NEW j \in Jobs, NEW p \in Providers, NEW w \in Workers, NEW m \in Machines, NEW t \in BidTerms, PlaceBid(j, p, w, m, t) PROVE TypeOK'
  BY <1>17, InputsAssumption DEF TypeOK, PlaceBid, supply, BidAccounts
<1>18. ASSUME NEW j \in Jobs, NEW p \in Providers, CancelBid(j, p) PROVE TypeOK'
  <2>1. [bid[j][p] EXCEPT !.active = FALSE] \in BidAccounts
    <3>1. bid[j][p] \in BidAccounts
      BY Zenon DEF TypeOK
    <3>2. QED
      BY <3>1, Zenon DEF BidAccounts
  <2>2. bid' = [bid EXCEPT ![j] = [bid[j] EXCEPT ![p] = [bid[j][p] EXCEPT !.active = FALSE]]]
    BY <1>18, Zenon DEF TypeOK, CancelBid
  <2>3. QED
    BY <1>18, <2>1, <2>2 DEF TypeOK, CancelBid, supply
<1>19. ASSUME NEW j \in Jobs, NEW p \in Providers, AcceptBid(j, p) PROVE TypeOK'
  <2> DEFINE b == bid[j][p]
  <2>1. b \in BidAccounts /\ b.active
    BY <1>19, Zenon DEF TypeOK, AcceptBid
  <2>2. b.machine \in Machines /\ b.worker \in Workers /\ b.price \in Nat
    BY <2>1, Zenon DEF BidAccounts, AccountsLinked
  <2>3. machine[b.machine].provider \in Providers
    BY <1>19, Zenon DEF AcceptBid
  <2>4. Assign(j, b.machine, b.worker, b.price)
    BY <1>19, Zenon DEF AcceptBid
  <2>5. job' \in [Jobs -> JobAccounts] /\ machine' \in [Machines -> MachineAccounts]
    BY <2>2, <2>3, <2>4, AssignTyped, Zenon DEF TypeOK
  <2>6. QED
    BY <1>19, <2>5, Zenon DEF TypeOK, AcceptBid
<1>20. ASSUME NEW j \in Jobs, NEW o \in Offers, AssignOffer(j, o) PROVE TypeOK'
  <2> DEFINE f == offer[o]
  <2>1. f \in OfferAccounts /\ f.active /\ job[j] \in JobAccounts
    BY <1>20, Zenon DEF TypeOK, AssignOffer
  <2>2. f.machine \in Machines /\ machine[f.machine].provider # None
    BY <2>1, Zenon DEF OfferAccounts, AccountsLinked
  <2>3. machine[f.machine] \in MachineAccounts
    BY <2>2, Zenon DEF TypeOK
  <2>4. machine[f.machine].provider \in Providers /\ machine[f.machine].worker \in Workers
    BY <2>2, <2>3, Zenon DEF MachineAccounts, AccountsLinked
  <2>5. f.rate * job[j].timeout \in Nat
    BY <2>1, SMTT(20) DEF OfferAccounts, JobAccounts
  <2>6. Assign(j, f.machine, machine[f.machine].worker, f.rate * job[j].timeout)
    BY <1>20, Zenon DEF AssignOffer
  <2>7. job' \in [Jobs -> JobAccounts] /\ machine' \in [Machines -> MachineAccounts]
    BY <2>2, <2>4, <2>5, <2>6, AssignTyped, Zenon DEF TypeOK
  <2>8. QED
    BY <1>20, <2>7, Zenon DEF TypeOK, AssignOffer
<1>21. ASSUME NEW j \in Jobs, StartJob(j) PROVE TypeOK'
  BY <1>21, StateNames, SMTT(60) DEF TypeOK, StartJob, supply, JobAccounts
<1>22. ASSUME NEW j \in Jobs, NEW r \in Receipts, SubmitReceipt(j, r) PROVE TypeOK'
  <2>1. job[j] \in JobAccounts
    BY Zenon DEF TypeOK
  <2>2. [job[j] EXCEPT !.receipt_hash = r, !.submitted_at = now, !.state = "VERIFYING"] \in JobAccounts
    BY <1>22, <2>1, StateNames, ZenonT(60) DEF TypeOK, JobAccounts
  <2>3. job' = [job EXCEPT ![j] = [job[j] EXCEPT !.receipt_hash = r, !.submitted_at = now, !.state = "VERIFYING"]]
    BY <1>22, Zenon DEF TypeOK, JobAccounts, SubmitReceipt
  <2>4. job' \in [Jobs -> JobAccounts]
    BY <2>2, <2>3, Zenon DEF TypeOK
  <2>5. QED
    BY <1>22, <2>4, Zenon DEF TypeOK, SubmitReceipt, supply
<1>23. ASSUME NEW j \in Jobs, NEW r \in Receipts, NEW passed \in BOOLEAN, SubmitVerification(j, r, passed) PROVE TypeOK'
  BY <1>23, StateNames, SMTT(20) DEF TypeOK, SubmitVerification, supply, JobAccounts
<1>24. ASSUME NEW j \in Jobs, CancelJob(j) PROVE TypeOK'
  <2>1. job' = [job EXCEPT ![j].state = "CANCELLED"]
    BY <1>24, Zenon DEF CancelJob
  <2>2. job' \in [Jobs -> JobAccounts]
    BY <2>1, StateTyped, StateNames, Zenon DEF TypeOK
  <2>3. QED
    BY <1>24, <2>2, Zenon DEF TypeOK, CancelJob, supply
<1>25. ASSUME NEW j \in Jobs, ExpireJob(j) PROVE TypeOK'
  <2>1. job' = [job EXCEPT ![j].state = "EXPIRED"]
    BY <1>25, Zenon DEF ExpireJob
  <2>2. job' \in [Jobs -> JobAccounts]
    BY <2>1, StateTyped, StateNames, Zenon DEF TypeOK
  <2>3. QED
    BY <1>25, <2>2, Zenon DEF TypeOK, ExpireJob, supply
<1>26. ASSUME NEW j \in Jobs, OpenDispute(j) PROVE TypeOK'
  <2>1. job' = [job EXCEPT ![j].state = "DISPUTED"]
    BY <1>26, Zenon DEF OpenDispute
  <2>2. job' \in [Jobs -> JobAccounts]
    BY <2>1, StateTyped, StateNames, Zenon DEF TypeOK
  <2>3. QED
    BY <1>26, <2>2, Zenon DEF TypeOK, OpenDispute, supply
<1>27. ASSUME NEW j \in Jobs, NEW award \in Awards, ResolveDispute(j, award) PROVE TypeOK'
  <2> DEFINE end == now - job[j].dispute_seconds
             judged == [job[j] EXCEPT !.price = award, !.state = "COMPLETED", !.verified_at = end,
                                      !.resolved = TRUE]
  <2>1. job[j] \in JobAccounts /\ job[j].dispute_seconds \in Nat /\ now \in Nat
    BY Zenon DEF TypeOK, JobAccounts
  <2>2. end \in Int
    BY <2>1
  <2>3. award \in Nat /\ "COMPLETED" \in States
    BY InputsAssumption, StateNames, Zenon
  <2>4. job' = [job EXCEPT ![j] = judged]
    BY <1>27, ZenonT(60) DEF TypeOK, JobAccounts, ResolveDispute
  <2> HIDE DEF end
  <2>5. judged \in JobAccounts
    BY <2>1, <2>2, <2>3, ZenonT(60) DEF JobAccounts
  <2> HIDE DEF judged
  <2>6. job' \in [Jobs -> JobAccounts]
    BY <2>4, <2>5, Zenon DEF TypeOK
  <2>7. QED
    BY <1>27, <2>6, Zenon DEF TypeOK, ResolveDispute, supply
<1>28. ASSUME NEW j \in Jobs, SettleJob(j) PROVE TypeOK'
  <2> DEFINE s == split(job[j].deposit, job[j].price, job[j].fee_bps)
  <2>1. job[j] \in JobAccounts
    BY Zenon DEF TypeOK
  <2>2. s.payment \in Nat /\ s.fee \in Nat /\ s.refund \in Nat
    BY <1>28, <2>1, SplitTyped, Zenon DEF SettleJob, JobAccounts
  <2> HIDE DEF s
  <2>3. [job[j] EXCEPT !.settled = TRUE, !.provider_paid = s.payment,
                       !.fee_paid = s.fee, !.refunded = s.refund] \in JobAccounts
    BY <2>1, <2>2, ZenonT(60) DEF JobAccounts
  <2>4. job' \in [Jobs -> JobAccounts]
    BY <1>28, <2>3, ZenonT(60) DEF TypeOK, SettleJob, s
  <2>5. wallet' \in [Keys -> Nat]
    <3>1. wallet' = Credit(j, s)
      BY <1>28, Zenon DEF SettleJob, s
    <3>2. QED
      BY <2>2, <3>1 DEF TypeOK, Credit
  <2>6. escrow' \in [Jobs -> Nat]
    <3>1. escrow' = [escrow EXCEPT ![j] = @ - (s.payment + s.fee + s.refund)]
          /\ escrow[j] >= s.payment + s.fee + s.refund
      BY <1>28, Zenon DEF SettleJob, s
    <3>2. escrow[j] - (s.payment + s.fee + s.refund) \in Nat
      BY <2>2, <3>1 DEF TypeOK
    <3>3. QED
      BY <3>1, <3>2, Zenon DEF TypeOK
  <2>7. machine' \in [Machines -> MachineAccounts]
    <3> DEFINE m == job[j].machine
    <3>1. machine' = [machine EXCEPT ![m].busy = FALSE, ![m].completed = @ + 1]
      BY <1>28, Zenon DEF SettleJob
    <3> HIDE DEF m
    <3>2. ASSUME m \in Machines
          PROVE  [machine[m] EXCEPT !.busy = FALSE, !.completed = @ + 1] \in MachineAccounts
      <4>1. machine[m] \in MachineAccounts
        BY <3>2, Zenon DEF TypeOK
      <4>2. QED
        BY <4>1, CountedTyped, Zenon
    <3>3. QED
      BY <3>1, <3>2, Zenon DEF TypeOK
  <2>8. provider' \in [Providers -> ProviderAccounts]
    <3> DEFINE p == job[j].provider
    <3>1. provider' = [provider EXCEPT ![p].completed = @ + 1]
      BY <1>28, Zenon DEF SettleJob
    <3> HIDE DEF p
    <3>2. ASSUME p \in Providers
          PROVE  [provider[p] EXCEPT !.completed = @ + 1] \in ProviderAccounts
      <4>1. provider[p] \in ProviderAccounts
        BY <3>2, Zenon DEF TypeOK
      <4>2. QED
        BY <4>1 DEF ProviderAccounts
    <3>3. QED
      BY <3>1, <3>2, Zenon DEF TypeOK
  <2>9. QED
    BY <1>28, <2>4, <2>5, <2>6, <2>7, <2>8, Zenon DEF TypeOK, SettleJob
<1>29. ASSUME NEW j \in Jobs, RefundJob(j) PROVE TypeOK'
  <2>1. job[j] \in JobAccounts /\ job[j].deposit \in Nat
    BY Zenon DEF TypeOK, JobAccounts
  <2>2. [job[j] EXCEPT !.settled = TRUE, !.refunded = job[j].deposit, !.state = "REFUNDED"]
            \in JobAccounts
    BY <2>1, StateNames, ZenonT(200) DEF JobAccounts
  <2>3. job' = [job EXCEPT ![j] = [job[j] EXCEPT !.settled = TRUE, !.refunded = job[j].deposit,
                                                  !.state = "REFUNDED"]]
    BY <1>29, Zenon DEF RefundJob, TypeOK
  <2>4. job' \in [Jobs -> JobAccounts]
    BY <2>2, <2>3, Zenon DEF TypeOK
  <2>5. escrow' \in [Jobs -> Nat] /\ wallet' \in [Keys -> Nat]
    <3> DEFINE amount == job[j].deposit
               buyer == job[j].buyer
    <3>1. /\ escrow[j] >= amount
          /\ escrow' = [escrow EXCEPT ![j] = @ - amount]
          /\ wallet' = [wallet EXCEPT ![buyer] = @ + amount]
      BY <1>29, Zenon DEF RefundJob
    <3>2. amount \in Nat
      BY <2>1, Zenon
    <3> HIDE DEF amount, buyer
    <3>3. escrow[j] - amount \in Nat /\ (buyer \in Keys => wallet[buyer] + amount \in Nat)
      BY <3>1, <3>2, SMTT(20) DEF TypeOK
    <3>4. escrow' \in [Jobs -> Nat]
      BY <3>1, <3>3, Zenon DEF TypeOK
    <3>5. wallet' \in [Keys -> Nat]
      BY <3>1, <3>3, Zenon DEF TypeOK
    <3>6. QED
      BY <3>4, <3>5, Zenon
  <2>6. QED
    BY <1>29, <2>4, <2>5, Zenon DEF RefundJob, TypeOK, supply
<1>30. ASSUME NEW j \in Jobs, ReleaseMachine(j) PROVE TypeOK'
  <2>1. machine' \in [Machines -> MachineAccounts]
    <3> DEFINE m == job[j].machine
    <3>1. machine' = [machine EXCEPT ![m].busy = FALSE, ![m].failed = @ + 1]
      BY <1>30, Zenon DEF ReleaseMachine
    <3> HIDE DEF m
    <3>2. ASSUME m \in Machines
          PROVE  [machine[m] EXCEPT !.busy = FALSE, !.failed = @ + 1] \in MachineAccounts
      <4>1. machine[m] \in MachineAccounts
        BY <3>2, Zenon DEF TypeOK
      <4>2. QED
        BY <4>1, CountedTyped, Zenon
    <3>3. QED
      BY <3>1, <3>2, Zenon DEF TypeOK
  <2>2. QED
    BY <1>30, <2>1, Zenon DEF TypeOK, ReleaseMachine
<1>31. CASE Tick
  BY <1>31, SMTT(20) DEF TypeOK, Tick, supply
<1>32. CASE UNCHANGED vars
  BY <1>32, Zenon DEF TypeOK, vars
<1>33. QED
  BY <1>1, <1>2, <1>3, <1>4, <1>5, <1>6, <1>7, <1>8, <1>9, <1>10, <1>11, <1>12, <1>13, <1>14, <1>15, <1>16, <1>17, <1>18, <1>19, <1>20, <1>21, <1>22, <1>23, <1>24, <1>25, <1>26, <1>27, <1>28, <1>29, <1>30, <1>31, <1>32, Zenon DEF Next, AdminStep, SupplyStep, MatchStep, RunStep

\* A step that changes neither what the accounts name nor which machines are busy keeps
\* AccountsLinked.
LEMMA LinkedFrame ==
    ASSUME TypeOK, AccountsLinked, UNCHANGED <<offer, bid>>,
           \A x \in Machines : /\ machine'[x].provider = machine[x].provider
                               /\ machine'[x].worker = machine[x].worker
                               /\ machine'[x].busy => machine[x].busy \/ machine[x].provider # None
    PROVE  AccountsLinked'
<1>1. \A x \in Machines : /\ machine'[x].provider # None => machine'[x].worker # None
                          /\ machine'[x].busy => machine'[x].provider # None
  BY Zenon DEF AccountsLinked
<1>2. \A o \in Offers : offer[o].machine # None => offer[o].machine \in Machines
  BY Zenon DEF TypeOK, OfferAccounts
<1>3. \A o \in Offers : offer'[o].machine # None => machine'[offer'[o].machine].provider # None
  BY <1>2, Zenon DEF AccountsLinked
<1>4. QED
  BY <1>1, <1>3, Zenon DEF AccountsLinked

\* Every instruction leaves accounts that name only accounts which exist.
LEMMA LinkedStep ==
    TypeOK /\ AccountsLinked /\ [Next]_vars => AccountsLinked'
<1> SUFFICES ASSUME TypeOK, AccountsLinked, [Next]_vars PROVE AccountsLinked'
  BY Zenon
<1>1. CASE UNCHANGED <<machine, offer, bid>>
  BY <1>1, Zenon DEF AccountsLinked
<1>2. ASSUME NEW p \in Providers, NEW m \in Machines, NEW w \in Workers, RegisterMachine(m, p, w)
      PROVE  AccountsLinked'
  BY <1>2, KeysAssumption, SMTT(20) DEF AccountsLinked, TypeOK, RegisterMachine, BlankMachine
<1>3. ASSUME NEW m \in Machines, DeactivateMachine(m) PROVE AccountsLinked'
  BY <1>3, SMTT(20) DEF AccountsLinked, TypeOK, DeactivateMachine, MachineAccounts
<1>4. ASSUME NEW m \in Machines, NEW w \in Workers, UpdateMachine(m, w) PROVE AccountsLinked'
  BY <1>4, KeysAssumption DEF AccountsLinked, TypeOK, UpdateMachine, MachineAccounts
<1>5. ASSUME NEW o \in Offers, NEW m \in Machines, NEW t \in OfferTerms, CreateOffer(o, m, t)
      PROVE  AccountsLinked'
  BY <1>5, KeysAssumption, Zenon DEF AccountsLinked, TypeOK, CreateOffer
<1>6. ASSUME NEW o \in Offers, NEW paused \in BOOLEAN, PauseOffer(o, paused) PROVE AccountsLinked'
  BY <1>6, ZenonT(60) DEF AccountsLinked, TypeOK, PauseOffer, OfferAccounts
<1>7. ASSUME NEW o \in Offers, NEW t \in OfferTerms, UpdateOffer(o, t) PROVE AccountsLinked'
  <2>1. UNCHANGED <<machine, bid>>
    BY <1>7, Zenon DEF UpdateOffer
  <2>2. \A x \in Offers : offer'[x].machine = offer[x].machine /\ offer'[x].active = offer[x].active
    BY <1>7, ZenonT(60) DEF TypeOK, UpdateOffer, OfferAccounts
  <2>3. QED
    BY <2>1, <2>2, ZenonT(60) DEF AccountsLinked
<1>8. ASSUME NEW o \in Offers, CloseOffer(o) PROVE AccountsLinked'
  BY <1>8, Zenon DEF AccountsLinked, TypeOK, CloseOffer, BlankOffer
<1>9. ASSUME NEW j \in Jobs, NEW p \in Providers, NEW w \in Workers, NEW m \in Machines,
             NEW t \in BidTerms, PlaceBid(j, p, w, m, t)
      PROVE  AccountsLinked'
  BY <1>9, KeysAssumption, ZenonT(60) DEF AccountsLinked, TypeOK, PlaceBid, supply
<1>10. ASSUME NEW j \in Jobs, NEW p \in Providers, CancelBid(j, p) PROVE AccountsLinked'
  <2>1. bid' = [bid EXCEPT ![j][p].active = FALSE] /\ UNCHANGED <<machine, offer>>
    BY <1>10, Zenon DEF CancelBid, supply
  <2>2. \A k \in Jobs, q \in Providers : /\ bid'[k][q].active => bid[k][q].active
                                         /\ bid'[k][q].machine = bid[k][q].machine
                                         /\ bid'[k][q].worker = bid[k][q].worker
    <3> TAKE k \in Jobs, q \in Providers
    <3> DEFINE b == bid[k][q]
               off == [b EXCEPT !.active = FALSE]
    <3>1. b \in BidAccounts
      BY Zenon DEF TypeOK
    <3>2. bid'[k][q] = b \/ bid'[k][q] = off
      BY <2>1, Zenon DEF TypeOK
    <3> HIDE DEF b
    <3>3. ~off.active /\ off.machine = b.machine /\ off.worker = b.worker
      BY <3>1, Zenon DEF BidAccounts
    <3> HIDE DEF off
    <3>4. QED
      BY <3>2, <3>3, Zenon DEF b
  <2>3. \A k \in Jobs, q \in Providers :
           bid'[k][q].active => bid'[k][q].machine # None /\ bid'[k][q].worker # None
    <3> TAKE k \in Jobs, q \in Providers
    <3>1. bid[k][q].active => bid[k][q].machine # None /\ bid[k][q].worker # None
      BY Zenon DEF AccountsLinked
    <3>2. /\ bid'[k][q].active => bid[k][q].active
          /\ bid'[k][q].machine = bid[k][q].machine /\ bid'[k][q].worker = bid[k][q].worker
      BY <2>2, Zenon
    <3>3. QED
      BY <3>1, <3>2, Zenon
  <2>4. QED
    BY <2>1, <2>3, Zenon DEF AccountsLinked
<1>11. ASSUME NEW j \in Jobs, NEW m, NEW w, NEW price, Assign(j, m, w, price),
              m \in Machines => machine[m].provider # None, UNCHANGED <<offer, bid>>
       PROVE  AccountsLinked'
  <2>1. \A x \in Machines : /\ machine'[x].provider = machine[x].provider
                            /\ machine'[x].worker = machine[x].worker
                            /\ machine'[x].busy => machine[x].busy \/ machine[x].provider # None
    BY <1>11, ZenonT(60) DEF TypeOK, Assign, MachineAccounts
  <2>2. QED
    BY <1>11, <2>1, LinkedFrame, Zenon
<1>12. ASSUME NEW j \in Jobs, SettleJob(j) PROVE AccountsLinked'
  <2> DEFINE m == job[j].machine
  <2>0. /\ machine' = [machine EXCEPT ![m].busy = FALSE, ![m].completed = @ + 1]
        /\ machine \in [Machines -> MachineAccounts]
    BY <1>12, Zenon DEF SettleJob, TypeOK
  <2> HIDE DEF m
  <2>1. \A x \in Machines : /\ machine'[x].provider = machine[x].provider
                            /\ machine'[x].worker = machine[x].worker
                            /\ machine'[x].busy => machine[x].busy \/ machine[x].provider # None
    BY <2>0, ZenonT(60) DEF MachineAccounts
  <2>2. UNCHANGED <<offer, bid>>
    BY <1>12, Zenon DEF SettleJob
  <2>3. QED
    BY <2>1, <2>2, LinkedFrame, Zenon
<1>13. ASSUME NEW j \in Jobs, ReleaseMachine(j) PROVE AccountsLinked'
  <2>1. \A x \in Machines : /\ machine'[x].provider = machine[x].provider
                            /\ machine'[x].worker = machine[x].worker
                            /\ machine'[x].busy => machine[x].busy \/ machine[x].provider # None
    BY <1>13 DEF TypeOK, ReleaseMachine, MachineAccounts
  <2>2. UNCHANGED <<offer, bid>>
    BY <1>13, Zenon DEF ReleaseMachine
  <2>3. QED
    BY <2>1, <2>2, LinkedFrame, Zenon
<1>14. CASE AdminStep \/ Tick \/ UNCHANGED vars
  BY <1>1, <1>14, Zenon DEF AdminStep, PauseProtocol, UpdateProtocol, Tick, vars, supply
<1>15. CASE SupplyStep
  <2>1. ASSUME NEW p \in Providers,
               \/ RegisterProvider(p) \/ \E active \in BOOLEAN : UpdateProvider(p, active)
               \/ \E w \in Workers, span \in AuthSpans : AuthorizeWorker(p, w, span)
               \/ \E w \in Workers : RevokeWorker(p, w)
               \/ \E old, new \in Workers, span \in AuthSpans : RotateWorker(p, old, new, span)
        PROVE  AccountsLinked'
    BY <1>1, <2>1, ZenonT(60)
    DEF RegisterProvider, UpdateProvider, AuthorizeWorker, RevokeWorker, RotateWorker
  <2>2. QED
    BY <1>2, <1>3, <1>4, <1>5, <1>6, <1>7, <1>8, <1>15, <2>1, ZenonT(60) DEF SupplyStep
<1>16. ASSUME NEW j \in Jobs, MatchStep(j) PROVE AccountsLinked'
  <2>1. ASSUME NEW p \in Providers, AcceptBid(j, p) PROVE AccountsLinked'
    BY <1>11, <2>1, KeysAssumption, Zenon DEF AcceptBid
  <2>2. ASSUME NEW o \in Offers, AssignOffer(j, o) PROVE AccountsLinked'
    BY <1>11, <2>2, Zenon DEF AssignOffer, AccountsLinked
  <2>3. QED
    BY <1>1, <1>9, <1>10, <1>16, <2>1, <2>2, ZenonT(60) DEF MatchStep, CreateJob, FundJob, supply
<1>17. ASSUME NEW j \in Jobs, RunStep(j) PROVE AccountsLinked'
  BY <1>1, <1>12, <1>13, <1>17, Zenon
     DEF RunStep, StartJob, SubmitReceipt, SubmitVerification, CancelJob, ExpireJob,
         OpenDispute, ResolveDispute, RefundJob, supply
<1>18. QED
  BY <1>14, <1>15, <1>16, <1>17, Zenon DEF Next

-----------------------------------------------------------------------------
(* The machines and the money, and the refinement of Engagement. The thirty instructions
   change jobs, machines and escrows in ten ways, the effects below. EffectOfStep reduces
   every step of Market to one of them; what follows is about effects only. *)

OthersSame(j) == \A k \in Jobs \ {j} : job'[k] = job[k]

OtherMachinesSame(m) == \A x \in Machines \ {m} : machine'[x] = machine[x]

SameMoney(j) ==
    /\ job'[j].settled = job[j].settled
    /\ job'[j].provider_paid = job[j].provider_paid
    /\ job'[j].fee_paid = job[j].fee_paid
    /\ job'[j].refunded = job[j].refunded

Still == UNCHANGED <<job, machine, escrow>>

\* A machine that is not busy is registered, updated or deactivated.
Idles(m) ==
    /\ ~machine[m].busy /\ ~machine'[m].busy
    /\ OtherMachinesSame(m)
    /\ UNCHANGED <<job, escrow>>

Creates(j) ==
    /\ job[j].state = "ABSENT"
    /\ job'[j].state = "CREATED" /\ job'[j].machine = None
    /\ job'[j].budget > 0 /\ job'[j].deposit = 0
    /\ ~job'[j].settled
    /\ job'[j].provider_paid = 0 /\ job'[j].fee_paid = 0 /\ job'[j].refunded = 0
    /\ OthersSame(j)
    /\ UNCHANGED <<machine, escrow>>

Funds(j) ==
    /\ job[j].state = "CREATED"
    /\ job'[j].state = "OPEN" /\ job'[j].machine = job[j].machine
    /\ job'[j].deposit = job[j].budget
    /\ SameMoney(j) /\ OthersSame(j)
    /\ escrow' = [escrow EXCEPT ![j] = @ + job[j].budget]
    /\ UNCHANGED machine

\* A job is created with its deposit, as create_agent_job of AgentMarket does.
Opens(j) ==
    /\ job[j].state = "ABSENT"
    /\ job'[j].state = "OPEN" /\ job'[j].machine = None
    /\ job'[j].deposit \in Nat \ {0}
    /\ ~job'[j].settled
    /\ job'[j].provider_paid = 0 /\ job'[j].fee_paid = 0 /\ job'[j].refunded = 0
    /\ OthersSame(j)
    /\ escrow' = [escrow EXCEPT ![j] = @ + job'[j].deposit]
    /\ UNCHANGED machine

Assigns(j, m) ==
    /\ job[j].state = "OPEN"
    /\ ~machine[m].busy /\ machine[m].active
    /\ job'[j].state = "ASSIGNED" /\ job'[j].machine = m
    /\ job'[j].provider = machine[m].provider /\ job'[j].worker = machine[m].worker
    /\ job'[j].deposit = job[j].deposit
    /\ SameMoney(j) /\ OthersSame(j)
    /\ machine'[m].busy /\ machine'[m].active_job = j /\ machine'[m].active
    /\ machine'[m].provider = machine[m].provider /\ machine'[m].worker = machine[m].worker
    /\ OtherMachinesSame(m)
    /\ UNCHANGED escrow

\* A job moves to state s and keeps its assignment and its accounting.
Moves(j, s) ==
    /\ \/ /\ job[j].state \in {"ASSIGNED", "RUNNING", "VERIFYING", "COMPLETED", "DISPUTED"}
          /\ s \in {"RUNNING", "VERIFYING", "COMPLETED", "FAILED", "DISPUTED", "EXPIRED"}
       \/ /\ job[j].state \in {"CREATED", "OPEN"}
          /\ s \in {"CANCELLED", "EXPIRED"}
    /\ ~job[j].settled
    /\ job'[j].state = s /\ job'[j].machine = job[j].machine
    /\ job'[j].provider = job[j].provider /\ job'[j].worker = job[j].worker
    /\ job'[j].deposit = job[j].deposit
    /\ SameMoney(j) /\ OthersSame(j)
    /\ UNCHANGED <<machine, escrow>>

Pays(j) ==
    /\ job[j].state = "COMPLETED" /\ ~job[j].settled
    /\ job'[j].state = "COMPLETED" /\ job'[j].settled
    /\ job'[j].machine = job[j].machine /\ job'[j].deposit = job[j].deposit
    /\ job'[j].provider_paid + job'[j].fee_paid + job'[j].refunded = job[j].deposit
    /\ OthersSame(j)
    /\ escrow' = [escrow EXCEPT ![j] = @ - job[j].deposit]
    /\ ~machine'[job[j].machine].busy
    /\ OtherMachinesSame(job[j].machine)

Returns(j) ==
    /\ job[j].state \in {"CANCELLED", "EXPIRED", "FAILED"} /\ ~job[j].settled
    /\ job'[j].state = "REFUNDED" /\ job'[j].settled
    /\ job'[j].machine = job[j].machine /\ job'[j].deposit = job[j].deposit
    /\ job'[j].provider_paid = job[j].provider_paid /\ job'[j].fee_paid = job[j].fee_paid
    /\ job'[j].refunded = job[j].deposit
    /\ OthersSame(j)
    /\ escrow' = [escrow EXCEPT ![j] = @ - job[j].deposit]
    /\ UNCHANGED machine

Frees(j, m) ==
    /\ job[j].state = "REFUNDED" /\ job[j].settled /\ job[j].machine = m
    /\ machine[m].busy /\ machine[m].active_job = j
    /\ ~machine'[m].busy
    /\ OtherMachinesSame(m)
    /\ UNCHANGED <<job, escrow>>

Effect ==
    \/ Still
    \/ \E m \in Machines : Idles(m)
    \/ \E j \in Jobs : \/ Creates(j) \/ Funds(j) \/ Opens(j) \/ Pays(j) \/ Returns(j)
                       \/ \E m \in Machines : Assigns(j, m) \/ Frees(j, m)
                       \/ \E s \in States : Moves(j, s)

\* The assignment both accept_bid and assign_offer make.
LEMMA AssignEffect ==
    ASSUME TypeOK, NEW j \in Jobs, NEW m \in Machines, NEW w, NEW price,
           Assign(j, m, w, price), UNCHANGED escrow,
           job[j].state = "OPEN", ~machine[m].busy, machine[m].active, machine[m].worker = w
    PROVE  Assigns(j, m)
<1>1. /\ job'[j].state = "ASSIGNED" /\ job'[j].machine = m /\ job'[j].worker = w
      /\ job'[j].provider = machine[m].provider /\ job'[j].deposit = job[j].deposit
      /\ SameMoney(j) /\ OthersSame(j)
  <2> DEFINE p == machine[m].provider
             held == [job[j] EXCEPT !.provider = p, !.machine = m, !.worker = w, !.price = price,
                                    !.state = "ASSIGNED"]
  <2>1. job' = [job EXCEPT ![j] = held]
    BY ZenonT(60) DEF TypeOK, JobAccounts, Assign
  <2>2. job[j] \in JobAccounts
    BY Zenon DEF TypeOK
  <2> HIDE DEF p
  <2>3. /\ held.state = "ASSIGNED" /\ held.machine = m /\ held.worker = w /\ held.provider = p
        /\ held.deposit = job[j].deposit /\ held.settled = job[j].settled
        /\ held.provider_paid = job[j].provider_paid /\ held.fee_paid = job[j].fee_paid
        /\ held.refunded = job[j].refunded
    BY <2>2, ZenonT(60) DEF JobAccounts
  <2> HIDE DEF held
  <2>4. job'[j] = held /\ OthersSame(j)
    BY <2>1, Zenon DEF TypeOK, OthersSame
  <2>5. QED
    BY <2>3, <2>4, Zenon DEF SameMoney, p
<1>2. /\ machine'[m].busy /\ machine'[m].active_job = j
      /\ machine'[m].provider = machine[m].provider
      /\ machine'[m].worker = machine[m].worker /\ machine'[m].active
      /\ OtherMachinesSame(m)
  BY ZenonT(60) DEF TypeOK, MachineAccounts, Assign, OtherMachinesSame
<1>3. QED
  BY <1>1, <1>2, ZenonT(40) DEF Assigns

\* settle_job takes exactly the deposit out of the escrow, whatever the price and the fee.
LEMMA SettleEffect ==
    ASSUME MarketInv, NEW j \in Jobs, SettleJob(j)
    PROVE  Pays(j)
<1> DEFINE s == split(job[j].deposit, job[j].price, job[j].fee_bps)
           m == job[j].machine
<1>0. TypeOK
  BY Zenon DEF MarketInv
<1>1. /\ job[j] \in JobAccounts /\ job[j].state = "COMPLETED" /\ ~job[j].settled
      /\ job[j].fee_bps <= 300 /\ job[j].price <= job[j].deposit
  BY <1>0, ZenonT(40) DEF TypeOK, SettleJob
<1>2. s.payment + s.fee + s.refund = job[j].deposit
  <2>1. job[j].deposit \in Nat /\ job[j].price \in Nat /\ job[j].fee_bps \in Nat
    BY <1>1, Zenon DEF JobAccounts
  <2>2. QED
    BY <1>1, <2>1, SplitTyped, ZenonT(60)
<1>3. /\ job' = [job EXCEPT ![j].settled = TRUE, ![j].provider_paid = s.payment,
                            ![j].fee_paid = s.fee, ![j].refunded = s.refund]
      /\ escrow' = [escrow EXCEPT ![j] = @ - (s.payment + s.fee + s.refund)]
      /\ machine' = [machine EXCEPT ![m].busy = FALSE, ![m].completed = @ + 1]
  BY Zenon DEF SettleJob
<1>4. m \in Machines
  BY <1>1, Zenon DEF MarketInv, ExclusiveReservation, Engaged
<1> HIDE DEF s
<1>5. /\ job'[j].state = "COMPLETED" /\ job'[j].settled /\ job'[j].machine = m
      /\ job'[j].deposit = job[j].deposit /\ job'[j].provider_paid = s.payment
      /\ job'[j].fee_paid = s.fee /\ job'[j].refunded = s.refund
      /\ OthersSame(j)
  BY <1>0, <1>1, <1>3, ZenonT(60) DEF TypeOK, JobAccounts, OthersSame
<1>6. ~machine'[m].busy /\ OtherMachinesSame(m)
  BY <1>0, <1>3, <1>4, ZenonT(60) DEF TypeOK, MachineAccounts, OtherMachinesSame
<1>7. QED
  BY <1>1, <1>2, <1>3, <1>5, <1>6, ZenonT(60) DEF Pays

\* Every instruction, a tick of the clock and a stuttering step have one of the effects.
LEMMA EffectOfStep == MarketInv /\ [Next]_vars => Effect
<1> SUFFICES ASSUME MarketInv, [Next]_vars PROVE Effect
  BY Zenon
<1>0. TypeOK /\ AccountsLinked /\ Lifecycle
  BY Zenon DEF MarketInv
<1>1. ASSUME UNCHANGED <<job, machine, escrow>> PROVE Effect
  BY <1>1, Zenon DEF Effect, Still
<1>2. CASE AdminStep \/ Tick \/ UNCHANGED vars
  BY <1>1, <1>2, Zenon DEF AdminStep, PauseProtocol, UpdateProtocol, Tick, vars, supply
<1>3. CASE SupplyStep
  <2>1. ASSUME NEW p \in Providers, NEW m \in Machines, NEW w \in Workers, RegisterMachine(m, p, w)
        PROVE  Effect
    <3>1. ~machine[m].busy
      BY <1>0, <2>1, ZenonT(60) DEF RegisterMachine, AccountsLinked
    <3>2. Idles(m)
      BY <1>0, <2>1, <3>1, ZenonT(60) DEF TypeOK, RegisterMachine, BlankMachine, Idles, OtherMachinesSame
    <3>3. QED
      BY <3>2, Zenon DEF Effect
  <2>2. ASSUME NEW m \in Machines, DeactivateMachine(m) PROVE Effect
    <3>1. Idles(m)
      BY <1>0, <2>2, Zenon DEF TypeOK, MachineAccounts, DeactivateMachine, Idles, OtherMachinesSame
    <3>2. QED
      BY <3>1, Zenon DEF Effect
  <2>3. ASSUME NEW m \in Machines, NEW w \in Workers, UpdateMachine(m, w) PROVE Effect
    <3>1. Idles(m)
      BY <1>0, <2>3, Zenon DEF TypeOK, MachineAccounts, UpdateMachine, Idles, OtherMachinesSame
    <3>2. QED
      BY <3>1, Zenon DEF Effect
  <2>4. ASSUME NEW p \in Providers,
               \/ RegisterProvider(p)
               \/ \E active \in BOOLEAN : UpdateProvider(p, active)
               \/ \E w \in Workers, span \in AuthSpans : AuthorizeWorker(p, w, span)
               \/ \E w \in Workers : RevokeWorker(p, w)
               \/ \E old, new \in Workers, span \in AuthSpans : RotateWorker(p, old, new, span)
        PROVE  Effect
    BY <1>1, <2>4, ZenonT(60) DEF RegisterProvider, UpdateProvider, AuthorizeWorker, RevokeWorker, RotateWorker
  <2>5. ASSUME NEW o \in Offers,
               \/ \E m \in Machines, t \in OfferTerms : CreateOffer(o, m, t)
               \/ \E paused \in BOOLEAN : PauseOffer(o, paused)
               \/ \E t \in OfferTerms : UpdateOffer(o, t)
               \/ CloseOffer(o)
        PROVE  Effect
    BY <1>1, <2>5, ZenonT(60) DEF CreateOffer, PauseOffer, UpdateOffer, CloseOffer
  <2>6. QED
    BY <1>3, <2>1, <2>2, <2>3, <2>4, <2>5, ZenonT(60) DEF SupplyStep
<1>4. ASSUME NEW j \in Jobs, MatchStep(j) PROVE Effect
  <2>1. ASSUME NEW b \in Buyers, NEW r \in Orders, CreateJob(j, b, r) PROVE Effect
    <3>1. Creates(j)
      BY <1>0, <2>1, BoundsAssumption, SMTT(30) DEF TypeOK, BlankJob, CreateJob, Creates, OthersSame, supply
    <3>2. QED
      BY <3>1, ZenonT(60) DEF Effect
  <2>2. ASSUME FundJob(j) PROVE Effect
    <3>1. Funds(j)
      BY <1>0, <2>2, SMTT(30) DEF TypeOK, JobAccounts, FundJob, Funds, SameMoney, OthersSame, supply
    <3>2. QED
      BY <3>1, ZenonT(60) DEF Effect
  <2>3. ASSUME NEW p \in Providers, AcceptBid(j, p) PROVE Effect
    <3>1. bid[j][p].machine \in Machines
      BY <1>0, <2>3, ZenonT(200) DEF AcceptBid, TypeOK, BidAccounts, AccountsLinked
    <3>2. Assigns(j, bid[j][p].machine)
      BY <1>0, <2>3, <3>1, AssignEffect, Zenon DEF AcceptBid, Available
    <3>3. QED
      BY <3>1, <3>2, Zenon DEF Effect
  <2>4. ASSUME NEW o \in Offers, AssignOffer(j, o) PROVE Effect
    <3>1. offer[o].machine \in Machines
      BY <1>0, <2>4, Zenon DEF AssignOffer, TypeOK, OfferAccounts, AccountsLinked
    <3>2. Assigns(j, offer[o].machine)
      BY <1>0, <2>4, <3>1, AssignEffect, Zenon DEF AssignOffer, Available
    <3>3. QED
      BY <3>1, <3>2, Zenon DEF Effect
  <2>5. QED
    BY <1>1, <1>4, <2>1, <2>2, <2>3, <2>4, SMTT(30) DEF MatchStep, PlaceBid, CancelBid, supply
<1>5. ASSUME NEW j \in Jobs, RunStep(j) PROVE Effect
  <2> USE DEF SameMoney, OthersSame
  <2>1. ASSUME NEW s \in States, Moves(j, s) PROVE Effect
    BY <2>1, Zenon DEF Effect
  <2>2. ASSUME StartJob(j) PROVE Effect
    <3>1. ~job[j].settled
      BY <1>0, <2>2, ZenonT(60) DEF StartJob, Lifecycle
    <3>2. Moves(j, "RUNNING")
      BY <2>2, <3>1, <1>0, SMTT(30) DEF Moves, StartJob, TypeOK, JobAccounts, supply
    <3>3. QED
      BY <2>1, <3>2, StateNames, Zenon
  <2>3. ASSUME NEW r \in Receipts, SubmitReceipt(j, r) PROVE Effect
    <3>1. ~job[j].settled
      BY <1>0, <2>3, ZenonT(60) DEF SubmitReceipt, Lifecycle
    <3>2. Moves(j, "VERIFYING")
      BY <2>3, <3>1, <1>0, SMTT(30) DEF Moves, SubmitReceipt, TypeOK, JobAccounts, supply
    <3>3. QED
      BY <2>1, <3>2, StateNames, Zenon
  <2>4. ASSUME NEW r \in Receipts, NEW passed \in BOOLEAN, SubmitVerification(j, r, passed)
        PROVE  Effect
    <3>1. ~job[j].settled
      BY <1>0, <2>4, ZenonT(60) DEF SubmitVerification, Lifecycle
    <3>2. Moves(j, IF passed THEN "COMPLETED" ELSE "FAILED")
      BY <2>4, <3>1, <1>0, SMTT(30) DEF Moves, SubmitVerification, TypeOK, JobAccounts, supply
    <3>3. QED
      BY <2>1, <3>2, StateNames, Zenon
  <2>5. ASSUME CancelJob(j) PROVE Effect
    <3>1. ~job[j].settled
      BY <1>0, <2>5, Zenon DEF CancelJob, Lifecycle
    <3>2. Moves(j, "CANCELLED")
      BY <2>5, <3>1, <1>0, SMTT(30) DEF Moves, CancelJob, TypeOK, JobAccounts, supply
    <3>3. QED
      BY <2>1, <3>2, StateNames, Zenon
  <2>6. ASSUME ExpireJob(j) PROVE Effect
    <3>1. ~job[j].settled
      BY <1>0, <2>6, ZenonT(60) DEF ExpireJob, Overdue, Lifecycle
    <3>2. Moves(j, "EXPIRED")
      BY <2>6, <3>1, <1>0, SMTT(30) DEF Moves, ExpireJob, Overdue, TypeOK, JobAccounts, supply
    <3>3. QED
      BY <2>1, <3>2, StateNames, ZenonT(60)
  <2>7. ASSUME OpenDispute(j) PROVE Effect
    <3>1. Moves(j, "DISPUTED")
      BY <1>0, <2>7, SMTT(30) DEF Moves, OpenDispute, TypeOK, JobAccounts, supply
    <3>2. QED
      BY <2>1, <3>1, StateNames, ZenonT(60)
  <2>8. ASSUME NEW award \in Awards, ResolveDispute(j, award) PROVE Effect
    <3>1. ~job[j].settled
      BY <1>0, <2>8, ZenonT(60) DEF ResolveDispute, Lifecycle
    <3>2. Moves(j, "COMPLETED")
      BY <2>8, <3>1, <1>0, SMTT(30) DEF Moves, ResolveDispute, TypeOK, JobAccounts, supply
    <3>3. QED
      BY <2>1, <3>2, StateNames, Zenon
  <2>9. ASSUME SettleJob(j) PROVE Effect
    BY <2>9, SettleEffect, Zenon DEF Effect
  <2>10. ASSUME RefundJob(j) PROVE Effect
    <3>1. Returns(j)
      BY <1>0, <2>10, SMTT(30) DEF Returns, RefundJob, TypeOK, JobAccounts, supply
    <3>2. QED
      BY <3>1, ZenonT(60) DEF Effect
  <2>11. ASSUME ReleaseMachine(j) PROVE Effect
    <3>1. job[j].machine \in Machines
      BY <1>0, <2>11, Zenon DEF ReleaseMachine, TypeOK, JobAccounts
    <3>2. Frees(j, job[j].machine)
      BY <1>0, <2>11, <3>1, ZenonT(60) DEF Frees, ReleaseMachine, TypeOK, MachineAccounts, OtherMachinesSame
    <3>3. QED
      BY <3>1, <3>2, Zenon DEF Effect
  <2>12. QED
    BY <1>5, <2>2, <2>3, <2>4, <2>5, <2>6, <2>7, <2>8, <2>9, <2>10, <2>11, Zenon DEF RunStep
<1>6. QED
  BY <1>2, <1>3, <1>4, <1>5, ZenonT(60) DEF Next

-----------------------------------------------------------------------------
\* How far the jobs have come: every effect keeps Lifecycle.
LEMMA LifecycleStep == MarketInv /\ Effect => Lifecycle'
<1> SUFFICES ASSUME MarketInv, Effect PROVE Lifecycle'
  BY Zenon
<1>0. Lifecycle /\ \A j \in Jobs : job[j].deposit \in Nat /\ job[j].budget \in Nat
  BY ZenonT(60) DEF MarketInv, TypeOK, JobAccounts
<1>1. CASE Still \/ (\E m \in Machines : Idles(m))
           \/ (\E j \in Jobs, m \in Machines : Frees(j, m))
  BY <1>0, <1>1, SMTT(20) DEF Still, Idles, Frees, Lifecycle
<1>2. ASSUME NEW j \in Jobs, Creates(j) PROVE Lifecycle'
  BY <1>0, <1>2, SMTT(20) DEF Creates, OthersSame, Lifecycle
<1>3. ASSUME NEW j \in Jobs, Funds(j) PROVE Lifecycle'
  BY <1>0, <1>3, SMTT(30) DEF Funds, SameMoney, OthersSame, Lifecycle
<1>4. ASSUME NEW j \in Jobs, NEW m \in Machines, Assigns(j, m) PROVE Lifecycle'
  BY <1>0, <1>4, SMTT(30) DEF Assigns, SameMoney, OthersSame, Lifecycle
<1>5. ASSUME NEW j \in Jobs, NEW s \in States, Moves(j, s) PROVE Lifecycle'
  BY <1>0, <1>5, SMTT(30) DEF Moves, SameMoney, OthersSame, Lifecycle
<1>6. ASSUME NEW j \in Jobs, Pays(j) PROVE Lifecycle'
  BY <1>0, <1>6, SMTT(30) DEF Pays, OthersSame, Lifecycle
<1>7. ASSUME NEW j \in Jobs, Returns(j) PROVE Lifecycle'
  BY <1>0, <1>7, SMTT(30) DEF Returns, OthersSame, Lifecycle
<1>8. ASSUME NEW j \in Jobs, Opens(j) PROVE Lifecycle'
  BY <1>0, <1>8, SMTT(20) DEF Opens, OthersSame, Lifecycle
<1>9. QED
  BY <1>1, <1>2, <1>3, <1>4, <1>5, <1>6, <1>7, <1>8, Zenon DEF Effect

Reserved == ExclusiveReservation /\ NoStrandedMachine /\ EngagedMachineStable

\* A step that neither engages nor releases: the same jobs are engaged on the same machines,
\* and a busy machine whose job was refunded keeps waiting for it.
LEMMA ReservedFrame ==
    ASSUME Reserved, UNCHANGED machine,
           \A k \in Jobs : /\ Engaged(k)' => Engaged(k)
                           /\ Engaged(k) => Engaged(k)' \/ job'[k].state = "REFUNDED"
                           /\ job[k].state = "REFUNDED" => job'[k].state = "REFUNDED"
                           /\ Engaged(k) \/ job[k].state = "REFUNDED" =>
                                 job'[k].machine = job[k].machine
                           /\ Engaged(k)' => /\ job'[k].provider = job[k].provider
                                             /\ job'[k].worker = job[k].worker
    PROVE  Reserved'
<1>1. ExclusiveReservation'
  BY Zenon DEF Reserved, ExclusiveReservation
<1>2. NoStrandedMachine'
  BY SMTT(20) DEF Reserved, NoStrandedMachine
<1>3. EngagedMachineStable'
  BY ZenonT(60) DEF Reserved, EngagedMachineStable
<1>4. QED
  BY <1>1, <1>2, <1>3, Zenon DEF Reserved

\* A machine that no engaged job uses changes, and is not busy afterwards.
LEMMA ReservedElsewhere ==
    ASSUME Reserved, NEW m \in Machines, ~machine'[m].busy, OtherMachinesSame(m),
           \A k \in Jobs : /\ Engaged(k)' => Engaged(k) /\ job[k].machine # m
                           /\ Engaged(k) /\ job[k].machine # m => Engaged(k)'
                           /\ job[k].state = "REFUNDED" => job'[k].state = "REFUNDED"
                           /\ job'[k].machine = job[k].machine
                           /\ Engaged(k)' => /\ job'[k].provider = job[k].provider
                                             /\ job'[k].worker = job[k].worker
    PROVE  Reserved'
<1>1. ExclusiveReservation'
  BY DEF Reserved, ExclusiveReservation, OtherMachinesSame
<1>2. NoStrandedMachine'
  <2> SUFFICES ASSUME NEW x \in Machines
               PROVE  (machine[x].busy =>
                         \E k \in Jobs :
                            /\ machine[x].active_job = k /\ job[k].machine = x
                            /\ Engaged(k) \/ job[k].state = "REFUNDED")'
    BY Zenon DEF NoStrandedMachine
  <2> HAVE machine'[x].busy
  <2>1. x # m /\ machine'[x] = machine[x]
    BY ZenonT(60) DEF OtherMachinesSame
  <2>2. QED
    BY <2>1, SMTT(20) DEF Reserved, NoStrandedMachine
<1>3. EngagedMachineStable'
  BY DEF Reserved, EngagedMachineStable, ExclusiveReservation, OtherMachinesSame
<1>4. QED
  BY <1>1, <1>2, <1>3, Zenon DEF Reserved

\* accept_bid and assign_offer take a machine that is not busy, so no other engaged job
\* holds it, and leave it busy with this job.
LEMMA ReservedByAssignment ==
    ASSUME MarketInv, NEW j \in Jobs, NEW m \in Machines, Assigns(j, m)
    PROVE  Reserved'
<1> USE DEF OthersSame, OtherMachinesSame
<1>1. job[j].machine = None /\ None \notin Machines
  BY KeysAssumption, Zenon DEF MarketInv, Lifecycle, Assigns
<1>2. Reserved /\ Engaged(j)'
  BY ZenonT(60) DEF MarketInv, Reserved, Assigns, Engaged
<1>3. \A k \in Jobs \ {j} : /\ Engaged(k)' <=> Engaged(k)
                            /\ Engaged(k) => job[k].machine \in Machines \ {m}
  BY <1>2, ZenonT(60) DEF Assigns, Reserved, Engaged, ExclusiveReservation
<1>4. ExclusiveReservation'
  <2> SUFFICES ASSUME NEW k \in Jobs, Engaged(k)'
               PROVE  (/\ job[k].machine \in Machines /\ machine[job[k].machine].busy
                       /\ machine[job[k].machine].active_job = k)'
    BY Zenon DEF ExclusiveReservation
  <2>1. CASE k = j
    BY <2>1, ZenonT(60) DEF Assigns
  <2>2. CASE k # j
    <3>1. /\ Engaged(k) /\ job[k].machine \in Machines \ {m} /\ job'[k] = job[k]
          /\ machine'[job[k].machine] = machine[job[k].machine]
      BY <1>3, <2>2, ZenonT(60) DEF Assigns
    <3>2. QED
      BY <1>2, <3>1, Zenon DEF Reserved, ExclusiveReservation
  <2>3. QED
    BY <2>1, <2>2, Zenon
<1>5. NoStrandedMachine'
  <2> SUFFICES ASSUME NEW x \in Machines
               PROVE  (machine[x].busy =>
                         \E k \in Jobs :
                            /\ machine[x].active_job = k /\ job[k].machine = x
                            /\ Engaged(k) \/ job[k].state = "REFUNDED")'
    BY Zenon DEF NoStrandedMachine
  <2> HAVE machine'[x].busy
  <2>1. CASE x = m
    BY <1>2, <2>1, ZenonT(60) DEF Assigns
  <2>2. CASE x # m
    <3>1. machine'[x] = machine[x]
      BY <2>2, Zenon DEF Assigns
    <3>2. machine[x].active_job \in Jobs \ {j}
      BY <1>1, <1>2, <3>1, SMTT(30) DEF Reserved, NoStrandedMachine
    <3>3. QED
      BY <1>2, <1>3, <3>1, <3>2, SMTT(30) DEF Assigns, Reserved, NoStrandedMachine
  <2>3. QED
    BY <2>1, <2>2, Zenon
<1>6. EngagedMachineStable'
  BY <1>2, <1>3, SMTT(30) DEF Assigns, Reserved, EngagedMachineStable
<1>7. QED
  BY <1>4, <1>5, <1>6, Zenon DEF Reserved

\* Every effect keeps the reservation of machines: exclusive, recoverable and stable.
LEMMA ReservedStep == MarketInv /\ Effect => Reserved'
<1> SUFFICES ASSUME MarketInv, Effect PROVE Reserved'
  BY Zenon
<1> USE DEF OthersSame
<1>0. Reserved /\ Lifecycle /\ None \notin Machines
  BY KeysAssumption, Zenon DEF MarketInv, Reserved
<1>1. CASE Still
  BY <1>0, <1>1, ReservedFrame, Zenon DEF Still, Engaged
<1>2. ASSUME NEW m \in Machines, Idles(m) PROVE Reserved'
  <2>1. \A k \in Jobs : Engaged(k) => job[k].machine # m
    BY <1>0, <1>2, Zenon DEF Idles, Reserved, ExclusiveReservation
  <2>2. \A k \in Jobs : Engaged(k)' <=> Engaged(k)
    BY <1>2, Zenon DEF Idles, Engaged
  <2>3. QED
    BY <1>0, <1>2, <2>1, <2>2, ReservedElsewhere, Zenon DEF Idles
<1>3. ASSUME NEW j \in Jobs, Creates(j) PROVE Reserved'
  BY <1>0, <1>3, ReservedFrame, Zenon DEF Creates, Engaged
<1>4. ASSUME NEW j \in Jobs, Funds(j) PROVE Reserved'
  BY <1>0, <1>4, ReservedFrame, Zenon DEF Funds, Engaged
<1>5. ASSUME NEW j \in Jobs, NEW s \in States, Moves(j, s) PROVE Reserved'
  <2>1. CASE job[j].state \in {"CREATED", "OPEN"}
    <3>1. job[j].machine = None
      BY <1>0, <2>1, Zenon DEF Lifecycle
    <3>2. \A k \in Jobs : Engaged(k)' <=> Engaged(k)
      BY <1>5, <2>1, <3>1, Zenon DEF Moves, Engaged
    <3>3. QED
      BY <1>0, <1>5, <2>1, <3>2, ReservedFrame, Zenon DEF Moves
  <2>2. CASE job[j].state \notin {"CREATED", "OPEN"}
    <3>1. Engaged(j) /\ job[j].machine # None
      BY <1>0, <1>5, <2>2, ZenonT(40) DEF Moves, Engaged, Reserved, ExclusiveReservation
    <3>2. \A k \in Jobs : Engaged(k)' <=> Engaged(k)
      BY <1>5, <2>2, <3>1 DEF Moves, SameMoney, Engaged
    <3>3. QED
      BY <1>0, <1>5, <2>2, <3>2, ReservedFrame, Zenon DEF Moves
  <2>3. QED
    BY <2>1, <2>2, Zenon
<1>6. ASSUME NEW j \in Jobs, Pays(j) PROVE Reserved'
  <2>1. /\ job[j].machine \in Machines
        /\ \A k \in Jobs \ {j} : Engaged(k) => job[k].machine # job[j].machine
    BY <1>0, <1>6, SMTT(20) DEF Pays, Engaged, Reserved, ExclusiveReservation
  <2>2. ~Engaged(j)' /\ \A k \in Jobs \ {j} : Engaged(k)' <=> Engaged(k)
    BY <1>6, Zenon DEF Pays, Engaged
  <2>3. QED
    BY <1>0, <1>6, <2>1, <2>2, ReservedElsewhere, ZenonT(60) DEF Pays
<1>7. ASSUME NEW j \in Jobs, Returns(j) PROVE Reserved'
  BY <1>0, <1>7, ReservedFrame, ZenonT(60) DEF Returns, Engaged
<1>8. ASSUME NEW j \in Jobs, NEW m \in Machines, Frees(j, m) PROVE Reserved'
  <2>1. \A k \in Jobs : Engaged(k) => job[k].machine # m
    BY <1>0, <1>8, SMTT(20) DEF Frees, Engaged, Reserved, ExclusiveReservation
  <2>2. \A k \in Jobs : Engaged(k)' <=> Engaged(k)
    BY <1>8, Zenon DEF Frees, Engaged
  <2>3. QED
    BY <1>0, <1>8, <2>1, <2>2, ReservedElsewhere, Zenon DEF Frees
<1>9. ASSUME NEW j \in Jobs, Opens(j) PROVE Reserved'
  BY <1>0, <1>9, ReservedFrame, Zenon DEF Opens, Engaged
<1>10. QED
  BY <1>1, <1>2, <1>3, <1>4, <1>5, <1>6, <1>7, <1>8, <1>9, ReservedByAssignment, Zenon DEF Effect

\* Every effect keeps each escrow equal to its job's unpaid deposit.
LEMMA MoneyStep == MarketInv /\ Effect => EscrowBacked' /\ SettlementAccounting'
<1> SUFFICES ASSUME MarketInv, Effect PROVE EscrowBacked' /\ SettlementAccounting'
  BY Zenon
<1> USE DEF OthersSame
<1>0. /\ EscrowBacked /\ SettlementAccounting /\ Lifecycle
      /\ escrow \in [Jobs -> Nat]
      /\ \A k \in Jobs : job[k].deposit \in Nat /\ job[k].budget \in Nat
  BY ZenonT(60) DEF MarketInv, TypeOK, JobAccounts
<1>1. CASE Still \/ (\E m \in Machines : Idles(m))
           \/ (\E j \in Jobs, m \in Machines : Frees(j, m))
  BY <1>0, <1>1, SMTT(20) DEF Still, Idles, Frees, EscrowBacked, SettlementAccounting
<1>2. ASSUME NEW j \in Jobs, Creates(j) PROVE EscrowBacked' /\ SettlementAccounting'
  BY <1>0, <1>2, SMTT(20) DEF Creates, Lifecycle, EscrowBacked, SettlementAccounting
<1>3. ASSUME NEW j \in Jobs, Funds(j) PROVE EscrowBacked' /\ SettlementAccounting'
  <2>1. ~job[j].settled /\ escrow[j] = 0
    BY <1>0, <1>3, Zenon DEF Funds, Lifecycle, EscrowBacked
  <2>2. escrow'[j] = job[j].budget /\ \A k \in Jobs \ {j} : escrow'[k] = escrow[k]
    BY <1>0, <1>3, <2>1, SMTT(30) DEF Funds
  <2>3. QED
    BY <1>0, <1>3, <2>1, <2>2, SMTT(20) DEF Funds, SameMoney, EscrowBacked, SettlementAccounting
<1>4. ASSUME NEW j \in Jobs, NEW m \in Machines, Assigns(j, m)
      PROVE  EscrowBacked' /\ SettlementAccounting'
  BY <1>0, <1>4, SMTT(30) DEF Assigns, SameMoney, Lifecycle, EscrowBacked, SettlementAccounting
<1>5. ASSUME NEW j \in Jobs, NEW s \in States, Moves(j, s)
      PROVE  EscrowBacked' /\ SettlementAccounting'
  BY <1>0, <1>5, ZenonT(60) DEF Moves, SameMoney, EscrowBacked, SettlementAccounting
<1>6. ASSUME NEW j \in Jobs, Pays(j) \/ Returns(j) PROVE EscrowBacked' /\ SettlementAccounting'
  <2>1. escrow[j] = job[j].deposit
    BY <1>0, <1>6, Zenon DEF Pays, Returns, EscrowBacked
  <2>2. escrow'[j] = 0 /\ \A k \in Jobs \ {j} : escrow'[k] = escrow[k]
    <3>1. escrow' = [escrow EXCEPT ![j] = @ - job[j].deposit]
      BY <1>6, Zenon DEF Pays, Returns
    <3>2. escrow[j] \in Nat
      BY <1>0, Zenon
    <3>3. escrow'[j] = escrow[j] - escrow[j] /\ \A k \in Jobs \ {j} : escrow'[k] = escrow[k]
      BY <1>0, <2>1, <3>1, Zenon
    <3>4. QED
      BY <3>2, <3>3, SMTT(20)
  <2>3. EscrowBacked'
    <3>1. job'[j].settled /\ \A k \in Jobs \ {j} : job'[k] = job[k]
      BY <1>6, Zenon DEF Pays, Returns
    <3>2. \A k \in Jobs : (escrow[k] = IF job[k].settled THEN 0 ELSE job[k].deposit)'
      BY <1>0, <2>2, <3>1, ZenonT(60) DEF EscrowBacked
    <3>3. QED
      BY <3>2, Zenon DEF EscrowBacked
  <2>4. SettlementAccounting'
    BY <1>0, <1>6, SMTT(20) DEF Pays, Returns, Lifecycle, SettlementAccounting
  <2>5. QED
    BY <2>3, <2>4, Zenon
<1>7. ASSUME NEW j \in Jobs, Opens(j) PROVE EscrowBacked' /\ SettlementAccounting'
  <2>1. escrow[j] = 0
    BY <1>0, <1>7, Zenon DEF Opens, Lifecycle, EscrowBacked
  <2>2. escrow'[j] = job'[j].deposit /\ \A k \in Jobs \ {j} : escrow'[k] = escrow[k]
    BY <1>0, <1>7, <2>1, SMTT(20) DEF Opens
  <2>3. QED
    BY <1>0, <1>7, <2>2, SMTT(20) DEF Opens, EscrowBacked, SettlementAccounting
<1>8. QED
  BY <1>1, <1>2, <1>3, <1>4, <1>5, <1>6, <1>7, Zenon DEF Effect

\* The accounts initialize_protocol leaves satisfy the inductive invariant.
LEMMA InitInv == Init => MarketInv
<1> SUFFICES ASSUME Init PROVE MarketInv
  BY Zenon
<1>1. TypeOK
  <2>1. BlankJob \in JobAccounts
    BY StateNames DEF JobAccounts, BlankJob
  <2>2. BlankMachine \in MachineAccounts /\ BlankOffer \in OfferAccounts
    BY Zenon DEF MachineAccounts, BlankMachine, OfferAccounts, BlankOffer
  <2>3. BlankBid \in BidAccounts /\ BlankAuth \in AuthAccounts
    BY Zenon DEF BidAccounts, BlankBid, AuthAccounts, BlankAuth
  <2>4. config \in ProtocolConfigs
    BY InputsAssumption, Zenon DEF Init, ProtocolConfigs
  <2>5. [registered |-> FALSE, active |-> FALSE, completed |-> 0] \in ProviderAccounts
    BY Zenon DEF ProviderAccounts
  <2>6. QED
    BY <2>1, <2>2, <2>3, <2>4, <2>5, BoundsAssumption, ZenonT(60) DEF Init, TypeOK
<1>2. AccountsLinked
  BY Zenon DEF Init, AccountsLinked, BlankMachine, BlankOffer, BlankBid
<1>3. \A j \in Jobs : /\ job[j].state = "ABSENT" /\ job[j].machine = None /\ job[j].deposit = 0
                      /\ ~job[j].settled /\ job[j].provider_paid = 0 /\ job[j].fee_paid = 0
                      /\ job[j].refunded = 0
  BY Zenon DEF Init, BlankJob
<1>4. \A m \in Machines : ~machine[m].busy
  BY Zenon DEF Init, BlankMachine
<1>5. \A j \in Jobs : escrow[j] = 0
  BY Zenon DEF Init
<1>6. QED
  BY <1>1, <1>2, <1>3, <1>4, <1>5, SMTT(30)
     DEF MarketInv, Lifecycle, ExclusiveReservation, NoStrandedMachine, EngagedMachineStable,
         EscrowBacked, SettlementAccounting, Engaged

\* Every instruction keeps the inductive invariant.
LEMMA InvStep == MarketInv /\ [Next]_vars => MarketInv'
<1> SUFFICES ASSUME MarketInv, [Next]_vars PROVE MarketInv'
  BY Zenon
<1>1. TypeOK' /\ AccountsLinked'
  BY TypeStep, LinkedStep, Zenon DEF MarketInv
<1>2. Lifecycle' /\ Reserved' /\ EscrowBacked' /\ SettlementAccounting'
  BY EffectOfStep, LifecycleStep, ReservedStep, MoneyStep, Zenon
<1>3. QED
  BY <1>1, <1>2, Zenon DEF MarketInv, Reserved

\* The inductive invariant: what the accounts name, how far the jobs have come, and the
\* safety of machines and money hold in every state the program's instructions can reach.
THEOREM MarketInvariant == Spec => []MarketInv
BY InitInv, InvStep, PTL DEF Spec

\* Every account of the program holds values of its declared type; no balance, payment, fee
\* or refund is ever negative.
THEOREM TypeCorrect == Spec => []TypeOK
<1>1. MarketInv => TypeOK
  BY Zenon DEF MarketInv
<1>2. QED
  BY <1>1, MarketInvariant, PTL

\* Whatever accept_bid, assign_offer, expire_job, settle_job, refund_job, release_machine and
\* the machine instructions do in whatever order, an engaged job has its machine to itself,
\* and a busy machine has a job that can still give it back.
THEOREM MachinesReserved ==
    Spec => [](ExclusiveReservation /\ NoStrandedMachine /\ EngagedMachineStable)
<1>1. MarketInv => ExclusiveReservation /\ NoStrandedMachine /\ EngagedMachineStable
  BY Zenon DEF MarketInv
<1>2. QED
  BY <1>1, MarketInvariant, PTL

\* fund_job, settle_job and refund_job keep every escrow equal to its job's deposit until it
\* is paid out, once and completely, and the parts paid out add up to the deposit.
THEOREM MoneyAccounted == Spec => [](EscrowBacked /\ SettlementAccounting)
<1>1. MarketInv => EscrowBacked /\ SettlementAccounting
  BY Zenon DEF MarketInv
<1>2. QED
  BY <1>1, MarketInvariant, PTL

-----------------------------------------------------------------------------
(* The market implements Engagement.                                       *)

\* The job a machine is held by.
holderOf(m) == IF machine[m].busy THEN machine[m].active_job ELSE None

\* Each effect is a step of Engagement or changes nothing it sees.
LEMMA EngagementStep == MarketInv /\ Effect => [E!Next]_(E!vars)
<1> SUFFICES ASSUME MarketInv, Effect PROVE [E!Next]_(E!vars)
  BY Zenon
<1> DEFINE stage == [j \in Jobs |-> stageOf(j)]
           share == [j \in Jobs |-> shareOf(j)]
           holder == [m \in Machines |-> holderOf(m)]
<1> USE DEF OthersSame, OtherMachinesSame
<1>0. /\ Lifecycle /\ Reserved /\ EscrowBacked /\ escrow \in [Jobs -> Nat]
      /\ None \notin Machines /\ None \notin Jobs
      /\ \A k \in Jobs : job[k].deposit \in Nat /\ job[k].budget \in Nat
  BY KeysAssumption, Zenon DEF MarketInv, Reserved, TypeOK, JobAccounts
<1>1. CASE Still
  BY <1>1, Zenon DEF Still, E!vars, stageOf, shareOf
<1>2. ASSUME NEW m \in Machines, Idles(m) PROVE UNCHANGED E!vars
  <2>1. UNCHANGED holder
    BY <1>2, Zenon DEF Idles, holderOf
  <2>2. QED
    BY <1>2, <2>1, Zenon DEF Idles, E!vars, stageOf, shareOf, holderOf
<1>3. ASSUME NEW j \in Jobs, Creates(j) PROVE UNCHANGED E!vars
  <2>1. UNCHANGED <<stage, share>>
    BY <1>0, <1>3, SMTT(20) DEF Creates, Lifecycle, stageOf, shareOf
  <2>2. QED
    BY <1>3, <2>1, ZenonT(60) DEF Creates, E!vars
<1>4. ASSUME NEW j \in Jobs, NEW s \in States, Moves(j, s) PROVE UNCHANGED E!vars
  <2>1. UNCHANGED <<stage, share>>
    BY <1>0, <1>4 DEF Moves, SameMoney, stageOf, shareOf
  <2>2. QED
    BY <1>4, <2>1, ZenonT(60) DEF Moves, E!vars
<1>5. ASSUME NEW j \in Jobs, Funds(j) PROVE E!Deposit(j)
  <2>1. ~job[j].settled /\ job[j].deposit = 0 /\ job[j].budget > 0
    BY <1>0, <1>5, Zenon DEF Funds, Lifecycle
  <2>2. stage[j] = "idle" /\ stage' = [stage EXCEPT ![j] = "held"]
    <3>1. stageOf(j) = "idle"
      BY <2>1, ZenonT(60) DEF stageOf
    <3>2. stageOf(j)' = "held"
      BY <1>0, <1>5, <2>1 DEF Funds, SameMoney, stageOf
    <3>3. \A k \in Jobs \ {j} : stageOf(k)' = stageOf(k)
      BY <1>5, Zenon DEF Funds, stageOf
    <3>4. QED
      BY <3>1, <3>2, <3>3, Zenon
  <2>3. UNCHANGED share
    BY <1>5, ZenonT(60) DEF Funds, SameMoney, shareOf
  <2>4. escrow'[j] > 0 /\ escrow' = [escrow EXCEPT ![j] = escrow'[j]]
    BY <1>0, <1>5, <2>1 DEF Funds
  <2>5. QED
    BY <1>5, <2>2, <2>3, <2>4, Zenon DEF E!Deposit, Funds
<1>6. ASSUME NEW j \in Jobs, NEW m \in Machines, Assigns(j, m) PROVE E!Hold(j, m)
  <2>1. ~job[j].settled /\ job[j].deposit > 0 /\ job[j].machine = None
    BY <1>0, <1>6, ZenonT(60) DEF Assigns, Lifecycle
  <2>2. stage[j] = "held" /\ UNCHANGED <<stage, share>>
    BY <1>0, <1>6, <2>1, SMTT(60) DEF Assigns, SameMoney, stageOf, shareOf
  <2>3. holder[m] = None /\ \A x \in Machines : holder[x] # j
    BY <1>0, <1>6, <2>1, SMTT(30) DEF Assigns, holderOf, Reserved, NoStrandedMachine
  <2>4. holder' = [holder EXCEPT ![m] = j]
    BY <1>6, ZenonT(60) DEF Assigns, holderOf
  <2>5. QED
    BY <1>6, <2>2, <2>3, <2>4, Zenon DEF E!Hold, Assigns, holderOf
<1>7. ASSUME NEW j \in Jobs, Pays(j) PROVE \E m \in Machines : E!Pay(j, m)
  <2>0. PICK m \in Machines : /\ m = job[j].machine
                              /\ machine[m].busy /\ machine[m].active_job = j
    BY <1>0, <1>7, ZenonT(60) DEF Pays, Reserved, ExclusiveReservation, Engaged
  <2>1. job[j].deposit > 0 /\ escrow[j] = job[j].deposit
    BY <1>0, <1>7, Zenon DEF Pays, Lifecycle, EscrowBacked
  <2>2. stage[j] = "held" /\ stage' = [stage EXCEPT ![j] = "paid"]
    <3>1. stageOf(j) = "held"
      BY <1>0, <1>7, <2>1, SMTT(60) DEF Pays, stageOf
    <3>2. stageOf(j)' = "paid"
      BY <1>7, ZenonT(40) DEF Pays, stageOf
    <3>3. \A k \in Jobs \ {j} : stageOf(k)' = stageOf(k)
      BY <1>7, Zenon DEF Pays, stageOf
    <3>4. QED
      BY <3>1, <3>2, <3>3, ZenonT(60)
  <2>3. /\ share' = [share EXCEPT ![j] = share'[j]]
        /\ share'[j].paid + share'[j].fee + share'[j].back = escrow[j]
    BY <1>7, <2>1, Zenon DEF Pays, shareOf
  <2>4. escrow' = [escrow EXCEPT ![j] = 0]
    <3>1. escrow[j] - job[j].deposit = 0
      BY <1>0, <2>1
    <3>2. QED
      BY <1>7, <3>1, Zenon DEF Pays
  <2>5. holder[m] = j /\ holder' = [holder EXCEPT ![m] = None]
    BY <1>7, <2>0, Zenon DEF Pays, holderOf
  <2>6. E!Pay(j, m)
    BY <2>2, <2>3, <2>4, <2>5, Zenon DEF E!Pay, holderOf
  <2>7. QED
    BY <2>6, Zenon
<1>8. ASSUME NEW j \in Jobs, Returns(j) PROVE E!Return(j)
  <2>1. escrow[j] = job[j].deposit
    BY <1>0, <1>8, Zenon DEF Returns, EscrowBacked
  <2>2. stage[j] \in {"idle", "held"} /\ stage' = [stage EXCEPT ![j] = "returned"]
    BY <1>8, ZenonT(60) DEF Returns, stageOf
  <2>3. share' = [share EXCEPT ![j].back = escrow[j]]
    BY <1>8, <2>1, ZenonT(60) DEF Returns, shareOf
  <2>4. escrow' = [escrow EXCEPT ![j] = 0]
    <3>1. escrow[j] - job[j].deposit = 0
      BY <1>0, <2>1
    <3>2. QED
      BY <1>8, <3>1, Zenon DEF Returns
  <2>5. QED
    BY <1>8, <2>2, <2>3, <2>4, Zenon DEF E!Return, Returns
<1>9. ASSUME NEW j \in Jobs, NEW m \in Machines, Frees(j, m) PROVE E!Leave(j, m)
  <2>1. stage[j] = "returned" /\ UNCHANGED <<stage, share>>
    BY <1>9, Zenon DEF Frees, stageOf, shareOf
  <2>2. holder[m] = j /\ holder' = [holder EXCEPT ![m] = None]
    BY <1>9, Zenon DEF Frees, holderOf
  <2>3. QED
    BY <1>9, <2>1, <2>2, Zenon DEF E!Leave, Frees, holderOf
<1>10. ASSUME NEW j \in Jobs, Opens(j) PROVE E!Deposit(j)
  <2>1. ~job[j].settled /\ job[j].deposit = 0 /\ escrow[j] = 0
        /\ job[j].provider_paid = 0 /\ job[j].fee_paid = 0 /\ job[j].refunded = 0
    BY <1>0, <1>10, Zenon DEF Opens, Lifecycle, EscrowBacked
  <2>2. stage[j] = "idle" /\ stage' = [stage EXCEPT ![j] = "held"]
    <3>1. stageOf(j) = "idle"
      BY <2>1, Zenon DEF stageOf
    <3>2. stageOf(j)' = "held"
      BY <1>10, Zenon DEF Opens, stageOf
    <3>3. \A k \in Jobs \ {j} : stageOf(k)' = stageOf(k)
      BY <1>10, Zenon DEF Opens, stageOf
    <3>4. QED
      BY <3>1, <3>2, <3>3, Zenon
  <2>3. UNCHANGED share
    BY <1>10, <2>1, ZenonT(60) DEF Opens, shareOf
  <2>4. escrow'[j] > 0 /\ escrow' = [escrow EXCEPT ![j] = escrow'[j]]
    BY <1>0, <1>10, <2>1 DEF Opens
  <2>5. QED
    BY <1>10, <2>2, <2>3, <2>4, Zenon DEF E!Deposit, Opens
<1>11. CASE \E j \in Jobs : Funds(j) \/ Opens(j) \/ Pays(j) \/ Returns(j)
                            \/ \E m \in Machines : Assigns(j, m) \/ Frees(j, m)
  <2>1. E!Next
    BY <1>5, <1>6, <1>7, <1>8, <1>9, <1>10, <1>11, Zenon DEF E!Next
  <2>2. QED
    BY <2>1, Zenon
<1>12. CASE \/ \E m \in Machines : Idles(m)
            \/ \E j \in Jobs : Creates(j) \/ \E s \in States : Moves(j, s)
  <2>1. UNCHANGED E!vars
    BY <1>2, <1>3, <1>4, <1>12, Zenon
  <2>2. QED
    BY <2>1, Zenon
<1>13. QED
  BY <1>1, <1>11, <1>12, Zenon DEF Effect

\* Before the first instruction no job has money and no machine a job.
LEMMA EngagementInit == Init => E!Init
<1> SUFFICES ASSUME Init PROVE E!Init
  BY Zenon
<1>1. \A j \in Jobs : /\ stageOf(j) = "idle" /\ escrow[j] = 0
                      /\ shareOf(j) = [paid |-> 0, fee |-> 0, back |-> 0]
  BY Zenon DEF Init, stageOf, shareOf, BlankJob
<1>2. \A m \in Machines : ~machine[m].busy
  BY Zenon DEF Init, BlankMachine
<1>3. escrow = [j \in Jobs |-> 0]
  BY Zenon DEF Init
<1>4. QED
  BY <1>1, <1>2, <1>3, Zenon DEF E!Init

\* The market implements Engagement, for every value of the constants: settle_job, which
\* frees a machine without looking at its active_job, frees the machine of its own job only.
THEOREM ImplementsEngagement == Spec => EngagementSpec
<1>1. Init => E!Init
  BY EngagementInit, Zenon
<1>2. MarketInv /\ [Next]_vars => [E!Next]_(E!vars)
  BY EffectOfStep, EngagementStep, Zenon
<1>3. QED
  BY <1>1, <1>2, MarketInvariant, PTL DEF Spec, EngagementSpec, E!Spec

-----------------------------------------------------------------------------
(* What a provider is paid for, that a dispute is settled once, and that nothing touches
   a job whose money has moved. *)

\* What WorkChecked says of one job, of the fields it looks at and of the time.
Checked(r, t) ==
    /\ r.state \in {"RUNNING", "VERIFYING", "COMPLETED", "DISPUTED"} => r.started_at <= r.deadline
    /\ r.state \in {"VERIFYING", "COMPLETED", "DISPUTED"} =>
           r.receipt_hash # None /\ r.submitted_at <= r.started_at + r.timeout + GRACE
    /\ r.state \in {"COMPLETED", "DISPUTED"} => r.verifier \notin {r.worker, r.provider}
    /\ r.settled /\ r.state = "COMPLETED" => t >= r.verified_at + r.dispute_seconds
    /\ r.resolved => r.state = "COMPLETED" /\ t >= r.verified_at + r.dispute_seconds

\* WorkChecked is Checked of every job.
LEMMA CheckedJobs == WorkChecked <=> \A j \in Jobs : Checked(job[j], now)
BY Zenon DEF WorkChecked, Checked, SubmitBy, DisputeEnd

\* A step that does not move the clock and writes one job has that job alone to check.
LEMMA CheckedFrame ==
    ASSUME WorkChecked, now' = now, NEW j \in Jobs, OthersSame(j), Checked(job'[j], now)
    PROVE  WorkChecked'
<1>1. \A k \in Jobs : Checked(job'[k], now)
  BY CheckedJobs, Zenon DEF OthersSame
<1>2. QED
  BY <1>1, Zenon DEF WorkChecked, Checked, SubmitBy, DisputeEnd

\* The clock only moves forward, so that a window that is over stays over.
LEMMA CheckedLater ==
    ASSUME TypeOK, WorkChecked, job' = job, now' \in Nat, now' >= now
    PROVE  WorkChecked'
<1>1. ASSUME NEW j \in Jobs
      PROVE  now >= DisputeEnd(j) => now' >= DisputeEnd(j)
  <2>1. DisputeEnd(j) \in Int /\ now \in Int
    BY DEF DisputeEnd, TypeOK, JobAccounts
  <2>2. QED
    BY <2>1
<1>2. QED
  BY <1>1, Zenon DEF WorkChecked, SubmitBy, DisputeEnd

\* Every instruction keeps what the states say about the work.
LEMMA WorkStep == MarketInv /\ WorkChecked /\ [Next]_vars => WorkChecked'
<1> SUFFICES ASSUME MarketInv, WorkChecked, [Next]_vars PROVE WorkChecked'
  BY Zenon
<1>0. TypeOK /\ Lifecycle /\ now \in Nat /\ job \in [Jobs -> JobAccounts]
  BY Zenon DEF MarketInv, TypeOK
<1>1. ASSUME job' = job, now' = now PROVE WorkChecked'
  BY <1>0, <1>1, CheckedLater
<1>2. CASE Tick
  BY <1>0, <1>2, CheckedLater, SMTT(20) DEF Tick
<1>3. CASE AdminStep \/ SupplyStep \/ UNCHANGED vars
  <2>1. AdminStep \/ UNCHANGED vars => job' = job /\ now' = now
    BY Zenon DEF AdminStep, PauseProtocol, UpdateProtocol, vars
  <2>2. ASSUME NEW p \in Providers,
               \/ RegisterProvider(p)
               \/ \E active \in BOOLEAN : UpdateProvider(p, active)
               \/ \E w \in Workers, span \in AuthSpans : AuthorizeWorker(p, w, span)
               \/ \E w \in Workers : RevokeWorker(p, w)
               \/ \E old, new \in Workers, span \in AuthSpans : RotateWorker(p, old, new, span)
               \/ \E m \in Machines, w \in Workers : RegisterMachine(m, p, w)
        PROVE  job' = job /\ now' = now
    BY <2>2, Zenon DEF RegisterProvider, UpdateProvider, AuthorizeWorker, RevokeWorker, RotateWorker,
       RegisterMachine
  <2>3. ASSUME NEW m \in Machines, DeactivateMachine(m) \/ \E w \in Workers : UpdateMachine(m, w)
        PROVE  job' = job /\ now' = now
    BY <2>3, Zenon DEF DeactivateMachine, UpdateMachine
  <2>4. ASSUME NEW o \in Offers,
               \/ \E m \in Machines, t \in OfferTerms : CreateOffer(o, m, t)
               \/ \E paused \in BOOLEAN : PauseOffer(o, paused)
               \/ \E t \in OfferTerms : UpdateOffer(o, t)
               \/ CloseOffer(o)
        PROVE  job' = job /\ now' = now
    BY <2>4, Zenon DEF CreateOffer, PauseOffer, UpdateOffer, CloseOffer
  <2>5. QED
    BY <1>1, <1>3, <2>1, <2>2, <2>3, <2>4, Zenon DEF SupplyStep
<1>4. ASSUME NEW j \in Jobs, MatchStep(j) \/ RunStep(j) PROVE WorkChecked'
  <2> DEFINE r == job[j]
  <2>0. Checked(r, now) /\ r \in JobAccounts
    BY <1>0, CheckedJobs, Zenon
  <2>1. ASSUME NEW b \in Buyers, NEW o \in Orders, CreateJob(j, b, o) PROVE WorkChecked'
    <3>1. job'[j].state = "CREATED" /\ ~job'[j].resolved /\ OthersSame(j) /\ now' = now
      BY <1>0, <2>1, Zenon DEF CreateJob, BlankJob, OthersSame
    <3>2. QED
      BY <3>1, CheckedFrame, Zenon DEF Checked
  <2>2. ASSUME FundJob(j) PROVE WorkChecked'
    <3>1. job'[j].state = "OPEN" /\ job'[j].resolved = r.resolved /\ r.state = "CREATED"
          /\ OthersSame(j) /\ now' = now
      BY <1>0, <2>2 DEF FundJob, JobAccounts, OthersSame
    <3>2. QED
      BY <2>0, <3>1, CheckedFrame, Zenon DEF Checked
  <2>3. ASSUME NEW m, NEW w, NEW price, Assign(j, m, w, price), r.state = "OPEN", now' = now
        PROVE  WorkChecked'
    <3>1. job'[j].state = "ASSIGNED" /\ job'[j].resolved = r.resolved /\ OthersSame(j)
      BY <1>0, <2>3 DEF Assign, JobAccounts, OthersSame
    <3>2. QED
      BY <2>0, <2>3, <3>1, CheckedFrame, Zenon DEF Checked
  <2>4. CASE MatchStep(j)
    BY <1>1, <2>1, <2>2, <2>3, <2>4, ZenonT(60) DEF MatchStep, PlaceBid, CancelBid, AcceptBid, AssignOffer
  <2>5. ASSUME StartJob(j) PROVE WorkChecked'
    <3>1. /\ job'[j] = [r EXCEPT !.started_at = now, !.state = "RUNNING"]
          /\ r.state = "ASSIGNED" /\ now <= r.deadline /\ OthersSame(j) /\ now' = now
      BY <1>0, <2>5, Zenon DEF StartJob, OthersSame
    <3>2. Checked(job'[j], now)
      BY <2>0, <3>1 DEF Checked, JobAccounts
    <3>3. QED
      BY <3>1, <3>2, CheckedFrame, Zenon
  <2>6. ASSUME NEW h \in Receipts, SubmitReceipt(j, h) PROVE WorkChecked'
    <3>1. /\ job'[j] = [r EXCEPT !.receipt_hash = h, !.submitted_at = now, !.state = "VERIFYING"]
          /\ r.state = "RUNNING" /\ now <= r.started_at + r.timeout + GRACE
          /\ OthersSame(j) /\ now' = now /\ h # None
      BY <1>0, <2>6, KeysAssumption, Zenon DEF SubmitReceipt, SubmitBy, OthersSame
    <3>2. Checked(job'[j], now)
      BY <2>0, <3>1 DEF Checked, JobAccounts
    <3>3. QED
      BY <3>1, <3>2, CheckedFrame, Zenon
  <2>7. ASSUME NEW h \in Receipts, NEW passed \in BOOLEAN, SubmitVerification(j, h, passed)
        PROVE  WorkChecked'
    <3>0. ~r.settled
      BY <1>0, <2>7, Zenon DEF SubmitVerification, Lifecycle
    <3>1. /\ job'[j] = [r EXCEPT !.verified_at = now,
                                 !.state = IF passed THEN "COMPLETED" ELSE "FAILED"]
          /\ r.state = "VERIFYING" /\ r.verifier \notin {r.worker, r.provider}
          /\ OthersSame(j) /\ now' = now
      BY <1>0, <2>7, Zenon DEF SubmitVerification, OthersSame
    <3>2. Checked(job'[j], now)
      BY <2>0, <3>0, <3>1, SMTT(20) DEF Checked, JobAccounts
    <3>3. QED
      BY <3>1, <3>2, CheckedFrame, Zenon
  <2>8. ASSUME CancelJob(j) \/ ExpireJob(j) PROVE WorkChecked'
    <3>1. job'[j].state \in {"CANCELLED", "EXPIRED"} /\ job'[j].resolved = r.resolved
          /\ r.state # "COMPLETED" /\ OthersSame(j) /\ now' = now
      BY <1>0, <2>8 DEF CancelJob, ExpireJob, Overdue, JobAccounts, OthersSame
    <3>2. QED
      BY <2>0, <3>1, CheckedFrame, Zenon DEF Checked
  <2>9. ASSUME OpenDispute(j) PROVE WorkChecked'
    <3>1. /\ job'[j] = [r EXCEPT !.state = "DISPUTED"] /\ r.state = "COMPLETED"
          /\ now < r.verified_at + r.dispute_seconds /\ OthersSame(j) /\ now' = now
      BY <1>0, <2>9, Zenon DEF OpenDispute, DisputeEnd, OthersSame
    <3>2. ~r.resolved
      BY <1>0, <2>0, <3>1, SMTT(30) DEF Checked, JobAccounts
    <3>3. Checked(job'[j], now)
      BY <2>0, <3>1, <3>2 DEF Checked, JobAccounts
    <3>4. QED
      BY <3>1, <3>3, CheckedFrame, Zenon
  <2>10. ASSUME NEW award \in Awards, ResolveDispute(j, award) PROVE WorkChecked'
    <3>1. /\ job'[j] = [r EXCEPT !.price = award, !.state = "COMPLETED",
                                 !.verified_at = now - r.dispute_seconds, !.resolved = TRUE]
          /\ r.state = "DISPUTED" /\ OthersSame(j) /\ now' = now
      BY <1>0, <2>10, Zenon DEF ResolveDispute, OthersSame
    <3>2. now >= (now - r.dispute_seconds) + r.dispute_seconds
      BY <1>0, <2>0, SMTT(30) DEF JobAccounts
    <3>3. Checked(job'[j], now)
      BY <2>0, <3>1, <3>2 DEF Checked, JobAccounts
    <3>4. QED
      BY <3>1, <3>3, CheckedFrame, Zenon
  <2>11. ASSUME SettleJob(j) PROVE WorkChecked'
    <3> DEFINE s == split(r.deposit, r.price, r.fee_bps)
    <3>1. /\ job'[j] = [r EXCEPT !.settled = TRUE, !.provider_paid = s.payment,
                                 !.fee_paid = s.fee, !.refunded = s.refund]
          /\ r.state = "COMPLETED" /\ now >= r.verified_at + r.dispute_seconds
          /\ OthersSame(j) /\ now' = now
      BY <1>0, <2>11, ZenonT(60) DEF SettleJob, DisputeEnd, OthersSame
    <3> HIDE DEF s
    <3>2. Checked(job'[j], now)
      BY <2>0, <3>1 DEF Checked, JobAccounts
    <3>3. QED
      BY <3>1, <3>2, CheckedFrame, Zenon
  <2>12. ASSUME RefundJob(j) PROVE WorkChecked'
    <3>1. job'[j].state = "REFUNDED" /\ job'[j].resolved = r.resolved
          /\ r.state # "COMPLETED" /\ OthersSame(j) /\ now' = now
      BY <1>0, <2>12 DEF RefundJob, JobAccounts, OthersSame
    <3>2. QED
      BY <2>0, <3>1, CheckedFrame, Zenon DEF Checked
  <2>13. ASSUME ReleaseMachine(j) PROVE WorkChecked'
    BY <1>1, <2>13, Zenon DEF ReleaseMachine
  <2>14. QED
    BY <1>4, <2>4, <2>5, <2>6, <2>7, <2>8, <2>9, <2>10, <2>11, <2>12, <2>13, Zenon DEF RunStep
<1>5. QED
  BY <1>2, <1>3, <1>4, Zenon DEF Next

\* No job has been checked at first.
LEMMA WorkInit == Init => WorkChecked
<1>1. Init => \A j \in Jobs : job[j].state = "ABSENT" /\ ~job[j].settled /\ ~job[j].resolved
  BY SMTT(30) DEF Init, BlankJob
<1>2. QED
  BY <1>1, ZenonT(60) DEF WorkChecked

\* Every job is accompanied by what its state says about the work.
LEMMA WorkInvariant == Spec => []WorkChecked
BY WorkInit, WorkStep, InitInv, InvStep, PTL DEF Spec

\* settle_job pays only for work that was started by the deadline, committed in time, judged
\* by a third party and undisputed to the end of the job's own window.
THEOREM WorkWasEarned == Spec => []PaidWorkWasEarned
<1>1. WorkChecked => PaidWorkWasEarned
  BY Zenon DEF WorkChecked, PaidWorkWasEarned
<1>2. QED
  BY <1>1, WorkInvariant, PTL

\* A job that resolve_dispute has closed is not disputed again, and can be settled at once:
\* back-dating verified_at ends the window at the resolution.
THEOREM DisputesEnd == Spec => []DisputedOnce
<1>1. WorkChecked => DisputedOnce
  BY Zenon DEF WorkChecked, DisputedOnce
<1>2. QED
  BY <1>1, WorkInvariant, PTL

\* No instruction changes a job after settle_job or refund_job: each effect on a job starts
\* from one whose money has not moved.
THEOREM SettledStays == Spec => SettledIsFinal
<1>1. ASSUME MarketInv, [Next]_vars, NEW j \in Jobs, job[j].settled PROVE job'[j] = job[j]
  <2>1. Effect /\ Lifecycle
    BY <1>1, EffectOfStep, Zenon DEF MarketInv
  <2>2. job[j].state \in {"COMPLETED", "REFUNDED"}
    BY <1>1, <2>1, Zenon DEF Lifecycle
  <2>3. QED
    BY <1>1, <2>1, <2>2, ZenonT(60) DEF Effect, Still, Idles, Creates, Funds, Opens, Assigns, Moves, Pays,
       Returns, Frees, OthersSame
<1>2. MarketInv /\ [Next]_vars => [\A j \in Jobs : job[j].settled => job'[j] = job[j]]_vars
  BY <1>1, Zenon
<1>3. QED
  BY <1>2, MarketInvariant, PTL DEF Spec, SettledIsFinal

-----------------------------------------------------------------------------
(* The instructions that leave jobs and money alone.                      *)

\* A step no token, counter or job sees.
Unseen ==
    /\ UNCHANGED <<job, escrow, wallet>>
    /\ \A m \in Machines :
          /\ machine'[m].completed = machine[m].completed /\ machine'[m].failed = machine[m].failed
          /\ machine'[m].busy = machine[m].busy /\ machine'[m].active_job = machine[m].active_job
          /\ machine[m].provider # None => machine'[m].provider # None
    /\ \A p \in Providers : provider'[p].completed = provider[p].completed

\* The administrator, the clock, and the offers, workers and providers move nothing that is
\* counted; nor do bids and the machine instructions other than register_machine.
LEMMA UnseenStep ==
    ASSUME TypeOK,
           \/ AdminStep \/ Tick \/ UNCHANGED vars
           \/ SupplyStep /\ ~(\E p \in Providers, m \in Machines, w \in Workers : RegisterMachine(m, p, w))
           \/ \E j \in Jobs, p \in Providers : CancelBid(j, p)
           \/ \E j \in Jobs, p \in Providers, w \in Workers, m \in Machines, t \in BidTerms :
                 PlaceBid(j, p, w, m, t)
    PROVE  Unseen
<1>0. /\ machine \in [Machines -> MachineAccounts] /\ provider \in [Providers -> ProviderAccounts]
  BY Zenon DEF TypeOK
<1>1. ASSUME UNCHANGED <<job, escrow, wallet, machine, provider>> PROVE Unseen
  BY <1>1, Zenon DEF Unseen
<1>2. CASE AdminStep \/ Tick \/ UNCHANGED vars
  BY <1>1, <1>2, ZenonT(60) DEF AdminStep, PauseProtocol, UpdateProtocol, Tick, vars, supply
<1>3. CASE \/ \E j \in Jobs, p \in Providers : CancelBid(j, p)
           \/ \E j \in Jobs, p \in Providers, w \in Workers, m \in Machines, t \in BidTerms :
                 PlaceBid(j, p, w, m, t)
  BY <1>1, <1>3 DEF CancelBid, PlaceBid, supply
<1>4. ASSUME NEW p \in Providers,
             RegisterProvider(p) \/ \E active \in BOOLEAN : UpdateProvider(p, active)
      PROVE  Unseen
  BY <1>0, <1>4 DEF RegisterProvider, UpdateProvider, ProviderAccounts, Unseen
<1>5. ASSUME NEW p \in Providers,
             \/ \E w \in Workers, span \in AuthSpans : AuthorizeWorker(p, w, span)
             \/ \E w \in Workers : RevokeWorker(p, w)
             \/ \E old, new \in Workers, span \in AuthSpans : RotateWorker(p, old, new, span)
      PROVE  Unseen
  BY <1>1, <1>5, Zenon DEF AuthorizeWorker, RevokeWorker, RotateWorker
<1>6. ASSUME NEW m \in Machines, DeactivateMachine(m) \/ \E w \in Workers : UpdateMachine(m, w)
      PROVE  Unseen
  BY <1>0, <1>6 DEF DeactivateMachine, UpdateMachine, MachineAccounts, Unseen
<1>7. ASSUME NEW o \in Offers,
             \/ \E m \in Machines, t \in OfferTerms : CreateOffer(o, m, t)
             \/ \E paused \in BOOLEAN : PauseOffer(o, paused)
             \/ \E t \in OfferTerms : UpdateOffer(o, t)
             \/ CloseOffer(o)
      PROVE  Unseen
  BY <1>1, <1>7, Zenon DEF CreateOffer, PauseOffer, UpdateOffer, CloseOffer
<1>8. CASE SupplyStep /\ ~(\E p \in Providers, m \in Machines, w \in Workers : RegisterMachine(m, p, w))
  BY <1>4, <1>5, <1>6, <1>7, <1>8, Zenon DEF SupplyStep
<1>9. QED
  BY <1>2, <1>3, <1>8, Zenon

\* settle_job writes what was paid, and nothing else of the job.
LEMMA SettledAccount ==
    ASSUME TypeOK, NEW j \in Jobs, SettleJob(j)
    PROVE  LET r == job[j]
               q == job'[j] IN
           /\ q.settled /\ r.state = "COMPLETED" /\ q.state = r.state
           /\ q.provider = r.provider /\ q.machine = r.machine /\ q.worker = r.worker
           /\ q.deposit = r.deposit /\ q.price = r.price
           /\ q.buyer = r.buyer /\ q.budget = r.budget /\ q.deadline = r.deadline
           /\ q.timeout = r.timeout /\ q.policy = r.policy /\ q.fee_bps = r.fee_bps
           /\ q.dispute_seconds = r.dispute_seconds /\ q.treasury = r.treasury
           /\ q.verifier = r.verifier /\ q.resolver = r.resolver
           /\ OthersSame(j)
<1>1. job \in [Jobs -> JobAccounts]
  BY Zenon DEF TypeOK
<1>2. PICK payment, fee, refund :
         job' = [job EXCEPT ![j].settled = TRUE, ![j].provider_paid = payment,
                            ![j].fee_paid = fee, ![j].refunded = refund]
  BY Zenon DEF SettleJob
<1>3. job'[j] = [job[j] EXCEPT !.settled = TRUE, !.provider_paid = payment, !.fee_paid = fee,
                               !.refunded = refund]
  BY <1>1, <1>2, Zenon
<1>4. OthersSame(j) /\ job[j].state = "COMPLETED" /\ job[j] \in JobAccounts
  BY <1>1, <1>2, Zenon DEF OthersSame, SettleJob
<1>5. QED
  BY <1>3, <1>4 DEF JobAccounts

-----------------------------------------------------------------------------
(* Terms.                                                                  *)

\* What create_job writes of a job and nothing later touches.
SameTerms(r, q) ==
    /\ q.buyer = r.buyer /\ q.budget = r.budget /\ q.deadline = r.deadline
    /\ q.timeout = r.timeout /\ q.policy = r.policy /\ q.fee_bps = r.fee_bps
    /\ q.dispute_seconds = r.dispute_seconds /\ q.treasury = r.treasury
    /\ q.verifier = r.verifier /\ q.resolver = r.resolver

\* What an assignment writes and nothing later touches, but that the price may go down.
SameParties(r, q) ==
    /\ q.provider = r.provider /\ q.machine = r.machine /\ q.worker = r.worker
    /\ q.deposit = r.deposit /\ q.price <= r.price

\* What TermsFrozen says of the steps of one job.
Kept(r, q) == r.state # "ABSENT" => SameTerms(r, q) /\ (r.machine # None => SameParties(r, q))

\* No instruction writes a job otherwise.
LEMMA KeptStep ==
    ASSUME MarketInv, [Next]_vars, NEW j \in Jobs
    PROVE  Kept(job[j], job'[j])
<1> DEFINE r == job[j]
<1>0. /\ TypeOK /\ Lifecycle /\ job \in [Jobs -> JobAccounts] /\ r \in JobAccounts
      /\ r.price \in Nat
  BY ZenonT(60) DEF MarketInv, TypeOK, JobAccounts
<1>1. ASSUME job'[j] = job[j] PROVE Kept(r, job'[j])
  BY <1>0, <1>1 DEF Kept, SameTerms, SameParties
<1>2. CASE Unseen \/ (\E m \in Machines, p \in Providers, w \in Workers : RegisterMachine(m, p, w))
  BY <1>1, <1>2, Zenon DEF Unseen, RegisterMachine
<1>3. ASSUME NEW k \in Jobs, MatchStep(k) PROVE Kept(r, job'[j])
  <2>1. CASE k # j \/ job' = job
    <3>1. ASSUME NEW b \in Buyers, NEW o \in Orders, CreateJob(k, b, o), k # j
          PROVE  job'[j] = job[j]
      BY <1>0, <3>1, Zenon DEF CreateJob
    <3>2. ASSUME FundJob(k), k # j PROVE job'[j] = job[j]
      BY <1>0, <3>2, Zenon DEF FundJob
    <3>3. ASSUME NEW m, NEW w, NEW price, Assign(k, m, w, price), k # j PROVE job'[j] = job[j]
      BY <1>0, <3>3, Zenon DEF Assign
    <3>4. QED
      BY <1>1, <1>3, <2>1, <3>1, <3>2, <3>3, ZenonT(60) DEF MatchStep, PlaceBid, CancelBid, AcceptBid, AssignOffer
  <2>2. ASSUME NEW b \in Buyers, NEW o \in Orders, CreateJob(j, b, o) PROVE Kept(r, job'[j])
    BY <2>2, Zenon DEF CreateJob, Kept
  <2>3. ASSUME FundJob(j) PROVE Kept(r, job'[j])
    <3>1. SameTerms(r, job'[j]) /\ r.machine = None
      BY <1>0, <2>3, ZenonT(60) DEF FundJob, Lifecycle, SameTerms, JobAccounts
    <3>2. QED
      BY <3>1, Zenon DEF Kept
  <2>4. ASSUME NEW m, NEW w, NEW price, Assign(j, m, w, price), r.state = "OPEN"
        PROVE  Kept(r, job'[j])
    <3>1. SameTerms(r, job'[j]) /\ r.machine = None
      BY <1>0, <2>4, ZenonT(60) DEF Assign, Lifecycle, SameTerms, JobAccounts
    <3>2. QED
      BY <3>1, Zenon DEF Kept
  <2>5. QED
    BY <1>3, <2>1, <2>2, <2>3, <2>4, ZenonT(60) DEF MatchStep, PlaceBid, CancelBid, AcceptBid, AssignOffer
<1>4. ASSUME NEW k \in Jobs, RunStep(k) PROVE Kept(r, job'[j])
  <2>1. CASE k # j \/ job' = job
    BY <1>0, <1>1, <1>4, <2>1, ZenonT(60) DEF RunStep, StartJob, SubmitReceipt, SubmitVerification, CancelJob,
       ExpireJob, OpenDispute, ResolveDispute, SettleJob, RefundJob, ReleaseMachine
  <2>2. ASSUME StartJob(j) \/ CancelJob(j) \/ ExpireJob(j) \/ OpenDispute(j) PROVE Kept(r, job'[j])
    <3>1. SameTerms(r, job'[j])
      BY <1>0, <2>2, SMTT(30) DEF StartJob, CancelJob, ExpireJob, OpenDispute, SameTerms, JobAccounts
    <3>2. SameParties(r, job'[j])
      BY <1>0, <2>2, SMTT(30) DEF StartJob, CancelJob, ExpireJob, OpenDispute, SameParties, JobAccounts
    <3>3. QED
      BY <3>1, <3>2, Zenon DEF Kept
  <2>3. ASSUME NEW h \in Receipts, SubmitReceipt(j, h) PROVE Kept(r, job'[j])
    BY <1>0, <2>3 DEF SubmitReceipt, Kept, SameTerms, SameParties, JobAccounts
  <2>4. ASSUME NEW h \in Receipts, NEW passed \in BOOLEAN, SubmitVerification(j, h, passed)
        PROVE  Kept(r, job'[j])
    BY <1>0, <2>4 DEF SubmitVerification, Kept, SameTerms, SameParties, JobAccounts
  <2>5. ASSUME NEW award \in Awards, ResolveDispute(j, award) PROVE Kept(r, job'[j])
    BY <1>0, <2>5, ZenonT(60) DEF ResolveDispute, Kept, SameTerms, SameParties, JobAccounts
  <2>6. ASSUME SettleJob(j) PROVE Kept(r, job'[j])
    <3>1. r.price <= r.price
      BY <1>0
    <3>2. QED
      BY <1>0, <2>6, <3>1, SettledAccount, Zenon DEF Kept, SameTerms, SameParties
  <2>7. ASSUME RefundJob(j) PROVE Kept(r, job'[j])
    BY <1>0, <2>7 DEF RefundJob, Kept, SameTerms, SameParties, JobAccounts
  <2>8. QED
    BY <1>4, <2>1, <2>2, <2>3, <2>4, <2>5, <2>6, <2>7, Zenon DEF RunStep, ReleaseMachine
<1>5. QED
  <2>1. CASE AdminStep \/ SupplyStep \/ Tick \/ UNCHANGED vars
    BY <1>0, <1>2, <2>1, UnseenStep, Zenon
  <2>2. QED
    BY <1>3, <1>4, <2>1, Zenon DEF Next

\* update_protocol, and every later instruction, leaves the terms a job was created with, and
\* an assigned job its parties; only resolve_dispute changes the price, and only down.
THEOREM TermsStay == Spec => TermsFrozen
<1> DEFINE Frozen ==
      \A j \in Jobs : job[j].state # "ABSENT" =>
        /\ \A f \in {"buyer", "budget", "deadline", "timeout", "policy", "fee_bps",
                     "dispute_seconds", "treasury", "verifier", "resolver"} :
               job'[j][f] = job[j][f]
        /\ job[j].machine # None =>
               /\ \A f \in {"provider", "machine", "worker", "deposit"} : job'[j][f] = job[j][f]
               /\ job'[j].price <= job[j].price
<1>1. ASSUME MarketInv, [Next]_vars PROVE Frozen
  <2>1. \A j \in Jobs : Kept(job[j], job'[j])
    BY <1>1, KeptStep, Zenon
  <2>2. QED
    BY <2>1 DEF Kept, SameTerms, SameParties
<1>2. MarketInv /\ [Next]_vars => [Frozen]_vars
  BY <1>1, Zenon
<1>3. QED
  BY <1>2, MarketInvariant, PTL DEF Spec, TermsFrozen

-----------------------------------------------------------------------------
(* What an agent draws on a day stays within the limit of its policy, and with agents
   acting the market keeps everything it promises without them. *)

\* A second later it is the same day or a later one.
LEMMA DayGoesOn ==
    ASSUME NEW n \in Nat, NEW d \in Nat \ {0}
    PROVE  n \div d \in Nat /\ n \div d <= (n + 1) \div d
  BY SMTT(20)

\* A day up to one that is over is over too.
LEMMA EarlierDay ==
    ASSUME NEW d \in Nat, NEW n \in Nat, NEW m \in Nat, d <= n, n <= m, m # n
    PROVE  d <= m /\ d # m
OBVIOUS

\* No instruction of the market moves the clock, and a tick moves it by a second.
LEMMA ClockStep == Next => now' = now \/ now' = now + 1
<1> SUFFICES ASSUME Next PROVE now' = now \/ now' = now + 1
  BY Zenon
<1>1. CASE AdminStep \/ Tick
  BY <1>1, Zenon DEF AdminStep, PauseProtocol, UpdateProtocol, Tick
<1>2. ASSUME NEW p \in Providers,
             \/ RegisterProvider(p)
             \/ \E active \in BOOLEAN : UpdateProvider(p, active)
             \/ \E w \in Workers, span \in AuthSpans : AuthorizeWorker(p, w, span)
             \/ \E w \in Workers : RevokeWorker(p, w)
             \/ \E old, new \in Workers, span \in AuthSpans : RotateWorker(p, old, new, span)
             \/ \E m \in Machines, w \in Workers : RegisterMachine(m, p, w)
      PROVE  now' = now
  BY <1>2, Zenon DEF RegisterProvider, UpdateProvider, AuthorizeWorker, RevokeWorker, RotateWorker,
     RegisterMachine
<1>3. ASSUME NEW m \in Machines, DeactivateMachine(m) \/ \E w \in Workers : UpdateMachine(m, w)
      PROVE  now' = now
  BY <1>3, Zenon DEF DeactivateMachine, UpdateMachine
<1>4. ASSUME NEW o \in Offers,
             \/ \E m \in Machines, t \in OfferTerms : CreateOffer(o, m, t)
             \/ \E paused \in BOOLEAN : PauseOffer(o, paused)
             \/ \E t \in OfferTerms : UpdateOffer(o, t)
             \/ CloseOffer(o)
      PROVE  now' = now
  BY <1>4, Zenon DEF CreateOffer, PauseOffer, UpdateOffer, CloseOffer
<1>5. ASSUME NEW j \in Jobs, MatchStep(j) PROVE now' = now
  BY <1>5, ZenonT(60) DEF MatchStep, CreateJob, FundJob, PlaceBid, CancelBid, AcceptBid, AssignOffer
<1>6. ASSUME NEW j \in Jobs, RunStep(j) PROVE now' = now
  BY <1>6, Zenon DEF RunStep, StartJob, SubmitReceipt, SubmitVerification, CancelJob, ExpireJob,
     OpenDispute, ResolveDispute, SettleJob, RefundJob, ReleaseMachine
<1>7. QED
  BY <1>1, <1>2, <1>3, <1>4, <1>5, <1>6, Zenon DEF Next, SupplyStep

\* The account both policy instructions write.
LEMMA TermsWritten ==
    ASSUME now \in Nat, NEW t \in PolicyTerms, validate_agent_policy(t),
           NEW day \in Nat, NEW spent \in Nat
    PROVE  WithTerms(t, day, spent) \in PolicyAccounts /\ WithTerms(t, day, spent).expires_at > 0
<1>1. /\ t.daily_spend_limit \in Nat /\ t.single_job_limit \in Nat /\ t.max_runtime_seconds \in Nat
      /\ t.required_verification \in Nat /\ t.allowed_specs \in SUBSET Specs
      /\ now + t.span \in Nat /\ now + t.span > 0
  <2>1. t \in [daily_spend_limit: Nat, single_job_limit: Nat, max_runtime_seconds: Nat,
              required_verification: Nat, allowed_specs: SUBSET Specs, span: Nat]
    BY AgentAssumption, Zenon DEF AgentAssumption
  <2>2. t.span \in Nat /\ t.span > 0
    BY <2>1, Zenon DEF validate_agent_policy
  <2>3. now + t.span \in Nat /\ now + t.span > 0
    BY <2>2, SMTT(30)
  <2>4. QED
    BY <2>1, <2>3, Zenon
<1>2. QED
  BY <1>1, Zenon DEF WithTerms, PolicyAccounts

\* SpendInv for one owner and agent, of the account, what was drawn, and the day.
Spent(r, x, day) ==
    /\ r.day_index <= day /\ r.daily_spent <= r.daily_spend_limit
    /\ ~(r.expires_at > 0) => r.daily_spent = 0
    /\ x = IF r.day_index = day THEN r.daily_spent ELSE 0

\* Only the account of one owner and agent is written, and no time passes.
LEMMA SpentFrame ==
    ASSUME SpendInv, now' = now, NEW b \in Buyers, NEW a \in Agents,
           NEW r \in PolicyAccounts, NEW x \in Nat, Spent(r, x, now \div DAY),
           agent_policy' = [agent_policy EXCEPT ![b][a] = r],
           drawn' = [drawn EXCEPT ![b][a] = x]
    PROVE  SpendInv'
<1>1. /\ agent_policy' \in [Buyers -> [Agents -> PolicyAccounts]]
      /\ drawn' \in [Buyers -> [Agents -> Nat]]
  BY Zenon DEF SpendInv
<1>2. ASSUME NEW c \in Buyers, NEW e \in Agents
      PROVE  Spent(agent_policy'[c][e], drawn'[c][e], now \div DAY)
  <2>1. CASE c = b /\ e = a
    BY <2>1, Zenon DEF SpendInv
  <2>2. CASE ~(c = b /\ e = a)
    <3>1. agent_policy'[c][e] = agent_policy[c][e] /\ drawn'[c][e] = drawn[c][e]
      BY <2>2, Zenon DEF SpendInv
    <3>2. QED
      BY <3>1, Zenon DEF SpendInv, Spent, HasPolicy, SpentToday
  <2>3. QED
    BY <2>1, <2>2, Zenon
<1>3. QED
  BY <1>1, <1>2, SMTT(30) DEF SpendInv, Spent, HasPolicy, SpentToday

\* Every step of owners, agents and the market keeps the counters and what was drawn equal.
LEMMA SpendStep ==
    ASSUME DAY > 0, SpendInv, [AgentNext]_allVars
    PROVE  SpendInv'
<1>0. DAY \in Nat \ {0} /\ now \in Nat /\ now \div DAY \in Nat
  <2>1. DAY \in Nat /\ now \in Nat
    BY BoundsAssumption, Zenon DEF BoundsAssumption, SpendInv
  <2>2. DAY \in Nat \ {0}
    BY <2>1
  <2>3. QED
    BY <2>1, <2>2, DayGoesOn, Zenon
<1>1. ASSUME UNCHANGED <<now, agent_policy, drawn>> PROVE SpendInv'
  BY <1>1, Zenon DEF SpendInv, HasPolicy, SpentToday
<1>2. CASE MarketStep
  <2>1. UNCHANGED agent_policy /\ (now' = now \/ now' = now + 1)
    BY <1>2, ClockStep, Zenon DEF MarketStep
  <2>2. now' \in Nat /\ now \div DAY <= now' \div DAY /\ now' \div DAY \in Nat
    BY <1>0, <2>1, DayGoesOn
  <2>3. CASE now' \div DAY = now \div DAY
    <3>1. drawn' = drawn /\ now' \in Nat /\ agent_policy' = agent_policy
      BY <1>2, <2>1, <2>2, <2>3, Zenon DEF MarketStep
    <3>2. \A b \in Buyers, a \in Agents :
             SpentToday(b, a)' = SpentToday(b, a) /\ HasPolicy(b, a)' = HasPolicy(b, a)
      BY <2>3, <3>1, Zenon DEF SpentToday, HasPolicy
    <3>3. QED
      BY <2>3, <3>1, <3>2, Zenon DEF SpendInv
  <2>4. CASE now' \div DAY # now \div DAY
    <3>1. drawn' = [b \in Buyers |-> [a \in Agents |-> 0]]
      BY <1>2, <2>4, Zenon DEF MarketStep
    <3>2. ASSUME NEW b \in Buyers, NEW a \in Agents
          PROVE  /\ agent_policy[b][a].day_index <= now' \div DAY
                 /\ agent_policy[b][a].day_index # now' \div DAY
      <4>1. agent_policy[b][a].day_index \in Nat
            /\ agent_policy[b][a].day_index <= now \div DAY
        BY Zenon DEF SpendInv, PolicyAccounts
      <4>2. QED
        BY <1>0, <2>2, <2>4, <4>1, EarlierDay, Zenon
    <3>3. QED
      BY <2>1, <2>2, <3>1, <3>2, Zenon DEF SpendInv, HasPolicy, SpentToday
  <2>5. QED
    BY <2>3, <2>4, Zenon
<1>3. ASSUME NEW b \in Buyers, NEW a \in Agents, PolicyStep(b, a) PROVE SpendInv'
  <2> DEFINE p == agent_policy[b][a]
  <2>0. /\ p \in PolicyAccounts /\ drawn[b][a] \in Nat /\ Spent(p, drawn[b][a], now \div DAY)
        /\ p.day_index \in Nat /\ p.daily_spent \in Nat
        /\ drawn = [drawn EXCEPT ![b][a] = drawn[b][a]]
    BY Zenon DEF SpendInv, Spent, HasPolicy, SpentToday, PolicyAccounts
  <2>1. ASSUME NEW t \in PolicyTerms, CreateAgentPolicy(b, a, t) PROVE SpendInv'
    <3> DEFINE r == WithTerms(t, now \div DAY, 0)
    <3>1. r \in PolicyAccounts /\ r.expires_at > 0
      BY <1>0, <2>1, TermsWritten, Zenon DEF CreateAgentPolicy
    <3>2. drawn[b][a] = 0
      BY <2>0, <2>1, Zenon DEF CreateAgentPolicy, HasPolicy, Spent
    <3>3. r.day_index = now \div DAY /\ r.daily_spent = 0 /\ r.daily_spend_limit \in Nat
      BY <3>1, Zenon DEF WithTerms, PolicyAccounts
    <3>4. Spent(r, drawn[b][a], now \div DAY)
      BY <1>0, <3>1, <3>2, <3>3, SMTT(30) DEF Spent
    <3>5. QED
      BY <2>0, <2>1, <3>1, <3>4, SpentFrame, Zenon DEF CreateAgentPolicy, vars
  <2>2. ASSUME NEW t \in PolicyTerms, UpdateAgentPolicy(b, a, t) PROVE SpendInv'
    <3> DEFINE r == WithTerms(t, p.day_index, p.daily_spent)
    <3>1. r \in PolicyAccounts /\ r.expires_at > 0
      BY <1>0, <2>0, <2>2, TermsWritten, Zenon DEF UpdateAgentPolicy
    <3>2. /\ r.day_index = p.day_index /\ r.daily_spent = p.daily_spent
          /\ r.daily_spend_limit >= p.daily_spent
      BY <2>2, Zenon DEF UpdateAgentPolicy, WithTerms
    <3>3. r.daily_spend_limit \in Nat
      BY <3>1, Zenon DEF PolicyAccounts
    <3> HIDE DEF r
    <3>4. Spent(r, drawn[b][a], now \div DAY)
      BY <2>0, <3>1, <3>2, <3>3, Zenon DEF Spent
    <3>5. agent_policy' = [agent_policy EXCEPT ![b][a] = r] /\ drawn' = drawn /\ now' = now
      BY <2>2, Zenon DEF UpdateAgentPolicy, vars, r
    <3>6. QED
      BY <2>0, <3>1, <3>4, <3>5, SpentFrame, Zenon
  <2>3. ASSUME RevokeAgentPolicy(b, a) PROVE SpendInv'
    <3> DEFINE r == [p EXCEPT !.active = FALSE]
    <3>1. r \in PolicyAccounts /\ Spent(r, drawn[b][a], now \div DAY)
      BY <2>0, Zenon DEF Spent, PolicyAccounts
    <3>2. agent_policy' = [agent_policy EXCEPT ![b][a] = r] /\ drawn' = drawn /\ now' = now
      BY <2>3, Zenon DEF RevokeAgentPolicy, vars
    <3> HIDE DEF r
    <3>3. QED
      BY <2>0, <3>1, <3>2, SpentFrame, Zenon
  <2>4. ASSUME NEW amount \in Allowances, Approve(b, a, amount) PROVE SpendInv'
    BY <1>1, <2>4, Zenon DEF Approve, vars
  <2>5. QED
    BY <1>3, <2>1, <2>2, <2>3, <2>4, Zenon DEF PolicyStep
<1>4. ASSUME NEW a \in Agents, NEW j \in Jobs, NEW b \in Buyers, NEW o \in Orders, NEW s \in Specs,
             CreateAgentJob(j, b, a, o, s)
      PROVE  SpendInv'
  <2> DEFINE p == agent_policy[b][a]
             spent == SpentToday(b, a) + o.budget
             r == [p EXCEPT !.day_index = now \div DAY, !.daily_spent = spent]
  <2>1. /\ p \in PolicyAccounts /\ drawn[b][a] \in Nat /\ drawn[b][a] = SpentToday(b, a)
        /\ o.budget \in Nat /\ p.expires_at > now
    BY <1>4, InputsAssumption, Zenon DEF SpendInv, CreateAgentJob, MayAct, InputsAssumption
  <2>2. spent \in Nat /\ spent <= p.daily_spend_limit /\ spent = drawn[b][a] + o.budget
    BY <1>4, <2>1 DEF CreateAgentJob
  <2>3. agent_policy' = [agent_policy EXCEPT ![b][a] = r]
        /\ drawn' = [drawn EXCEPT ![b][a] = drawn[b][a] + o.budget] /\ now' = now
    BY <1>4, ZenonT(60) DEF CreateAgentJob, SpendInv
  <2> HIDE DEF spent
  <2>4. r \in PolicyAccounts
    BY <1>0, <2>1, <2>2, Zenon DEF PolicyAccounts
  <2>5. /\ r.day_index = now \div DAY /\ r.daily_spent = spent
        /\ r.daily_spend_limit = p.daily_spend_limit /\ r.expires_at = p.expires_at
        /\ p.expires_at \in Nat
    BY <2>1, Zenon DEF PolicyAccounts
  <2> HIDE DEF r
  <2>6. Spent(r, spent, now \div DAY)
    BY <1>0, <2>1, <2>2, <2>5 DEF Spent
  <2>7. QED
    BY <2>2, <2>3, <2>4, <2>6, SpentFrame, Zenon
<1>5. ASSUME NEW a \in Agents, NEW j \in Jobs,
             CancelAgentJob(j, a) \/ \E p \in Providers : AcceptAgentBid(j, p, a)
      PROVE  SpendInv'
  BY <1>1, <1>5, Zenon DEF CancelAgentJob, CancelJob, AcceptAgentBid, AcceptBid, agentVars
<1>6. CASE UNCHANGED allVars
  BY <1>1, <1>6, Zenon DEF allVars, vars, agentVars
<1>7. QED
  BY <1>2, <1>3, <1>4, <1>5, <1>6, Zenon DEF AgentNext, AgentStep

\* create_agent_job never lets an agent draw more on a day than the policy's limit at that
\* moment, and update_agent_policy never sets a limit below what was drawn; whatever the
\* owner creates, updates, revokes and approves in between, and across midnight.
THEOREM DailyLimitHolds ==
    ASSUME DAY > 0
    PROVE  AgentSpec => []DailySpendCapped
<1>1. AgentInit => SpendInv
  <2> SUFFICES ASSUME AgentInit PROVE SpendInv
    BY Zenon
  <2>1. DAY \in Nat \ {0}
    BY BoundsAssumption, SMTT(20)
  <2>2. now = 0 /\ 0 \div DAY = 0
    BY <2>1, SMTT(20) DEF AgentInit, Init
  <2>3. BlankPolicy \in PolicyAccounts
    BY Zenon DEF BlankPolicy, PolicyAccounts
  <2>4. /\ agent_policy = [b \in Buyers |-> [a \in Agents |-> BlankPolicy]]
        /\ drawn = [b \in Buyers |-> [a \in Agents |-> 0]]
    BY Zenon DEF AgentInit
  <2>5. \A b \in Buyers, a \in Agents :
          /\ agent_policy[b][a].day_index = 0 /\ agent_policy[b][a].daily_spent = 0
          /\ agent_policy[b][a].daily_spend_limit = 0 /\ drawn[b][a] = 0
    BY <2>4, Zenon DEF BlankPolicy
  <2>6. agent_policy \in [Buyers -> [Agents -> PolicyAccounts]] /\ drawn \in [Buyers -> [Agents -> Nat]]
    BY <2>3, <2>4, Zenon
  <2>7. QED
    BY <2>2, <2>5, <2>6 DEF SpendInv, SpentToday
<1>2. SpendInv => DailySpendCapped
  <2> SUFFICES ASSUME SpendInv, NEW b \in Buyers, NEW a \in Agents
               PROVE  /\ drawn[b][a] = SpentToday(b, a)
                      /\ drawn[b][a] <= agent_policy[b][a].daily_spend_limit
    BY Zenon DEF DailySpendCapped
  <2>1. agent_policy[b][a].daily_spend_limit \in Nat
    BY Zenon DEF SpendInv, PolicyAccounts
  <2>2. QED
    BY <2>1, SMTT(20) DEF SpendInv, SpentToday
<1>3. SpendInv /\ [AgentNext]_allVars => SpendInv'
  BY SpendStep, Zenon
<1>4. QED
  BY <1>1, <1>2, <1>3, PTL DEF AgentSpec

-----------------------------------------------------------------------------
(* The market with agents.                                                 *)

\* Agents and owners add one instruction to those of Market: the others send them, or leave
\* the market alone.
LEMMA AgentStepKinds ==
    ASSUME [AgentNext]_allVars
    PROVE  \/ [Next]_vars
           \/ \E j \in Jobs, b \in Buyers, a \in Agents, r \in Orders, s \in Specs :
                 CreateAgentJob(j, b, a, r, s)
<1>1. CASE MarketStep \/ UNCHANGED allVars
  BY <1>1, Zenon DEF MarketStep, allVars
<1>2. ASSUME NEW b \in Buyers, NEW a \in Agents, PolicyStep(b, a) PROVE UNCHANGED vars
  BY <1>2, Zenon DEF PolicyStep, CreateAgentPolicy, UpdateAgentPolicy, RevokeAgentPolicy, Approve
<1>3. ASSUME NEW a \in Agents, NEW j \in Jobs, NEW p \in Providers, AcceptAgentBid(j, p, a)
      PROVE  Next
  BY <1>3, Zenon DEF AcceptAgentBid, MatchStep, Next
<1>4. ASSUME NEW a \in Agents, NEW j \in Jobs, CancelAgentJob(j, a) PROVE Next
  BY <1>4, Zenon DEF CancelAgentJob, RunStep, Next
<1>5. QED
  BY <1>1, <1>2, <1>3, <1>4, Zenon DEF AgentNext, AgentStep

\* The Job account that create_agent_job writes.
LEMMA AgentJobTyped ==
    ASSUME TypeOK, NEW b \in Buyers, NEW r \in Orders
    PROVE  AgentJob(b, r) \in JobAccounts
<1> DEFINE c == config.terms
           J == [BlankJob EXCEPT !.state = "OPEN", !.buyer = b, !.budget = r.budget,
                                 !.deposit = r.budget, !.deadline = now + r.span,
                                 !.timeout = r.timeout, !.policy = r.policy]
<1>1. /\ r.budget \in Nat /\ now + r.span \in Nat /\ r.timeout \in Nat /\ r.policy \in Nat
      /\ b \in Keys
  BY InputsAssumption, KeysAssumption DEF TypeOK
<1>2. /\ c.fee_bps \in Nat /\ c.dispute_seconds \in Nat
      /\ c.treasury \in Keys /\ c.verifier \in Keys /\ c.resolver \in Keys
  BY Zenon DEF TypeOK, ProtocolConfigs, ConfigTerms
<1>3. BlankJob \in JobAccounts
  BY StateNames, SMTT(30) DEF JobAccounts, BlankJob
<1>4. J \in JobAccounts
  BY <1>1, <1>3, StateNames, ZenonT(60) DEF JobAccounts
<1>5. AgentJob(b, r) = [J EXCEPT !.fee_bps = c.fee_bps, !.dispute_seconds = c.dispute_seconds,
                                 !.treasury = c.treasury, !.verifier = c.verifier,
                                 !.resolver = c.resolver]
  BY Zenon DEF AgentJob
<1> HIDE DEF J, c
<1>6. [J EXCEPT !.fee_bps = c.fee_bps, !.dispute_seconds = c.dispute_seconds,
                !.treasury = c.treasury, !.verifier = c.verifier,
                !.resolver = c.resolver] \in JobAccounts
  BY <1>2, <1>4, TermsTyped, Zenon
<1>7. QED
  BY <1>5, <1>6, Zenon

\* create_agent_job keeps every account well typed and linked, and opens a funded job.
LEMMA OpensByAgent ==
    ASSUME MarketInv, NEW j \in Jobs, NEW b \in Buyers, NEW a \in Agents, NEW r \in Orders,
           NEW s \in Specs, CreateAgentJob(j, b, a, r, s)
    PROVE  TypeOK' /\ AccountsLinked' /\ Opens(j)
<1>0. /\ TypeOK /\ AccountsLinked /\ job \in [Jobs -> JobAccounts] /\ escrow \in [Jobs -> Nat]
      /\ wallet \in [Keys -> Nat] /\ b \in Keys
  BY KeysAssumption, Zenon DEF MarketInv, TypeOK
<1>1. r.budget \in Nat \ {0} /\ wallet[b] >= r.budget
  BY InputsAssumption DEF CreateAgentJob
<1>2. /\ job' = [job EXCEPT ![j] = AgentJob(b, r)]
      /\ wallet' = [wallet EXCEPT ![b] = @ - r.budget]
      /\ escrow' = [escrow EXCEPT ![j] = @ + r.budget]
      /\ UNCHANGED <<now, config, provider, auth, machine, offer, bid>>
  BY Zenon DEF CreateAgentJob, supply
<1>3. job' \in [Jobs -> JobAccounts]
  BY <1>0, <1>2, AgentJobTyped, Zenon
<1>4. escrow' \in [Jobs -> Nat] /\ wallet' \in [Keys -> Nat]
  BY <1>0, <1>1, <1>2, SMTT(20)
<1>5. TypeOK'
  BY <1>0, <1>2, <1>3, <1>4, Zenon DEF TypeOK
<1>6. AccountsLinked'
  BY <1>0, <1>2, Zenon DEF AccountsLinked
<1>7. job'[j] = AgentJob(b, r) /\ OthersSame(j)
  BY <1>0, <1>2, Zenon DEF OthersSame
<1>8. job[j].state = "ABSENT"
  BY Zenon DEF CreateAgentJob
<1>9. Opens(j)
  <2>1. /\ job'[j].state = "OPEN" /\ job'[j].machine = None /\ job'[j].deposit = r.budget
        /\ ~job'[j].settled
        /\ job'[j].provider_paid = 0 /\ job'[j].fee_paid = 0 /\ job'[j].refunded = 0
    <3>1. job'[j] = AgentJob(b, r)
      BY <1>7, Zenon
    <3>2. LET q == AgentJob(b, r) IN
          /\ q.state = "OPEN" /\ q.machine = None /\ q.deposit = r.budget /\ ~q.settled
          /\ q.provider_paid = 0 /\ q.fee_paid = 0 /\ q.refunded = 0
      BY Zenon DEF AgentJob, BlankJob
    <3>3. QED
      BY <3>1, <3>2, Zenon
  <2>2. QED
    BY <1>1, <1>2, <1>7, <1>8, <2>1, ZenonT(40) DEF Opens
<1>10. QED
  BY <1>5, <1>6, <1>9, Zenon

-----------------------------------------------------------------------------
(* The books close: the tokens in wallets and escrows stay the same in number, and the
   counters of machines and providers count the jobs. First, what a step does to them. *)

\* A job goes on, none of its money moves and its parties stay.
GoesOn(j) ==
    /\ ~job[j].settled /\ ~job'[j].settled /\ job[j].state # "ABSENT"
    /\ job'[j].buyer = job[j].buyer /\ job'[j].treasury = job[j].treasury
    /\ job'[j].machine = job[j].machine
    /\ OthersSame(j)
    /\ UNCHANGED <<machine, provider, escrow, wallet>>

\* A job is given an idle, registered machine.
Occupies(j, m) ==
    /\ ~job[j].settled /\ ~job'[j].settled /\ job[j].state # "ABSENT"
    /\ job'[j].buyer = job[j].buyer /\ job'[j].treasury = job[j].treasury
    /\ job'[j].machine = m
    /\ OthersSame(j) /\ OtherMachinesSame(m)
    /\ ~machine[m].busy /\ machine'[m].busy /\ machine'[m].active_job = j
    /\ machine[m].provider # None /\ machine'[m].provider = machine[m].provider
    /\ machine'[m].completed = machine[m].completed /\ machine'[m].failed = machine[m].failed
    /\ UNCHANGED <<provider, escrow, wallet>>

Booking ==
    \/ Unseen
    \/ \E m \in Machines, p \in Providers, w \in Workers : RegisterMachine(m, p, w)
    \/ \E j \in Jobs : \/ \E b \in Buyers, r \in Orders : CreateJob(j, b, r)
                       \/ FundJob(j) \/ GoesOn(j)
                       \/ \E m \in Machines : Occupies(j, m)
                       \/ SettleJob(j) \/ RefundJob(j) \/ ReleaseMachine(j)

\* The assignment both accept_bid and assign_offer make.
LEMMA OccupiesByAssign ==
    ASSUME TypeOK, Lifecycle, NEW j \in Jobs, NEW m \in Machines, NEW w, NEW price,
           Assign(j, m, w, price), UNCHANGED <<provider, escrow, wallet>>,
           job[j].state = "OPEN", ~machine[m].busy, machine[m].provider # None
    PROVE  Occupies(j, m)
<1>1. ~job[j].settled
  BY Zenon DEF Lifecycle
<1>2. /\ job'[j].settled = job[j].settled /\ job'[j].machine = m
      /\ job'[j].buyer = job[j].buyer /\ job'[j].treasury = job[j].treasury /\ OthersSame(j)
  BY DEF TypeOK, JobAccounts, Assign, OthersSame
<1>3. /\ machine'[m].busy /\ machine'[m].active_job = j
      /\ machine'[m].provider = machine[m].provider
      /\ machine'[m].completed = machine[m].completed /\ machine'[m].failed = machine[m].failed
      /\ OtherMachinesSame(m)
  BY Zenon DEF TypeOK, MachineAccounts, Assign, OtherMachinesSame
<1>4. QED
  BY <1>1, <1>2, <1>3, Zenon DEF Occupies

\* Every step is one of these.
LEMMA BookingOfStep == MarketInv /\ [Next]_vars => Booking
<1> SUFFICES ASSUME MarketInv, [Next]_vars PROVE Booking
  BY Zenon
<1>0. TypeOK /\ AccountsLinked /\ Lifecycle /\ job \in [Jobs -> JobAccounts]
  BY Zenon DEF MarketInv, TypeOK
<1>1. CASE \/ AdminStep \/ Tick \/ UNCHANGED vars
           \/ SupplyStep /\ ~(\E p \in Providers, m \in Machines, w \in Workers : RegisterMachine(m, p, w))
  BY <1>0, <1>1, UnseenStep, Zenon DEF Booking
<1>2. CASE \E p \in Providers, m \in Machines, w \in Workers : RegisterMachine(m, p, w)
  BY <1>2, Zenon DEF Booking
<1>3. ASSUME NEW j \in Jobs, MatchStep(j) PROVE Booking
  <2>1. ASSUME NEW p \in Providers, AcceptBid(j, p) PROVE Booking
    <3> DEFINE m == bid[j][p].machine
    <3>1. m \in Machines /\ machine[m].provider # None
      <4>1. bid[j][p] \in BidAccounts /\ bid[j][p].active /\ machine[m].provider = p
        BY <1>0, <2>1, Zenon DEF AcceptBid, TypeOK
      <4>2. m # None /\ p # None
        BY <1>0, <4>1, KeysAssumption, Zenon DEF AccountsLinked
      <4>3. QED
        BY <4>1, <4>2, Zenon DEF BidAccounts
    <3>2. Occupies(j, m)
      BY <1>0, <2>1, <3>1, OccupiesByAssign, Zenon DEF AcceptBid, Available
    <3>3. QED
      BY <3>1, <3>2, Zenon DEF Booking
  <2>2. ASSUME NEW o \in Offers, AssignOffer(j, o) PROVE Booking
    <3> DEFINE m == offer[o].machine
    <3>1. m \in Machines /\ machine[m].provider # None
      BY <1>0, <2>2, Zenon DEF AssignOffer, TypeOK, OfferAccounts, AccountsLinked
    <3>2. Occupies(j, m)
      BY <1>0, <2>2, <3>1, OccupiesByAssign, Zenon DEF AssignOffer, Available
    <3>3. QED
      BY <3>1, <3>2, Zenon DEF Booking
  <2>3. QED
    BY <1>0, <1>3, <2>1, <2>2, UnseenStep, Zenon DEF MatchStep, Booking
<1>4. ASSUME NEW j \in Jobs, RunStep(j) PROVE Booking
  <2> USE DEF GoesOn, OthersSame, supply, JobAccounts
  <2>1. job[j].state \notin {"COMPLETED", "REFUNDED"} => ~job[j].settled
    BY <1>0, Zenon DEF Lifecycle
  <2>2. StartJob(j) => GoesOn(j)
    BY <1>0, <2>1 DEF StartJob
  <2>3. ASSUME NEW r \in Receipts, SubmitReceipt(j, r) PROVE GoesOn(j)
    BY <1>0, <2>1, <2>3 DEF SubmitReceipt
  <2>4. ASSUME NEW r \in Receipts, NEW passed \in BOOLEAN, SubmitVerification(j, r, passed)
        PROVE  GoesOn(j)
    BY <1>0, <2>1, <2>4 DEF SubmitVerification
  <2>5. CancelJob(j) => GoesOn(j)
    BY <1>0, <2>1 DEF CancelJob
  <2>6. ExpireJob(j) => GoesOn(j)
    BY <1>0, <2>1 DEF ExpireJob, Overdue
  <2>7. OpenDispute(j) => GoesOn(j)
    BY <1>0, <2>1 DEF OpenDispute
  <2>8. ASSUME NEW award \in Awards, ResolveDispute(j, award) PROVE GoesOn(j)
    BY <1>0, <2>1, <2>8, SMTT(20) DEF ResolveDispute
  <2>9. QED
    BY <1>4, <2>2, <2>3, <2>4, <2>5, <2>6, <2>7, <2>8, Zenon DEF RunStep, Booking
<1>5. QED
  BY <1>1, <1>2, <1>3, <1>4, Zenon DEF Next

\* The parties of a job are never blanked, and its machine stays registered.
LEMMA KnownStep ==
    ASSUME MarketInv, JobsOnRegistered, PartiesKnown, Booking
    PROVE  JobsOnRegistered' /\ PartiesKnown'
<1>0. /\ TypeOK /\ job \in [Jobs -> JobAccounts] /\ machine \in [Machines -> MachineAccounts]
      /\ None \notin Machines /\ None \notin Providers
      /\ \A j \in Jobs : job[j].machine # None => job[j].machine \in Machines
  BY KeysAssumption, Zenon DEF MarketInv, TypeOK, JobAccounts
<1>1. CASE Unseen
  BY <1>0, <1>1, Zenon DEF Unseen, JobsOnRegistered, PartiesKnown
<1>2. ASSUME NEW m \in Machines, NEW p \in Providers, NEW w \in Workers, RegisterMachine(m, p, w)
      PROVE  JobsOnRegistered' /\ PartiesKnown'
  <2>1. \A x \in Machines : machine[x].provider # None => machine'[x].provider # None
    BY <1>0, <1>2, Zenon DEF RegisterMachine, BlankMachine
  <2>2. job' = job
    BY <1>2, Zenon DEF RegisterMachine
  <2>3. QED
    BY <1>0, <2>1, <2>2, Zenon DEF JobsOnRegistered, PartiesKnown
<1>3. ASSUME NEW j \in Jobs, NEW b \in Buyers, NEW r \in Orders, CreateJob(j, b, r)
      PROVE  JobsOnRegistered' /\ PartiesKnown'
  <2>1. config.terms.treasury \in Keys /\ b \in Keys
    BY <1>0, KeysAssumption, Zenon DEF TypeOK, ProtocolConfigs, ConfigTerms
  <2>2. /\ job'[j].buyer = b /\ job'[j].treasury = config.terms.treasury /\ job'[j].machine = None
        /\ OthersSame(j) /\ machine' = machine
    BY <1>0, <1>3, Zenon DEF CreateJob, BlankJob, OthersSame, supply
  <2>3. QED
    BY <2>1, <2>2, Zenon DEF OthersSame, JobsOnRegistered, PartiesKnown
<1>4. ASSUME NEW j \in Jobs, GoesOn(j) PROVE JobsOnRegistered' /\ PartiesKnown'
  BY <1>4, ZenonT(60) DEF GoesOn, OthersSame, JobsOnRegistered, PartiesKnown
<1>5. ASSUME NEW j \in Jobs, NEW m \in Machines, Occupies(j, m)
      PROVE  JobsOnRegistered' /\ PartiesKnown'
  <2>1. \A x \in Machines : machine'[x].provider = machine[x].provider
    BY <1>5, Zenon DEF Occupies, OtherMachinesSame
  <2>2. QED
    BY <1>0, <1>5, <2>1, SMTT(30) DEF Occupies, OthersSame, JobsOnRegistered, PartiesKnown
<1>6. ASSUME NEW j \in Jobs, FundJob(j) \/ RefundJob(j) PROVE JobsOnRegistered' /\ PartiesKnown'
  <2>1. /\ job[j].state # "ABSENT" /\ job'[j].buyer = job[j].buyer
        /\ job'[j].treasury = job[j].treasury /\ job'[j].machine = job[j].machine
        /\ OthersSame(j) /\ machine' = machine
    BY <1>0, <1>6, SMTT(20) DEF FundJob, RefundJob, OthersSame, JobAccounts, supply
  <2>2. QED
    BY <2>1, Zenon DEF OthersSame, JobsOnRegistered, PartiesKnown
<1>7. ASSUME NEW j \in Jobs, SettleJob(j) PROVE JobsOnRegistered' /\ PartiesKnown'
  <2>1. /\ job[j].state # "ABSENT" /\ job'[j].buyer = job[j].buyer
        /\ job'[j].treasury = job[j].treasury /\ job'[j].machine = job[j].machine
        /\ OthersSame(j)
    BY <1>0, <1>7, SettledAccount, Zenon
  <2>2. \A x \in Machines : machine'[x].provider = machine[x].provider
    BY <1>0, <1>7, ZenonT(60) DEF SettleJob, MachineAccounts
  <2>3. QED
    BY <1>0, <2>1, <2>2 DEF OthersSame, JobsOnRegistered, PartiesKnown
<1>8. ASSUME NEW j \in Jobs, ReleaseMachine(j) PROVE JobsOnRegistered' /\ PartiesKnown'
  <2>1. \A x \in Machines : machine'[x].provider = machine[x].provider
    BY <1>0, <1>8, Zenon DEF ReleaseMachine, MachineAccounts
  <2>2. QED
    BY <1>0, <1>8, <2>1, ZenonT(60) DEF ReleaseMachine, JobsOnRegistered, PartiesKnown
<1>9. QED
  BY <1>1, <1>2, <1>3, <1>4, <1>5, <1>6, <1>7, <1>8, Zenon DEF Booking

-----------------------------------------------------------------------------
(* Tokens.                                                                 *)

INSTANCE TotalsProofs

\* fund_job and create_agent_job move the budget from the buyer's account to the escrow.
LEMMA IntoEscrow ==
    ASSUME TokensConserved, NEW k \in Keys, NEW j \in Jobs, NEW n \in Nat,
           Deposits(wallet', wallet, Keys, k, n), Deposits(escrow, escrow', Jobs, j, n)
    PROVE  TokensConserved'
<1>1. /\ Total(wallet', Keys) \in Nat /\ Total(wallet, Keys) = Total(wallet', Keys) + n
      /\ Total(escrow, Jobs) \in Nat /\ Total(escrow', Jobs) = Total(escrow, Jobs) + n
  BY FiniteAssumption, TotalDeposit, Zenon
<1>2. QED
  BY <1>1 DEF TokensConserved

\* refund_job moves it back.
LEMMA OutOfEscrow ==
    ASSUME TokensConserved, NEW k \in Keys, NEW j \in Jobs, NEW n \in Nat,
           Deposits(wallet, wallet', Keys, k, n), Deposits(escrow', escrow, Jobs, j, n)
    PROVE  TokensConserved'
<1>1. /\ Total(wallet, Keys) \in Nat /\ Total(wallet', Keys) = Total(wallet, Keys) + n
      /\ Total(escrow', Jobs) \in Nat /\ Total(escrow, Jobs) = Total(escrow', Jobs) + n
  BY FiniteAssumption, TotalDeposit, Zenon
<1>2. QED
  BY <1>1 DEF TokensConserved

\* The three transfers of settle_job add up, whichever of the destinations are one account.
LEMMA CreditTotal ==
    ASSUME TypeOK, NEW j \in Jobs, NEW s, s.payment \in Nat, s.fee \in Nat, s.refund \in Nat,
           job[j].provider \in Keys, job[j].treasury \in Keys, job[j].buyer \in Keys
    PROVE  Total(Credit(j, s), Keys) = Total(wallet, Keys) + (s.payment + s.fee + s.refund)
<1> DEFINE w1 == [k \in Keys |-> wallet[k] + (IF k = job[j].provider THEN s.payment ELSE 0)]
           w2 == [k \in Keys |-> w1[k] + (IF k = job[j].treasury THEN s.fee ELSE 0)]
           w3 == [k \in Keys |-> w2[k] + (IF k = job[j].buyer THEN s.refund ELSE 0)]
<1>1. Deposits(wallet, w1, Keys, job[j].provider, s.payment)
  <2>1. wallet \in [Keys -> Nat]
    BY Zenon DEF TypeOK
  <2>2. QED
    BY <2>1, SMTT(20) DEF Deposits
<1>2. Deposits(w1, w2, Keys, job[j].treasury, s.fee)
  <2>1. w1 \in [Keys -> Nat]
    BY <1>1, Zenon DEF Deposits
  <2> HIDE DEF w1
  <2>2. QED
    BY <2>1, SMTT(30) DEF Deposits
<1>3. Deposits(w2, w3, Keys, job[j].buyer, s.refund)
  <2>1. w2 \in [Keys -> Nat]
    BY <1>2, Zenon DEF Deposits
  <2> HIDE DEF w2
  <2>2. QED
    BY <2>1, SMTT(20) DEF Deposits
<1>4. Credit(j, s) = w3
  BY Zenon DEF Credit
<1> HIDE DEF w1, w2, w3
<1>5. /\ Total(wallet, Keys) \in Nat /\ Total(w1, Keys) = Total(wallet, Keys) + s.payment
      /\ Total(w2, Keys) = Total(w1, Keys) + s.fee /\ Total(w3, Keys) = Total(w2, Keys) + s.refund
  BY <1>1, <1>2, <1>3, FiniteAssumption, TotalDeposit, ZenonT(60)
<1>6. QED
  BY <1>4, <1>5, SMTT(20)

\* No step makes or loses a token.
LEMMA TokensStep ==
    ASSUME MarketInv, PartiesKnown, TokensConserved, Booking
    PROVE  TokensConserved'
<1>0. /\ TypeOK /\ job \in [Jobs -> JobAccounts] /\ wallet \in [Keys -> Nat]
      /\ escrow \in [Jobs -> Nat]
      /\ \A j \in Jobs : job[j].budget \in Nat /\ job[j].deposit \in Nat /\ job[j].price \in Nat
                         /\ job[j].fee_bps \in Nat
  BY Zenon DEF MarketInv, TypeOK, JobAccounts
<1>1. ASSUME UNCHANGED <<wallet, escrow>> PROVE TokensConserved'
  BY <1>1, Zenon DEF TokensConserved
<1>2. ASSUME NEW j \in Jobs, FundJob(j) PROVE TokensConserved'
  <2>1. job[j].buyer \in Keys
    BY <1>2, Zenon DEF FundJob, PartiesKnown
  <2>2. Deposits(wallet', wallet, Keys, job[j].buyer, job[j].budget)
    BY <1>0, <1>2, <2>1, SMTT(30) DEF FundJob, Deposits
  <2>3. Deposits(escrow, escrow', Jobs, j, job[j].budget)
    BY <1>0, <1>2, SMTT(20) DEF FundJob, Deposits
  <2>4. QED
    BY <1>0, <2>1, <2>2, <2>3, IntoEscrow, Zenon
<1>3. ASSUME NEW j \in Jobs, RefundJob(j) PROVE TokensConserved'
  <2>1. job[j].buyer \in Keys
    BY <1>3, Zenon DEF RefundJob, PartiesKnown
  <2>2. Deposits(wallet, wallet', Keys, job[j].buyer, job[j].deposit)
    BY <1>0, <1>3, <2>1, SMTT(30) DEF RefundJob, Deposits
  <2>3. Deposits(escrow', escrow, Jobs, j, job[j].deposit)
    BY <1>0, <1>3, SMTT(20) DEF RefundJob, Deposits
  <2>4. QED
    BY <1>0, <2>1, <2>2, <2>3, OutOfEscrow, Zenon
<1>4. ASSUME NEW j \in Jobs, SettleJob(j) PROVE TokensConserved'
  <2> DEFINE s == split(job[j].deposit, job[j].price, job[j].fee_bps)
  <2>1. /\ s.payment \in Nat /\ s.fee \in Nat /\ s.refund \in Nat
        /\ s.payment + s.fee + s.refund = job[j].deposit
    BY <1>0, <1>4, SplitTyped, ZenonT(60) DEF SettleJob
  <2>2. /\ escrow' = [escrow EXCEPT ![j] = @ - (s.payment + s.fee + s.refund)]
        /\ escrow[j] >= s.payment + s.fee + s.refund /\ wallet' = Credit(j, s)
    BY <1>4, ZenonT(40) DEF SettleJob
  <2> HIDE DEF s
  <2>3. Engaged(j) /\ job[j].state = "COMPLETED"
    BY <1>4, Zenon DEF SettleJob, Engaged
  <2>4. job[j].provider \in Keys /\ job[j].treasury \in Keys /\ job[j].buyer \in Keys
    <3>1. /\ job[j].machine \in Machines /\ machine[job[j].machine].busy
          /\ machine[job[j].machine].provider = job[j].provider
      BY <2>3, Zenon DEF MarketInv, ExclusiveReservation, EngagedMachineStable
    <3>2. job[j].provider \in Providers
      BY <1>0, <3>1, Zenon DEF MarketInv, AccountsLinked, JobAccounts
    <3>3. QED
      BY <2>3, <3>2, KeysAssumption, Zenon DEF PartiesKnown
  <2>5. Total(wallet', Keys) = Total(wallet, Keys) + (s.payment + s.fee + s.refund)
    BY <1>0, <2>1, <2>2, <2>4, CreditTotal, Zenon
  <2>6. Deposits(escrow', escrow, Jobs, j, job[j].deposit)
    BY <1>0, <2>1, <2>2, SMTT(20) DEF Deposits
  <2>7. Total(escrow', Jobs) \in Nat /\ Total(escrow, Jobs) = Total(escrow', Jobs) + job[j].deposit
    BY <1>0, <2>6, FiniteAssumption, TotalDeposit, SMTT(30)
  <2>8. Total(wallet, Keys) \in Nat
    BY <1>0, FiniteAssumption, TotalType, Zenon
  <2>9. QED
    BY <1>0, <2>1, <2>5, <2>7, <2>8, SMTT(20) DEF TokensConserved
<1>5. QED
  BY <1>1, <1>2, <1>3, <1>4, ZenonT(60) DEF Booking, Unseen, RegisterMachine, CreateJob, GoesOn, Occupies,
     ReleaseMachine

-----------------------------------------------------------------------------
(* Counters.                                                               *)

\* No job's money moves, and a job whose money has moved is not touched.
NoneEnds ==
    \A k \in Jobs : (job'[k].settled <=> job[k].settled) /\ (job[k].settled => job'[k] = job[k])

\* Then the same jobs are paid; and the same are released where the machine still waits for
\* the same job, or for one whose money has not moved.
LEMMA SameEnds ==
    ASSUME NoneEnds
    PROVE  /\ \A m : PaidOn(m)' = PaidOn(m)
           /\ \A p : PaidTo(p)' = PaidTo(p)
           /\ \A m : (\A k \in Jobs : job[k].settled =>
                         ((machine'[m].busy /\ machine'[m].active_job = k)
                             <=> (machine[m].busy /\ machine[m].active_job = k)))
                     => ReleasedFrom(m)' = ReleasedFrom(m)
BY Zenon DEF NoneEnds, PaidOn, PaidTo, ReleasedFrom

\* The sets the counters count are finite, and one more job is one more.
LEMMA OneMore ==
    ASSUME NEW S \in SUBSET Jobs, NEW j, j \notin S
    PROVE  Cardinality(S) \in Nat /\ Cardinality(S \cup {j}) = Cardinality(S) + 1
BY FiniteAssumption, FS_Subset, FS_AddElement, FS_CardinalityType, Zenon

\* settle_job counts the job it pays, release_machine the job it takes off its machine, and
\* no other step counts.
LEMMA CountersStep ==
    ASSUME MarketInv, JobsOnRegistered, CountersAgree, Booking
    PROVE  CountersAgree'
<1>0. /\ TypeOK /\ job \in [Jobs -> JobAccounts] /\ machine \in [Machines -> MachineAccounts]
      /\ provider \in [Providers -> ProviderAccounts] /\ None \notin Machines
  BY KeysAssumption, Zenon DEF MarketInv, TypeOK
<1>1. ASSUME /\ \A m \in Machines : /\ machine'[m].completed = machine[m].completed
                                    /\ machine'[m].failed = machine[m].failed
                                    /\ PaidOn(m)' = PaidOn(m) /\ ReleasedFrom(m)' = ReleasedFrom(m)
             /\ \A p \in Providers : /\ provider'[p].completed = provider[p].completed
                                     /\ PaidTo(p)' = PaidTo(p)
      PROVE  CountersAgree'
  BY <1>1, Zenon DEF CountersAgree
<1>2. CASE Unseen
  <2>1. NoneEnds
    BY <1>2, Zenon DEF Unseen, NoneEnds
  <2>2. QED
    BY <1>1, <1>2, <2>1, SameEnds, Zenon DEF Unseen
<1>3. ASSUME NEW m \in Machines, NEW p \in Providers, NEW w \in Workers, RegisterMachine(m, p, w)
      PROVE  CountersAgree'
  <2>1. /\ job' = job /\ provider' = provider /\ OtherMachinesSame(m)
        /\ machine'[m].completed = 0 /\ machine'[m].failed = 0 /\ ~machine'[m].busy
    BY <1>0, <1>3, Zenon DEF RegisterMachine, BlankMachine, OtherMachinesSame
  <2>2. \A j \in Jobs : job[j].machine # m
    BY <1>0, <1>3, Zenon DEF RegisterMachine, JobsOnRegistered
  <2>3. PaidOn(m)' = {} /\ ReleasedFrom(m)' = {}
    BY <2>1, <2>2, Zenon DEF PaidOn, ReleasedFrom
  <2>4. /\ \A x \in Machines \ {m} : PaidOn(x)' = PaidOn(x) /\ ReleasedFrom(x)' = ReleasedFrom(x)
        /\ \A q \in Providers : PaidTo(q)' = PaidTo(q)
    BY <2>1, Zenon DEF PaidOn, ReleasedFrom, PaidTo, OtherMachinesSame
  <2>5. QED
    BY <2>1, <2>3, <2>4, FS_EmptySet, Zenon DEF CountersAgree, OtherMachinesSame
<1>4. ASSUME NEW j \in Jobs, (\E b \in Buyers, r \in Orders : CreateJob(j, b, r)) \/ FundJob(j) \/ GoesOn(j)
      PROVE  CountersAgree'
  <2>1. ~job[j].settled /\ ~job'[j].settled /\ OthersSame(j) /\ UNCHANGED <<machine, provider>>
    <3>1. job[j].state \in {"ABSENT", "CREATED"} => ~job[j].settled
      BY Zenon DEF MarketInv, Lifecycle
    <3>2. ASSUME NEW b \in Buyers, NEW r \in Orders, CreateJob(j, b, r)
          PROVE  /\ ~job[j].settled /\ ~job'[j].settled /\ OthersSame(j)
                 /\ UNCHANGED <<machine, provider>>
      BY <1>0, <3>1, <3>2, ZenonT(60) DEF CreateJob, BlankJob, OthersSame, supply
    <3>3. ASSUME FundJob(j)
          PROVE  /\ ~job[j].settled /\ ~job'[j].settled /\ OthersSame(j)
                 /\ UNCHANGED <<machine, provider>>
      BY <1>0, <3>1, <3>3, SMTT(30) DEF FundJob, OthersSame, supply, JobAccounts
    <3>4. QED
      BY <1>4, <3>2, <3>3, Zenon DEF GoesOn
  <2>2. NoneEnds
    BY <2>1, Zenon DEF NoneEnds, OthersSame
  <2>3. QED
    BY <1>1, <2>1, <2>2, SameEnds, Zenon
<1>5. ASSUME NEW j \in Jobs, NEW m \in Machines, Occupies(j, m) PROVE CountersAgree'
  <2>1. NoneEnds
    BY <1>5, Zenon DEF Occupies, NoneEnds, OthersSame
  <2>2. \A x \in Machines, k \in Jobs : job[k].settled =>
           ((machine'[x].busy /\ machine'[x].active_job = k)
               <=> (machine[x].busy /\ machine[x].active_job = k))
    BY <1>5 DEF Occupies, OtherMachinesSame
  <2>3. QED
    BY <1>1, <1>5, <2>1, <2>2, SameEnds, ZenonT(60) DEF Occupies, OtherMachinesSame
<1>6. ASSUME NEW j \in Jobs, SettleJob(j) PROVE CountersAgree'
  <2>1. job[j].state = "COMPLETED" /\ ~job[j].settled /\ Engaged(j)
    BY <1>6, Zenon DEF SettleJob, Engaged
  <2>2. PICK m \in Machines : /\ m = job[j].machine /\ machine[m].busy /\ machine[m].active_job = j
                              /\ machine[m].provider = job[j].provider
    BY <2>1, Zenon DEF MarketInv, ExclusiveReservation, EngagedMachineStable
  <2>3. PICK p \in Providers : p = job[j].provider
    BY <1>0, <2>2, ZenonT(60) DEF MarketInv, AccountsLinked, JobAccounts
  <2>4. /\ job'[j].settled /\ job'[j].state = "COMPLETED" /\ job'[j].machine = m
        /\ job'[j].provider = p /\ OthersSame(j)
    <3>1. /\ job'[j].settled /\ job'[j].state = job[j].state /\ job'[j].machine = job[j].machine
          /\ job'[j].provider = job[j].provider /\ OthersSame(j)
      BY <1>0, <1>6, SettledAccount, Zenon DEF MarketInv
    <3>2. QED
      BY <2>1, <2>2, <2>3, <3>1, Zenon
  <2>5. /\ machine'[m].completed = machine[m].completed + 1 /\ machine'[m].failed = machine[m].failed
        /\ ~machine'[m].busy /\ OtherMachinesSame(m)
    BY <1>0, <1>6, <2>2, ZenonT(60) DEF SettleJob, OtherMachinesSame, MachineAccounts
  <2>6. /\ provider'[p].completed = provider[p].completed + 1
        /\ \A q \in Providers \ {p} : provider'[q] = provider[q]
    BY <1>0, <1>6, <2>3, Zenon DEF SettleJob, ProviderAccounts
  <2>7. /\ PaidOn(m)' = PaidOn(m) \cup {j} /\ j \notin PaidOn(m)
        /\ \A x \in Machines \ {m} : PaidOn(x)' = PaidOn(x)
    BY <2>1, <2>2, <2>4, ZenonT(60) DEF PaidOn, OthersSame
  <2>8. /\ PaidTo(p)' = PaidTo(p) \cup {j} /\ j \notin PaidTo(p)
        /\ \A q \in Providers \ {p} : PaidTo(q)' = PaidTo(q)
    BY <2>1, <2>3, <2>4, Zenon DEF PaidTo, OthersSame
  <2>9. \A x \in Machines : ReleasedFrom(x)' = ReleasedFrom(x)
    <3>1. ReleasedFrom(m)' = ReleasedFrom(m)
      BY <2>1, <2>2, <2>4, <2>5, ZenonT(60) DEF ReleasedFrom, OthersSame
    <3>2. ASSUME NEW x \in Machines \ {m} PROVE ReleasedFrom(x)' = ReleasedFrom(x)
      BY <2>1, <2>4, <2>5, ZenonT(60) DEF ReleasedFrom, OthersSame, OtherMachinesSame
    <3>3. QED
      BY <3>1, <3>2, Zenon
  <2>10. /\ Cardinality(PaidOn(m) \cup {j}) = Cardinality(PaidOn(m)) + 1
         /\ Cardinality(PaidTo(p) \cup {j}) = Cardinality(PaidTo(p)) + 1
    <3>1. PaidOn(m) \in SUBSET Jobs /\ PaidTo(p) \in SUBSET Jobs
      BY Zenon DEF PaidOn, PaidTo
    <3>2. QED
      BY <2>7, <2>8, <3>1, OneMore, Zenon
  <2>11. /\ machine'[m].completed = Cardinality(PaidOn(m)')
         /\ \A x \in Machines \ {m} : machine'[x].completed = Cardinality(PaidOn(x)')
    BY <2>2, <2>5, <2>7, <2>10, ZenonT(60) DEF CountersAgree, OtherMachinesSame
  <2>12. \A x \in Machines : machine'[x].failed = Cardinality(ReleasedFrom(x)')
    BY <2>2, <2>5, <2>9, SMTT(30) DEF CountersAgree, OtherMachinesSame
  <2>13. /\ provider'[p].completed = Cardinality(PaidTo(p)')
         /\ \A q \in Providers \ {p} : provider'[q].completed = Cardinality(PaidTo(q)')
    BY <2>3, <2>6, <2>8, <2>10, ZenonT(60) DEF CountersAgree
  <2>14. QED
    BY <2>11, <2>12, <2>13, Zenon DEF CountersAgree
<1>7. ASSUME NEW j \in Jobs, RefundJob(j) PROVE CountersAgree'
  <2>1. /\ ~job[j].settled /\ job'[j].state = "REFUNDED" /\ job'[j].machine = job[j].machine
        /\ OthersSame(j) /\ UNCHANGED <<machine, provider>>
    BY <1>0, <1>7, SMTT(30) DEF RefundJob, OthersSame, JobAccounts, supply
  <2>2. job[j].machine \in Machines =>
           machine[job[j].machine].busy /\ machine[job[j].machine].active_job = j
    BY <1>0, <1>7, Zenon DEF RefundJob, MarketInv, Lifecycle, Engaged, ExclusiveReservation
  <2>3. \A x \in Machines : PaidOn(x)' = PaidOn(x) /\ ReleasedFrom(x)' = ReleasedFrom(x)
    BY <2>1, <2>2, ZenonT(40) DEF PaidOn, ReleasedFrom, OthersSame
  <2>4. \A p \in Providers : PaidTo(p)' = PaidTo(p)
    BY <2>1, Zenon DEF PaidTo, OthersSame
  <2>5. QED
    BY <1>1, <2>1, <2>3, <2>4, ZenonT(60)
<1>8. ASSUME NEW j \in Jobs, ReleaseMachine(j) PROVE CountersAgree'
  <2>1. PICK m \in Machines :
        /\ m = job[j].machine /\ job[j].settled /\ job[j].state = "REFUNDED"
        /\ machine[m].busy /\ machine[m].active_job = j
        /\ job' = job /\ provider' = provider
    BY <1>0, <1>8, ZenonT(40) DEF ReleaseMachine, JobAccounts
  <2>2. /\ machine'[m].failed = machine[m].failed + 1 /\ machine'[m].completed = machine[m].completed
        /\ ~machine'[m].busy /\ OtherMachinesSame(m)
    BY <1>0, <1>8, <2>1, ZenonT(60) DEF ReleaseMachine, OtherMachinesSame, MachineAccounts
  <2>3. NoneEnds
    BY <2>1, Zenon DEF NoneEnds
  <2>4. /\ ReleasedFrom(m)' = ReleasedFrom(m) \cup {j} /\ j \notin ReleasedFrom(m)
        /\ \A x \in Machines \ {m} : ReleasedFrom(x)' = ReleasedFrom(x)
    BY <2>1, <2>2, Zenon DEF ReleasedFrom, OtherMachinesSame
  <2>5. Cardinality(ReleasedFrom(m) \cup {j}) = Cardinality(ReleasedFrom(m)) + 1
    <3>1. ReleasedFrom(m) \in SUBSET Jobs
      BY Zenon DEF ReleasedFrom
    <3>2. QED
      BY <2>4, <3>1, OneMore, Zenon
  <2>6. /\ machine'[m].failed = Cardinality(ReleasedFrom(m)')
        /\ \A x \in Machines \ {m} : machine'[x].failed = Cardinality(ReleasedFrom(x)')
    BY <2>1, <2>2, <2>4, <2>5, ZenonT(60) DEF CountersAgree, OtherMachinesSame
  <2>7. \A x \in Machines : machine'[x].completed = Cardinality(PaidOn(x)')
    <3>1. \A x \in Machines : machine'[x].completed = machine[x].completed
      BY <2>2, Zenon DEF OtherMachinesSame
    <3>2. \A x \in Machines : PaidOn(x)' = PaidOn(x)
      BY <2>3, SameEnds, Zenon
    <3>3. QED
      BY <3>1, <3>2, Zenon DEF CountersAgree
  <2>8. QED
    BY <2>1, <2>3, <2>6, <2>7, SameEnds, Zenon DEF CountersAgree
<1>9. QED
  BY <1>2, <1>3, <1>4, <1>5, <1>6, <1>7, <1>8, Zenon DEF Booking

\* In the initial state every token is in a buyer's account, and nothing is counted.
LEMMA InitAccounts == Init => AccountsInv
<1> SUFFICES ASSUME Init PROVE AccountsInv
  BY Zenon
<1>1. JobsOnRegistered /\ PartiesKnown
  BY Zenon DEF Init, BlankJob, JobsOnRegistered, PartiesKnown
<1>2. TokensConserved
  <2>1. Total(wallet, Keys) = Endowment * Cardinality(Buyers)
    <3>1. \A k \in Keys : wallet[k] = IF k \in Buyers THEN Endowment ELSE 0
      BY Zenon DEF Init
    <3>2. Buyers \in SUBSET Keys /\ Endowment \in Nat
      BY KeysAssumption, BoundsAssumption, Zenon
    <3>3. QED
      BY <3>1, <3>2, FiniteAssumption, TotalEqual, Zenon
  <2>2. Total(escrow, Jobs) = 0
    BY FiniteAssumption, TotalZero, Zenon DEF Init
  <2>3. Endowment * Cardinality(Buyers) \in Nat
    BY FiniteAssumption, KeysAssumption, BoundsAssumption, FS_Subset, FS_CardinalityType, SMTT(20)
  <2>4. QED
    BY <2>1, <2>2, <2>3 DEF TokensConserved
<1>3. CountersAgree
  <2>1. \A m : PaidOn(m) = {} /\ ReleasedFrom(m) = {} /\ PaidTo(m) = {}
    BY Zenon DEF Init, BlankJob, PaidOn, ReleasedFrom, PaidTo
  <2>2. QED
    BY <2>1, FS_EmptySet, Zenon DEF Init, BlankMachine, CountersAgree
<1>4. QED
  BY <1>1, <1>2, <1>3, InitInv, Zenon DEF AccountsInv, Accounted

\* And every step keeps the books closed.
LEMMA AccountsStep == AccountsInv /\ [Next]_vars => AccountsInv'
BY InvStep, BookingOfStep, KnownStep, TokensStep, CountersStep, Zenon DEF AccountsInv, Accounted

\* For any number of keys, machines and jobs, and any prices and fees: no token is made or
\* lost, and settle_job and release_machine count every job exactly once.
THEOREM BooksClose == Spec => []Accounted
<1>1. AccountsInv => Accounted
  BY Zenon DEF AccountsInv
<1>2. QED
  BY <1>1, InitAccounts, AccountsStep, PTL DEF Spec

-----------------------------------------------------------------------------
(* The books and the engagement, with agents.                              *)

\* It moves the budget from the owner to the escrow, and counts nothing.
LEMMA AgentAccounts ==
    ASSUME AccountsInv, NEW j \in Jobs, NEW b \in Buyers, NEW a \in Agents, NEW r \in Orders,
           NEW s \in Specs, CreateAgentJob(j, b, a, r, s)
    PROVE  JobsOnRegistered' /\ PartiesKnown' /\ Accounted'
<1>0. /\ MarketInv /\ TypeOK /\ Lifecycle /\ b \in Keys /\ config.terms.treasury \in Keys
      /\ wallet \in [Keys -> Nat] /\ escrow \in [Jobs -> Nat] /\ job \in [Jobs -> JobAccounts]
  BY KeysAssumption, Zenon DEF AccountsInv, MarketInv, TypeOK, ProtocolConfigs, ConfigTerms
<1>1. r.budget \in Nat /\ wallet[b] >= r.budget /\ job[j].state = "ABSENT"
  BY InputsAssumption, Zenon DEF CreateAgentJob
<1>2. /\ job'[j] = AgentJob(b, r) /\ OthersSame(j)
      /\ wallet' = [wallet EXCEPT ![b] = @ - r.budget]
      /\ escrow' = [escrow EXCEPT ![j] = @ + r.budget]
      /\ machine' = machine /\ provider' = provider
  BY <1>0, Zenon DEF CreateAgentJob, OthersSame, supply
<1>3. JobsOnRegistered' /\ PartiesKnown'
  <2>1. /\ job'[j].machine = None /\ job'[j].buyer = b
        /\ job'[j].treasury = config.terms.treasury
    <3>1. /\ AgentJob(b, r).machine = None /\ AgentJob(b, r).buyer = b
          /\ AgentJob(b, r).treasury = config.terms.treasury
      BY Zenon DEF AgentJob, BlankJob
    <3>2. QED
      BY <1>2, <3>1, Zenon
  <2>2. JobsOnRegistered /\ PartiesKnown /\ \A i \in Jobs \ {j} : job'[i] = job[i]
    BY <1>2, Zenon DEF AccountsInv, OthersSame
  <2>3. JobsOnRegistered'
    BY <1>2, <2>1, <2>2, Zenon DEF JobsOnRegistered
  <2>4. PartiesKnown'
    BY <1>0, <2>1, <2>2, Zenon DEF PartiesKnown
  <2>5. QED
    BY <2>3, <2>4, Zenon
<1>4. TokensConserved'
  <2>1. Deposits(wallet', wallet, Keys, b, r.budget)
    BY <1>0, <1>1, <1>2, SMTT(20) DEF Deposits
  <2>2. Deposits(escrow, escrow', Jobs, j, r.budget)
    BY <1>0, <1>1, <1>2, SMTT(30) DEF Deposits
  <2>3. QED
    BY <1>0, <1>1, <2>1, <2>2, IntoEscrow, ZenonT(60) DEF AccountsInv, Accounted
<1>5. CountersAgree'
  <2>1. NoneEnds
    <3>1. ~job[j].settled /\ ~job'[j].settled
      <4>1. ~AgentJob(b, r).settled
        BY Zenon DEF AgentJob, BlankJob
      <4>2. ~job[j].settled
        BY <1>0, <1>1 DEF Lifecycle
      <4>3. QED
        BY <1>2, <4>1, <4>2, Zenon
    <3>2. QED
      BY <1>2, <3>1, Zenon DEF NoneEnds, OthersSame
  <2>2. QED
    BY <1>2, <2>1, SameEnds, Zenon DEF AccountsInv, Accounted, CountersAgree
<1>6. QED
  BY <1>3, <1>4, <1>5, Zenon DEF Accounted

\* Everything proved about the market alone holds of it with agents.
AgentMarketInv == AccountsInv /\ WorkChecked

\* Every step of the market with agents keeps it.
LEMMA AgentMarketStep == AgentMarketInv /\ [AgentNext]_allVars => AgentMarketInv'
<1> SUFFICES ASSUME AgentMarketInv, [AgentNext]_allVars PROVE AgentMarketInv'
  BY Zenon
<1>0. AccountsInv /\ MarketInv /\ WorkChecked
  BY Zenon DEF AgentMarketInv, AccountsInv
<1>1. CASE [Next]_vars
  BY <1>0, <1>1, AccountsStep, WorkStep, ZenonT(60) DEF AgentMarketInv
<1>2. ASSUME NEW j \in Jobs, NEW b \in Buyers, NEW a \in Agents, NEW r \in Orders, NEW s \in Specs,
             CreateAgentJob(j, b, a, r, s)
      PROVE  AgentMarketInv'
  <2>1. TypeOK' /\ AccountsLinked' /\ Opens(j)
    BY <1>0, <1>2, OpensByAgent, Zenon
  <2>2. Effect
    BY <2>1, Zenon DEF Effect
  <2>3. MarketInv'
    BY <1>0, <2>1, <2>2, LifecycleStep, ReservedStep, MoneyStep, ZenonT(60) DEF MarketInv, Reserved
  <2>4. WorkChecked'
    <3>1. job'[j] = AgentJob(b, r) /\ now' = now
      BY <1>0, <1>2, Zenon DEF CreateAgentJob, MarketInv, TypeOK
    <3>2. Checked(job'[j], now)
      <4>1. AgentJob(b, r).state = "OPEN" /\ ~AgentJob(b, r).resolved
        BY Zenon DEF AgentJob, BlankJob
      <4>2. QED
        BY <3>1, <4>1, Zenon DEF Checked
    <3>3. QED
      BY <1>0, <2>1, <3>1, <3>2, CheckedFrame, ZenonT(60) DEF Opens
  <2>5. QED
    BY <1>0, <1>2, <2>3, <2>4, AgentAccounts, ZenonT(60) DEF AgentMarketInv, AccountsInv
<1>3. QED
  BY <1>1, <1>2, AgentStepKinds, ZenonT(60)

\* With agents that create, assign and cancel jobs for the owners of tokens, machines are
\* still reserved for one job, every escrow is backed, the books close, and only checked
\* work is paid: create_agent_job, which is create_job and fund_job in one instruction,
\* skips none of what those two establish.
THEOREM AgentsKeepMarket ==
    AgentSpec => [](MarketInv /\ Accounted /\ PaidWorkWasEarned /\ DisputedOnce)
<1>1. AgentInit => AgentMarketInv
  BY InitAccounts, WorkInit, Zenon DEF AgentInit, AgentMarketInv
<1>2. AgentMarketInv => MarketInv /\ Accounted /\ PaidWorkWasEarned /\ DisputedOnce
  BY Zenon DEF AgentMarketInv, AccountsInv, WorkChecked, PaidWorkWasEarned, DisputedOnce
<1>3. QED
  BY <1>1, <1>2, AgentMarketStep, PTL DEF AgentSpec

\* And the market with agents is still an escrow that holds, pays and returns: the agents'
\* instructions are deposits, holds and steps Engagement does not see.
THEOREM AgentsImplementEngagement == AgentSpec => EngagementSpec
<1>1. AgentInit => E!Init
  BY EngagementInit, Zenon DEF AgentInit
<1>2. MarketInv /\ [AgentNext]_allVars => [E!Next]_(E!vars)
  <2>1. ASSUME MarketInv, [AgentNext]_allVars PROVE Effect
    BY <2>1, AgentStepKinds, EffectOfStep, OpensByAgent, Zenon DEF Effect
  <2>2. QED
    BY <2>1, EngagementStep, Zenon
<1>3. QED
  BY <1>1, <1>2, AgentsKeepMarket, PTL DEF AgentSpec, EngagementSpec, E!Spec

=============================================================================
