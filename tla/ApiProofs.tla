------------------------------ MODULE ApiProofs ------------------------------
(***************************************************************************)
(* What the API decides and tells holds for any numbers of processes,      *)
(* messages, workers, bids and offers, and for any limits of time.         *)
(***************************************************************************)
EXTENDS Api, TLAPS

-----------------------------------------------------------------------------
(* The cases *)

\* A behaviour stays in its case, whose component takes the steps.
LEMMA CaseSteps ==
  ASSUME [ApiNext]_all
  PROVE  /\ scenario' = scenario
         /\ scenario \in {"alone", "overlap"} =>
              \/ Hidden!Next /\ (scenario = "alone" => OneCall')
              \/ UNCHANGED Hidden!vars
         /\ scenario \in {"delayed", "replaced"} => Beats!Next \/ UNCHANGED Beats!vars
         /\ scenario = "benchmark" => Bench!Next \/ UNCHANGED Bench!vars
         /\ scenario = "offers" => Next \/ UNCHANGED vars
         /\ scenario # "offers" => UNCHANGED vars
         /\ scenario = "run" => Buyer!Next \/ UNCHANGED Buyer!vars
         /\ scenario = "replicas" => Replicated!FormNext \/ UNCHANGED Replicated!vars
<1>1. CASE UNCHANGED all
  BY <1>1, Zenon DEF all, service, client, challenge, heartbeat, benchmark, sdk, web, vars,
              Hidden!vars, Beats!vars, Bench!vars, Buyer!vars, Replicated!vars
<1>2. CASE ApiNext
  BY <1>2, Zenon DEF ApiNext, In, client
<1>3. QED
  BY <1>1, <1>2, Zenon

-----------------------------------------------------------------------------
(* Benchmarks *)

\* A benchmark under way is of the GPUs that are installed: changing them ends it.
BenchmarkSound ==
  /\ run.at \in {"none", "running", "sent"}
  /\ run.at # "none" => run.hash = live
  /\ run.at = "sent" /\ run.passed => live \in measured
  /\ \A r \in stored : r.passed => r.kit \in measured

\* Every step of a benchmark keeps this (benchmark.ts:47-64, server.ts:1276-1304).
LEMMA BenchmarkStep ==
  ASSUME BenchmarkSound, Bench!Next \/ UNCHANGED Bench!vars
  PROVE  BenchmarkSound'
<1>1. CASE \/ UNCHANGED Bench!vars \/ Bench!Detect \/ Bench!Publish
           \/ \E w \in Workers : (\E k \in Kits : Bench!UpdateMachine(w, k)) \/ Bench!Revoke(w)
  BY <1>1, Zenon DEF BenchmarkSound, Bench!vars, Bench!Detect, Bench!Publish, Bench!UpdateMachine, Bench!Revoke
<1>2. CASE Bench!Abort \/ \E k \in Kits : Bench!Install(k)
  BY <1>2 DEF BenchmarkSound, Bench!Abort, Bench!Install, Bench!NoRun
<1>3. ASSUME NEW w \in Workers, Bench!Start(w) PROVE BenchmarkSound'
  BY <1>3, Zenon DEF BenchmarkSound, Bench!Start
<1>4. CASE Bench!Measure
  BY <1>4 DEF BenchmarkSound, Bench!Measure
<1>5. CASE Bench!Tick
  <2>1. run' = [run EXCEPT !.age = run.age + 1] /\ run.at = "sent"
        /\ UNCHANGED <<live, stored, measured>>
    BY <1>5, Zenon DEF Bench!Tick
  <2>2. run'.at = run.at /\ run'.hash = run.hash /\ run'.passed = run.passed
    BY <2>1
  <2>3. QED
    BY <2>1, <2>2, Zenon DEF BenchmarkSound
<1>6. CASE Bench!Accept
  BY <1>6 DEF BenchmarkSound, Bench!Accept, Bench!NoRun
<1>7. QED
  BY <1>1, <1>2, <1>3, <1>4, <1>5, <1>6, Zenon DEF Bench!Next

\* Nothing is stored before the first benchmark.
LEMMA BenchmarkInit == Bench!Init => BenchmarkSound
  BY DEF Bench!Init, BenchmarkSound, Bench!NoRun

\* A report is only stored as passed for GPUs on which a benchmark has passed
\* (benchmark.ts:47-64, server.ts:1276-1304).
THEOREM BenchmarksTrue == ApiSpec => []StoredWasMeasured
<1> DEFINE Inv == scenario = "benchmark" => BenchmarkSound
<1>1. ApiInit => Inv
  BY BenchmarkInit, Zenon DEF ApiInit
<1>2. Inv /\ [ApiNext]_all => Inv'
  BY CaseSteps, BenchmarkStep, Zenon
<1>3. Inv => StoredWasMeasured
  BY Zenon DEF BenchmarkSound, StoredWasMeasured, Bench!StoredWasMeasured
<1>4. QED
  BY <1>1, <1>2, <1>3, PTL DEF ApiSpec

-----------------------------------------------------------------------------
(* The SDK's run *)

Ending == {"COMPLETED"} \cup Buyer!Over
Ats == {"quote", "fund", "funded", "open?", "bids", "accept", "assigned?", "wait", "done", "threw"}

BuyerTypes ==
  /\ job \in [state: {"ABSENT", "OPEN"} \cup Buyer!Assigned \cup Buyer!Over, left: Int,
              bid: Bidder \cup {None}]
  /\ bid \in [Bidder -> [state: {"none", "active", "lost"}, left: Int]]
  /\ row \in {"none", "OPEN"} \cup Buyer!Assigned \cup Buyer!Over /\ listed \subseteq Bidder
  /\ run \in [at: Ats, left: Int, bid: Bidder \cup {None}, result: {"none"} \cup Ending]
  /\ trouble \in BOOLEAN

\* How far run has come, and what it may rely on there.
BuyerKnows ==
  /\ run.at \in {"quote", "fund"} => job.state = "ABSENT"
  /\ run.at \in {"funded", "open?", "bids", "accept"} => job.state = "OPEN" \/ trouble
  /\ run.at \in {"open?", "bids", "accept", "assigned?", "wait", "done"} => row # "none"
  /\ run.at \in {"accept", "assigned?", "wait", "done"} => run.bid # None
  /\ run.at = "done" <=> run.result # "none"
  /\ run.at \in {"assigned?", "wait", "done"} =>
       /\ job.bid = run.bid
       /\ job.state \in Buyer!Assigned \cup {"EXPIRED", "FAILED", "DISPUTED", "REFUNDED"}
  /\ \A p \in Bidder : p \in listed \/ p = run.bid => bid[p].state # "none"

\* What a state that ends a job can be followed by.
After(s) == IF s \in {"COMPLETED", "DISPUTED"} THEN {"COMPLETED", "DISPUTED"} ELSE {s, "REFUNDED"}

\* The row is of an earlier time, and an end does not go unnoticed.
BuyerRow ==
  /\ job.state = "ABSENT" => row = "none"
  /\ job.state \in Buyer!Over => trouble
  /\ row \in Buyer!Over => trouble
  /\ row \in Ending => job.state \in After(row)
  /\ run.result # "none" => job.state \in After(run.result)

BuyerSound == BuyerTypes /\ BuyerKnows /\ BuyerRow /\ Buyer!RunFailsForCause

\* run starts with a quote, before there is a job (sdk/index.ts:232).
LEMMA BuyerInit == Buyer!Init => BuyerSound
<1> SUFFICES ASSUME Buyer!Init PROVE BuyerSound
  BY Zenon
<1>1. BuyerTypes
  <2>1. run \in [at: Ats, left: Int, bid: Bidder \cup {None}, result: {"none"} \cup Ending]
    BY ClientAssumption, Zenon DEF Buyer!Init, Ats
  <2>2. bid \in [Bidder -> [state: {"none", "active", "lost"}, left: Int]]
    BY DEF Buyer!Init
  <2>3. job \in [state: {"ABSENT", "OPEN"} \cup Buyer!Assigned \cup Buyer!Over, left: Int,
                 bid: Bidder \cup {None}]
    BY ClientAssumption, Zenon DEF Buyer!Init
  <2>4. QED
    BY <2>1, <2>2, <2>3, Zenon DEF Buyer!Init, BuyerTypes
<1>2. BuyerKnows
  BY ClientAssumption, Zenon DEF Buyer!Init, BuyerKnows
<1>3. BuyerRow /\ Buyer!RunFailsForCause
  BY Zenon DEF Buyer!Init, BuyerRow, Buyer!RunFailsForCause, Buyer!Over, Ending
<1>4. QED
  BY <1>1, <1>2, <1>3, Zenon DEF BuyerSound

\* run gives up for a cause.
LEMMA BuyerThrows ==
  ASSUME BuyerSound, Buyer!Throw, UNCHANGED <<job, bid, row, listed>>,
         run.at # "done", trouble' \in BOOLEAN, trouble => trouble',
         trouble' \/ run.left <= 0 \/ job.left <= 0 \/ Buyer!Lapsed(run.bid)
  PROVE  BuyerSound'
<1>1. run'.at = "threw" /\ run'.left = run.left /\ run'.bid = run.bid /\ run'.result = run.result
  BY Zenon DEF Buyer!Throw, BuyerSound, BuyerTypes
<1>2. BuyerTypes'
  BY Zenon DEF Buyer!Throw, BuyerSound, BuyerTypes, Ats
<1>3. BuyerKnows' /\ BuyerRow'
  BY <1>1, Zenon DEF BuyerSound, BuyerKnows, BuyerRow
<1>4. Buyer!RunFailsForCause'
  BY <1>1, Zenon DEF Buyer!RunFailsForCause, Buyer!Lapsed
<1>5. QED
  BY <1>2, <1>3, <1>4, Zenon DEF BuyerSound

\* run goes on, with nothing else changed.
LEMMA BuyerWaits ==
  ASSUME BuyerSound,
         Buyer!Funded \/ Buyer!WaitOpen \/ Buyer!Choose \/ Buyer!NoBid \/ Buyer!WaitAssigned \/ Buyer!wait
  PROVE  BuyerSound'
<1> USE DEF Buyer!ownedJob
<1>0. UNCHANGED <<job, bid, row, listed, trouble>>
  BY Zenon DEF Buyer!Funded, Buyer!WaitOpen, Buyer!waitFor, Buyer!Choose, Buyer!NoBid, Buyer!WaitAssigned, Buyer!wait
<1>1. CASE Buyer!Throw /\ run.at # "done" /\ (trouble \/ run.left <= 0)
  BY <1>0, <1>1, BuyerThrows, Zenon DEF BuyerSound, BuyerTypes
<1>2. CASE Buyer!Funded
  <2>1. run.at = "funded" /\ row # "none" /\ run' = [run EXCEPT !.at = "open?", !.left = WaitLimit]
    BY <1>2, Zenon DEF Buyer!Funded
  <2>2. BuyerTypes'
    BY <1>0, <2>1, ClientAssumption, Zenon DEF BuyerSound, BuyerTypes, Ats
  <2>3. run'.at = "open?" /\ run'.bid = run.bid /\ run'.result = run.result
    BY <2>1, Zenon DEF BuyerSound, BuyerTypes
  <2>4. QED
    BY <1>0, <2>1, <2>2, <2>3, Zenon DEF BuyerSound, BuyerKnows, BuyerRow, Buyer!RunFailsForCause
<1>3. CASE Buyer!Choose
  <2>1. PICK p \in Bidder : /\ p \in listed
                           /\ run' = [run EXCEPT !.at = "accept", !.bid = p, !.left = WaitLimit]
    BY <1>3, Zenon DEF Buyer!Choose, Buyer!Cheapest
  <2>2. run.at = "bids"
    BY <1>3, Zenon DEF Buyer!Choose
  <2>3. BuyerTypes'
    BY <1>0, <2>1, ClientAssumption, Zenon DEF BuyerSound, BuyerTypes, Ats
  <2>4. run'.at = "accept" /\ run'.bid = p /\ run'.result = run.result
    BY <2>1, Zenon DEF BuyerSound, BuyerTypes
  <2>5. QED
    BY <1>0, <2>1, <2>2, <2>3, <2>4, ClientAssumption, Zenon
    DEF BuyerSound, BuyerKnows, BuyerRow, Buyer!RunFailsForCause
<1>4. CASE Buyer!WaitOpen
  <2>1. CASE run.at = "open?" /\ run' = [run EXCEPT !.at = "bids", !.left = BidLimit]
    BY <1>0, <2>1, ClientAssumption, ZenonT(60)
    DEF BuyerSound, BuyerTypes, BuyerKnows, BuyerRow, Buyer!RunFailsForCause, Ats
  <2>2. QED
    BY <1>1, <1>4, <2>1, Zenon DEF Buyer!WaitOpen, Buyer!waitFor, BuyerSound, BuyerKnows, BuyerRow
<1>5. CASE Buyer!WaitAssigned
  <2>1. CASE run.at = "assigned?" /\ run' = [run EXCEPT !.at = "wait", !.left = WaitLimit]
    BY <1>0, <2>1, ClientAssumption, Zenon
    DEF BuyerSound, BuyerTypes, BuyerKnows, BuyerRow, Buyer!RunFailsForCause, Ats
  <2>2. QED
    BY <1>1, <1>5, <2>1, Zenon DEF Buyer!WaitAssigned, Buyer!waitFor, BuyerSound, BuyerKnows, BuyerRow
<1>6. CASE Buyer!wait
  <2>1. CASE run.at = "wait" /\ row \in Ending /\ run' = [run EXCEPT !.at = "done", !.result = row]
    BY <1>0, <2>1, ZenonT(60)
    DEF BuyerSound, BuyerTypes, BuyerKnows, BuyerRow, Buyer!RunFailsForCause, Ats, Ending, Buyer!Over
  <2>2. QED
    BY <1>1, <1>6, <2>1, Zenon DEF Buyer!wait, Buyer!waitFor, BuyerSound, BuyerKnows, BuyerRow, Ending
<1>7. CASE Buyer!NoBid
  BY <1>1, <1>7, Zenon DEF Buyer!NoBid
<1>8. QED
  BY <1>2, <1>3, <1>4, <1>5, <1>6, <1>7, Zenon


\* run's transactions.
LEMMA BuyerSigns ==
  ASSUME BuyerSound, Buyer!Create \/ Buyer!Fund \/ Buyer!Accept
  PROVE  BuyerSound'
<1>0. UNCHANGED <<bid, row, listed, trouble>>
  BY Zenon DEF Buyer!Create, Buyer!Fund, Buyer!Accept
<1>1. CASE Buyer!Create
  <2>1. /\ run.at = "quote" /\ run' = [run EXCEPT !.at = "fund"]
        /\ job' = [job EXCEPT !.left = StartDelay]
    BY <1>1, Zenon DEF Buyer!Create, Buyer!createJob
  <2>2. BuyerTypes'
    BY <1>0, <2>1, ClientAssumption, Zenon DEF BuyerSound, BuyerTypes, Ats
  <2>3. /\ run'.at = "fund" /\ run'.bid = run.bid /\ run'.result = run.result
        /\ job'.state = job.state /\ job'.bid = job.bid
    BY <2>1, Zenon DEF BuyerSound, BuyerTypes
  <2>4. QED
    BY <1>0, <2>1, <2>2, <2>3, Zenon DEF BuyerSound, BuyerKnows, BuyerRow, Buyer!RunFailsForCause
<1>2. CASE Buyer!Fund
  <2>1. CASE job.left > 0
    <3>1. /\ run.at = "fund" /\ run' = [run EXCEPT !.at = "funded"]
          /\ job' = [job EXCEPT !.state = "OPEN"]
      BY <1>2, <2>1, Zenon DEF Buyer!Fund
    <3>2. BuyerTypes'
      BY <1>0, <3>1, Zenon DEF BuyerSound, BuyerTypes, Ats
    <3>3. /\ run'.at = "funded" /\ run'.bid = run.bid /\ run'.result = run.result
          /\ job'.state = "OPEN" /\ job'.bid = job.bid
      BY <3>1, Zenon DEF BuyerSound, BuyerTypes
    <3>4. row = "none" /\ run.result = "none"
      BY <3>1, Zenon DEF BuyerSound, BuyerKnows, BuyerRow
    <3>5. BuyerKnows' /\ BuyerRow'
      BY <1>0, <3>3, <3>4, Zenon DEF BuyerSound, BuyerKnows, BuyerRow, Buyer!Over, Ending
    <3>6. QED
      BY <3>2, <3>3, <3>5, Zenon DEF BuyerSound, Buyer!RunFailsForCause
  <2>2. CASE ~(job.left > 0)
    BY <1>0, <1>2, <2>2, BuyerThrows DEF Buyer!Fund, BuyerSound, BuyerTypes
  <2>3. QED
    BY <2>1, <2>2, Zenon
<1>3. CASE Buyer!Accept
  <2>1. CASE Buyer!Acceptable(run.bid)
    <3>1. /\ run.at = "accept" /\ run' = [run EXCEPT !.at = "assigned?", !.left = WaitLimit]
          /\ job' = [job EXCEPT !.state = "ASSIGNED", !.bid = run.bid] /\ job.state = "OPEN"
      BY <1>3, <2>1, Zenon DEF Buyer!Accept, Buyer!Acceptable
    <3>2. BuyerTypes'
      BY <1>0, <3>1, ClientAssumption, Zenon DEF BuyerSound, BuyerTypes, Ats, Buyer!Assigned
    <3>3. /\ run'.at = "assigned?" /\ run'.bid = run.bid /\ run'.result = run.result
          /\ job'.state = "ASSIGNED" /\ job'.bid = run.bid
      BY <3>1, Zenon DEF BuyerSound, BuyerTypes
    <3>4. row \notin Ending /\ run.result = "none"
      BY <3>1, Zenon DEF BuyerSound, BuyerKnows, BuyerRow, After, Ending, Buyer!Over
    <3>5. BuyerKnows' /\ BuyerRow'
      BY <1>0, <3>1, <3>3, <3>4, Zenon DEF BuyerSound, BuyerKnows, BuyerRow, Buyer!Over, Buyer!Assigned
    <3>6. QED
      BY <3>2, <3>3, <3>5, Zenon DEF BuyerSound, Buyer!RunFailsForCause
  <2>2. CASE ~Buyer!Acceptable(run.bid)
    <3>1. run.at = "accept" /\ Buyer!Throw /\ UNCHANGED job
      BY <1>3, <2>2, Zenon DEF Buyer!Accept
    <3>2. run.bid \in Bidder /\ bid[run.bid].state \in {"active", "lost"} /\ bid[run.bid].left \in Int
      BY <3>1, Zenon DEF BuyerSound, BuyerTypes, BuyerKnows
    <3>3. trouble \/ job.left <= 0 \/ Buyer!Lapsed(run.bid)
      BY <2>2, <3>1, <3>2, ClientAssumption
      DEF Buyer!Acceptable, Buyer!Lapsed, BuyerSound, BuyerTypes, BuyerKnows
    <3>4. QED
      BY <1>0, <3>1, <3>3, BuyerThrows, Zenon DEF BuyerSound, BuyerTypes
  <2>3. QED
    BY <2>1, <2>2, Zenon
<1>4. QED
  BY <1>1, <1>2, <1>3, Zenon

\* The job moves on without run: what is over stays over.
LEMMA JobMoves ==
  ASSUME BuyerSound, UNCHANGED <<bid, row, listed, run>>,
         NEW s \in Buyer!Assigned \cup Buyer!Over, job.state # "ABSENT",
         NEW b \in Bidder \cup {None}, job' = [job EXCEPT !.state = s, !.bid = b],
         b = job.bid \/ job.state = "OPEN",
         trouble' \in BOOLEAN, trouble => trouble',
         s \in Buyer!Over => trouble', job.state = "OPEN" => trouble', job.state = "OPEN" \/ s # "CANCELLED",
         \A e \in Ending : job.state \in After(e) => s \in After(e)
  PROVE  BuyerSound'
<1>1. BuyerTypes'
  BY Zenon DEF BuyerSound, BuyerTypes
<1>2. job'.state = s /\ job'.bid = b /\ job'.left = job.left
  BY Zenon DEF BuyerSound, BuyerTypes
<1>3. BuyerKnows'
  BY <1>2, Zenon DEF BuyerSound, BuyerKnows, Buyer!Assigned, Buyer!Over
<1>4. BuyerRow'
  BY <1>2, Zenon DEF BuyerSound, BuyerTypes, BuyerRow, Buyer!Assigned, Buyer!Over
<1>5. Buyer!RunFailsForCause'
  BY <1>2, Zenon DEF BuyerSound, Buyer!RunFailsForCause, Buyer!Lapsed
<1>6. QED
  BY <1>1, <1>3, <1>4, <1>5, Zenon DEF BuyerSound

\* What happens to the job on the chain, by its provider or by another client.
LEMMA ChainMoves ==
  ASSUME BuyerSound, Buyer!Work \/ Buyer!Interfere
  PROVE  BuyerSound'
<1>0. job.bid \in Bidder \cup {None} /\ trouble \in BOOLEAN /\ DOMAIN job = {"state", "left", "bid"}
  BY Zenon DEF BuyerSound, BuyerTypes
<1>1. UNCHANGED <<bid, row, listed, run>>
  BY Zenon DEF Buyer!Work, Buyer!Interfere
<1>2. CASE Buyer!Work
  <2>1. PICK s \in {<<"ASSIGNED", "RUNNING">>, <<"RUNNING", "VERIFYING">>, <<"VERIFYING", "COMPLETED">>,
                    <<"VERIFYING", "FAILED">>, <<"COMPLETED", "DISPUTED">>, <<"DISPUTED", "COMPLETED">>} :
          /\ job.state = s[1] /\ job' = [job EXCEPT !.state = s[2]]
          /\ trouble' = (trouble \/ s[2] \in Buyer!Over)
    BY <1>2, Zenon DEF Buyer!Work
  <2>2. job' = [job EXCEPT !.state = s[2], !.bid = job.bid]
    BY <2>1, Zenon DEF BuyerSound, BuyerTypes
  <2>3. /\ s[2] \in Buyer!Assigned \cup Buyer!Over /\ job.state \notin {"ABSENT", "OPEN"}
        /\ s[2] # "CANCELLED"
    BY <2>1 DEF Buyer!Assigned, Buyer!Over
  <2>4. \A e \in Ending : job.state \in After(e) => s[2] \in After(e)
    BY <2>1 DEF After, Ending, Buyer!Over
  <2>5. QED
    BY <1>0, <1>1, <2>1, <2>2, <2>3, <2>4, JobMoves, Zenon
<1>3. CASE Buyer!Interfere
  <2>0. trouble' = TRUE
    BY <1>3, Zenon DEF Buyer!Interfere
  <2>1. CASE \E p \in Bidder : Buyer!Acceptable(p) /\ job' = [job EXCEPT !.state = "ASSIGNED", !.bid = p]
    <3>1. PICK p \in Bidder : Buyer!Acceptable(p) /\ job' = [job EXCEPT !.state = "ASSIGNED", !.bid = p]
      BY <2>1, Zenon
    <3>2. job.state = "OPEN"
      BY <3>1, Zenon DEF Buyer!Acceptable
    <3>3. \A e \in Ending : job.state \notin After(e)
      BY <3>2, Zenon DEF After, Ending, Buyer!Over
    <3>4. QED
      BY <1>1, <2>0, <3>1, <3>2, <3>3, JobMoves, Zenon DEF Buyer!Assigned
  <2>2. CASE job.state = "OPEN" /\ job' = [job EXCEPT !.state = "CANCELLED"]
    <3>1. job' = [job EXCEPT !.state = "CANCELLED", !.bid = job.bid]
      BY <2>2, Zenon DEF BuyerSound, BuyerTypes
    <3>2. \A e \in Ending : job.state \notin After(e)
      BY <2>2, Zenon DEF After, Ending, Buyer!Over
    <3>3. QED
      BY <1>0, <1>1, <2>0, <2>2, <3>1, <3>2, JobMoves, Zenon DEF Buyer!Over
  <2>3. CASE job.state \in {"RUNNING", "VERIFYING", "OPEN", "ASSIGNED"} /\ job' = [job EXCEPT !.state = "EXPIRED"]
    <3>1. job' = [job EXCEPT !.state = "EXPIRED", !.bid = job.bid]
      BY <2>3, Zenon DEF BuyerSound, BuyerTypes
    <3>2. \A e \in Ending : job.state \notin After(e)
      BY <2>3, Zenon DEF After, Ending, Buyer!Over
    <3>3. QED
      BY <1>0, <1>1, <2>0, <2>3, <3>1, <3>2, JobMoves, Zenon DEF Buyer!Over
  <2>4. CASE job.state \in {"CANCELLED", "EXPIRED", "FAILED"} /\ job' = [job EXCEPT !.state = "REFUNDED"]
    <3>1. job' = [job EXCEPT !.state = "REFUNDED", !.bid = job.bid]
      BY <2>4, Zenon DEF BuyerSound, BuyerTypes
    <3>2. \A e \in Ending : job.state \in After(e) => "REFUNDED" \in After(e)
      BY <2>4, Zenon DEF After, Ending, Buyer!Over
    <3>3. QED
      BY <1>0, <1>1, <2>0, <2>4, <3>1, <3>2, JobMoves, Zenon DEF Buyer!Over
  <2>5. QED
    BY <1>3, <2>1, <2>2, <2>3, <2>4, Zenon DEF Buyer!Interfere
<1>4. QED
  BY <1>2, <1>3, Zenon


\* The bids, the indexer and time.
LEMMA AroundMoves ==
  ASSUME BuyerSound,
         \/ Buyer!IndexJob \/ Buyer!Tick \/ UNCHANGED Buyer!vars
         \/ \E p \in Bidder : Buyer!PlaceBid(p) \/ Buyer!LoseBid(p) \/ Buyer!IndexBid(p)
  PROVE  BuyerSound'
<1>1. CASE UNCHANGED Buyer!vars
  BY <1>1 DEF Buyer!vars, BuyerSound, BuyerTypes, BuyerKnows, BuyerRow, Buyer!RunFailsForCause, Buyer!Lapsed
<1>2. CASE Buyer!IndexJob
  <2>1. row' = job.state /\ job.state # "ABSENT" /\ UNCHANGED <<job, bid, listed, run, trouble>>
    BY <1>2, Zenon DEF Buyer!IndexJob
  <2>2. BuyerTypes'
    BY <2>1, Zenon DEF BuyerSound, BuyerTypes
  <2>3. BuyerKnows'
    BY <2>1, Zenon DEF BuyerSound, BuyerTypes, BuyerKnows, Buyer!Assigned, Buyer!Over
  <2>4. BuyerRow'
    BY <2>1, Zenon DEF BuyerSound, BuyerRow, After
  <2>5. Buyer!RunFailsForCause'
    BY <2>1, Zenon DEF BuyerSound, Buyer!RunFailsForCause, Buyer!Lapsed
  <2>6. QED
    BY <2>2, <2>3, <2>4, <2>5, Zenon DEF BuyerSound
<1>3. ASSUME NEW p \in Bidder, Buyer!IndexBid(p) PROVE BuyerSound'
  <2>1. /\ listed' = (IF bid[p].state = "active" THEN listed \cup {p} ELSE listed \ {p})
        /\ UNCHANGED <<job, bid, row, run, trouble>>
    BY <1>3, Zenon DEF Buyer!IndexBid
  <2>2. BuyerTypes' /\ BuyerKnows'
    BY <2>1 DEF BuyerSound, BuyerTypes, BuyerKnows
  <2>3. BuyerRow' /\ Buyer!RunFailsForCause'
    BY <2>1, Zenon DEF BuyerSound, BuyerRow, Buyer!RunFailsForCause, Buyer!Lapsed
  <2>4. QED
    BY <2>2, <2>3, Zenon DEF BuyerSound
<1>4. ASSUME NEW p \in Bidder, Buyer!PlaceBid(p) \/ Buyer!LoseBid(p) PROVE BuyerSound'
  <2>1. PICK b \in [state: {"active", "lost"}, left: Int] :
          /\ bid' = [bid EXCEPT ![p] = b]
          /\ bid[p].state = "none" \/ (b.state = "lost" /\ bid[p].state = "active")
    <3>1. CASE Buyer!LoseBid(p)
      <4>1. bid[p] \in [state: {"none", "active", "lost"}, left: Int]
        BY Zenon DEF BuyerSound, BuyerTypes
      <4>2. [bid[p] EXCEPT !.state = "lost"] \in [state: {"active", "lost"}, left: Int]
            /\ [bid[p] EXCEPT !.state = "lost"].state = "lost"
        BY <4>1, Zenon
      <4>3. bid' = [bid EXCEPT ![p] = [bid[p] EXCEPT !.state = "lost"]] /\ bid[p].state = "active"
        BY <3>1, Zenon DEF Buyer!LoseBid
      <4>4. QED
        BY <4>2, <4>3, Zenon
    <3>2. CASE Buyer!PlaceBid(p)
      <4>1. PICK left \in 1..job.left : bid' = [bid EXCEPT ![p] = [state |-> "active", left |-> left]]
        BY <3>2, Zenon DEF Buyer!PlaceBid
      <4>2. bid[p].state = "none" /\ left \in Int
        BY <3>2, <4>1 DEF Buyer!PlaceBid, BuyerSound, BuyerTypes
      <4>3. QED
        BY <4>1, <4>2, Zenon
    <3>3. QED
      BY <1>4, <3>1, <3>2, Zenon
  <2>2. UNCHANGED <<job, row, listed, run, trouble>>
    BY <1>4, Zenon DEF Buyer!PlaceBid, Buyer!LoseBid
  <2>3. bid'[p] = b /\ \A q \in Bidder \ {p} : bid'[q] = bid[q]
    BY <2>1, Zenon DEF BuyerSound, BuyerTypes
  <2>4. BuyerTypes'
    BY <2>1, <2>2, ZenonT(60) DEF BuyerSound, BuyerTypes
  <2>5. BuyerKnows' /\ BuyerRow'
    BY <2>2, <2>3, ZenonT(60) DEF BuyerSound, BuyerKnows, BuyerRow
  <2>6. Buyer!RunFailsForCause'
    <3>1. run.bid \in Bidder \cup {None}
      BY Zenon DEF BuyerSound, BuyerTypes
    <3>2. run.bid = p => bid[p].state # "none"
      BY Zenon DEF BuyerSound, BuyerKnows
    <3>3. Buyer!Lapsed(run.bid) => Buyer!Lapsed(run.bid)'
      BY <2>1, <2>2, <2>3, <3>1, <3>2, Zenon DEF Buyer!Lapsed
    <3>4. QED
      BY <2>2, <3>3, Zenon DEF BuyerSound, Buyer!RunFailsForCause
  <2>7. QED
    BY <2>4, <2>5, <2>6, Zenon DEF BuyerSound
<1>5. CASE Buyer!Tick
  <2>0. /\ job \in [state: {"ABSENT", "OPEN"} \cup Buyer!Assigned \cup Buyer!Over, left: Int,
                    bid: Bidder \cup {None}]
        /\ bid \in [Bidder -> [state: {"none", "active", "lost"}, left: Int]]
        /\ run \in [at: Ats, left: Int, bid: Bidder \cup {None}, result: {"none"} \cup Ending]
    BY Zenon DEF BuyerSound, BuyerTypes
  <2>1. UNCHANGED <<row, listed, trouble>>
    BY <1>5, Zenon DEF Buyer!Tick
  <2>2. /\ job' = [job EXCEPT !.left = Buyer!Down(job.left)]
        /\ Buyer!Down(job.left) \in Int /\ (job.left <= 0 => Buyer!Down(job.left) <= 0)
    BY <1>5, <2>0 DEF Buyer!Tick, Buyer!Down
  <2>3. /\ bid' \in [Bidder -> [state: {"none", "active", "lost"}, left: Int]]
        /\ \A p \in Bidder : bid'[p].state = bid[p].state /\ (bid[p].left <= 0 => bid'[p].left <= 0)
    <3>1. bid' = [p \in Bidder |-> [bid[p] EXCEPT !.left = Buyer!Down(bid[p].left)]]
      BY <1>5, Zenon DEF Buyer!Tick
    <3>2. ASSUME NEW p \in Bidder
          PROVE  /\ bid'[p] \in [state: {"none", "active", "lost"}, left: Int]
                 /\ bid'[p].state = bid[p].state /\ (bid[p].left <= 0 => bid'[p].left <= 0)
      BY <2>0, <3>1 DEF Buyer!Down
    <3>3. QED
      BY <3>1, <3>2, Zenon
  <2>4. /\ run' \in [at: Ats, left: Int, bid: Bidder \cup {None}, result: {"none"} \cup Ending]
        /\ run'.at = run.at /\ run'.bid = run.bid /\ run'.result = run.result
        /\ run.at = "threw" => run' = run
    BY <1>5, <2>0, SMTT(30) DEF Buyer!Tick, Buyer!Down
  <2>5. job'.state = job.state /\ job'.bid = job.bid /\ job'.left = Buyer!Down(job.left)
    BY <2>0, <2>2, Zenon
  <2>6. BuyerTypes'
    BY <2>0, <2>1, <2>2, <2>3, <2>4, Zenon DEF BuyerSound, BuyerTypes
  <2>7. BuyerKnows' /\ BuyerRow'
    BY <2>1, <2>3, <2>4, <2>5 DEF BuyerSound, BuyerKnows, BuyerRow
  <2>8. Buyer!RunFailsForCause'
    <3>1. Buyer!Lapsed(run.bid) => Buyer!Lapsed(run.bid)'
      BY <2>0, <2>3, <2>4, Zenon DEF Buyer!Lapsed
    <3>2. QED
      BY <2>1, <2>2, <2>4, <2>5, <3>1, Zenon DEF BuyerSound, Buyer!RunFailsForCause
  <2>9. QED
    BY <2>6, <2>7, <2>8, Zenon DEF BuyerSound
<1>6. QED
  BY <1>1, <1>2, <1>3, <1>4, <1>5, Zenon

\* Every step of run, of the chain and of the indexer keeps what run knows.
LEMMA BuyerStep ==
  ASSUME BuyerSound, Buyer!Next \/ UNCHANGED Buyer!vars
  PROVE  BuyerSound'
<1>1. CASE Buyer!Fault
  BY <1>1, BuyerThrows, Zenon DEF Buyer!Fault
<1>2. CASE Buyer!Step
  BY <1>2, BuyerWaits, BuyerSigns, Zenon DEF Buyer!Step
<1>3. CASE Buyer!Work \/ Buyer!Interfere
  BY <1>3, ChainMoves, Zenon
<1>4. QED
  BY <1>1, <1>2, <1>3, AroundMoves, Zenon DEF Buyer!Next


-----------------------------------------------------------------------------
(* The form for a redundant job *)

\* The replicas signed for so far are on the chain, where they stay.
FormSound ==
  /\ DOMAIN job = Job /\ DOMAIN row = Job
  /\ \A j \in Job : row[j] # Replicated!NoRow => job[j] # Replicated!NoJob
  /\ form \in [at: {"edit", "sign", "funded"}, plan: {<<>>} \cup [1..Replicas -> Job], signed: 0..Replicas]
  /\ form.at # "edit" => form.plan \in [1..Replicas -> Job]
  /\ \A a, b \in DOMAIN form.plan : form.plan[a] = form.plan[b] => a = b
  /\ form.at # "edit" => \A i \in 1..form.signed : job[form.plan[i]] # Replicated!NoJob
  /\ form.at = "funded" => form.signed = Replicas
  /\ \E id \in Job \cup {None} : page = [Replicated!Closed EXCEPT !.id = id]

\* The form starts without a plan.
LEMMA FormInit == Replicated!Init => FormSound
<1> SUFFICES ASSUME Replicated!Init PROVE FormSound
  BY Zenon
<1>1. page = [Replicated!Closed EXCEPT !.id = None]
  BY DEF Replicated!Init, Replicated!Closed
<1>2. form \in [at: {"edit", "sign", "funded"}, plan: {<<>>} \cup [1..Replicas -> Job], signed: 0..Replicas]
  BY ClientAssumption DEF Replicated!Init
<1>3. form.at = "edit" /\ form.plan = <<>> /\ DOMAIN form.plan = {}
  BY DEF Replicated!Init
<1>4. QED
  BY <1>1, <1>2, <1>3, Zenon DEF Replicated!Init, FormSound

\* A transaction of the plan is confirmed.
LEMMA PlanSigned ==
  ASSUME FormSound, form.at = "sign", form.signed < Replicas
  PROVE  LET j == form.plan[form.signed + 1]
             r == [Replicated!NoJob EXCEPT !.state = "OPEN", !.left = Limit]
         IN  /\ form.signed \in Nat /\ form.signed + 1 \in 1..Replicas /\ j \in Job
             /\ DOMAIN [job EXCEPT ![j] = r] = Job
             /\ [job EXCEPT ![j] = r][j] # Replicated!NoJob
             /\ \A k \in Job : job[k] # Replicated!NoJob => [job EXCEPT ![j] = r][k] # Replicated!NoJob
<1>1. form.signed \in Nat /\ form.signed + 1 \in 1..Replicas
  BY ClientAssumption DEF FormSound
<1>2. form.plan[form.signed + 1] \in Job
  BY <1>1, Zenon DEF FormSound
<1>3. [Replicated!NoJob EXCEPT !.state = "OPEN", !.left = Limit] # Replicated!NoJob
  BY Zenon DEF Replicated!NoJob
<1>4. QED
  BY <1>1, <1>2, <1>3, Zenon DEF FormSound

\* Submitting, signing and failing keep the form and the funded jobs together.
LEMMA FormStep ==
  ASSUME FormSound, Replicated!FormNext \/ UNCHANGED Replicated!vars
  PROVE  FormSound'
<1>0. form \in [at: {"edit", "sign", "funded"}, plan: {<<>>} \cup [1..Replicas -> Job], signed: 0..Replicas]
  BY Zenon DEF FormSound
<1>1. CASE UNCHANGED Replicated!vars
  BY <1>1, Zenon DEF Replicated!vars, FormSound
<1>2. CASE Replicated!Submit
  <2>1. PICK plan \in [1..Replicas -> {j \in Job : job[j] = Replicated!NoJob}] :
          /\ \A a, b \in 1..Replicas : plan[a] = plan[b] => a = b
          /\ form' = [at |-> "sign", plan |-> plan, signed |-> 0]
    BY <1>2, Zenon DEF Replicated!Submit
  <2>2. page' = [Replicated!Closed EXCEPT !.id = None] /\ UNCHANGED <<job, row>>
    BY <1>2 DEF Replicated!Submit, Replicated!Closed
  <2>3. plan \in [1..Replicas -> Job] /\ 0 \in 0..Replicas
    BY ClientAssumption
  <2>4. /\ form' \in [at: {"edit", "sign", "funded"}, plan: {<<>>} \cup [1..Replicas -> Job], signed: 0..Replicas]
        /\ form'.at = "sign" /\ form'.plan = plan /\ form'.signed = 0 /\ DOMAIN plan = 1..Replicas
    BY <2>1, <2>3, Zenon
  <2>5. \A i \in 1..form'.signed : FALSE
    BY <2>4
  <2>6. form'.at # "funded" /\ form'.at # "edit" /\ form'.plan \in [1..Replicas -> Job]
        /\ \A a, b \in DOMAIN form'.plan : form'.plan[a] = form'.plan[b] => a = b
    BY <2>1, <2>3, <2>4
  <2>7. QED
    BY <2>2, <2>4, <2>5, <2>6, Zenon DEF FormSound
<1>3. CASE Replicated!Signed
  <2>1. /\ form.at = "sign" /\ form.signed < Replicas /\ form' = [form EXCEPT !.signed = form.signed + 1]
        /\ UNCHANGED <<row, page>>
        /\ job' = [job EXCEPT ![form.plan[form.signed + 1]] =
                     [Replicated!NoJob EXCEPT !.state = "OPEN", !.left = Limit]]
    BY <1>3, Zenon DEF Replicated!Signed
  <2>2. /\ form.signed \in Nat /\ form.signed + 1 \in 1..Replicas /\ DOMAIN job' = Job
        /\ job'[form.plan[form.signed + 1]] # Replicated!NoJob
        /\ \A k \in Job : job[k] # Replicated!NoJob => job'[k] # Replicated!NoJob
    BY <2>1, PlanSigned, Zenon
  <2>3. /\ form' \in [at: {"edit", "sign", "funded"}, plan: {<<>>} \cup [1..Replicas -> Job], signed: 0..Replicas]
        /\ form'.at = "sign" /\ form'.plan = form.plan /\ form'.signed = form.signed + 1
    <3>1. form.signed + 1 \in 0..Replicas
      BY <2>2, ClientAssumption
    <3>2. QED
      BY <1>0, <2>1, <3>1, Zenon
  <2>4. ASSUME NEW i \in 1..form.signed + 1 PROVE job'[form.plan[i]] # Replicated!NoJob
    <3>1. i = form.signed + 1 \/ i \in 1..form.signed
      BY <2>2
    <3>2. form.plan[i] \in Job
      BY <2>1, <2>2, ClientAssumption, SMTT(30) DEF FormSound
    <3>3. QED
      BY <2>1, <2>2, <3>1, <3>2, Zenon DEF FormSound
  <2>5. QED
    BY <2>1, <2>2, <2>3, <2>4, ZenonT(60) DEF FormSound
<1>4. CASE Replicated!SignFails
  <2>1. /\ form.at = "sign" /\ form.signed < Replicas /\ form' = [form EXCEPT !.at = "edit"]
        /\ UNCHANGED <<row, page>>
    BY <1>4, Zenon DEF Replicated!SignFails
  <2>2. DOMAIN job' = Job /\ \A k \in Job : job[k] # Replicated!NoJob => job'[k] # Replicated!NoJob
    BY <1>4, <2>1, PlanSigned, Zenon DEF Replicated!SignFails, FormSound
  <2>3. /\ form' \in [at: {"edit", "sign", "funded"}, plan: {<<>>} \cup [1..Replicas -> Job], signed: 0..Replicas]
        /\ form'.at = "edit" /\ form'.plan = form.plan
    BY <1>0, <2>1, Zenon
  <2>4. QED
    BY <2>1, <2>2, <2>3, Zenon DEF FormSound
<1>5. CASE Replicated!Funded
  <2>1. /\ form.at = "sign" /\ form.signed = Replicas /\ form' = [form EXCEPT !.at = "funded"]
        /\ page' = [Replicated!Closed EXCEPT !.id = form.plan[1]] /\ UNCHANGED <<job, row>>
    BY <1>5, Zenon DEF Replicated!Funded
  <2>2. form.plan[1] \in Job
    BY <2>1, ClientAssumption, SMTT(30) DEF FormSound
  <2>3. /\ form' \in [at: {"edit", "sign", "funded"}, plan: {<<>>} \cup [1..Replicas -> Job], signed: 0..Replicas]
        /\ form'.at = "funded" /\ form'.plan = form.plan /\ form'.signed = form.signed
    BY <1>0, <2>1, Zenon
  <2>4. QED
    BY <2>1, <2>2, <2>3, Zenon DEF FormSound
<1>6. ASSUME NEW j \in Job, Replicated!Open(j) PROVE FormSound'
  <2>1. form' = [form EXCEPT !.at = "edit"] /\ page' = [Replicated!Closed EXCEPT !.id = j] /\ UNCHANGED <<job, row>>
    BY <1>6, Zenon DEF Replicated!Open
  <2>2. /\ form' \in [at: {"edit", "sign", "funded"}, plan: {<<>>} \cup [1..Replicas -> Job], signed: 0..Replicas]
        /\ form'.at = "edit" /\ form'.plan = form.plan
    BY <1>0, <2>1, Zenon
  <2>3. QED
    BY <2>1, <2>2, Zenon DEF FormSound
<1>7. ASSUME NEW j \in Job, Replicated!Index(j) PROVE FormSound'
  <2>1. /\ job[j] # Replicated!NoJob /\ DOMAIN row' = DOMAIN row /\ UNCHANGED <<job, form, page>>
        /\ \A k \in Job \ {j} : row'[k] = row[k]
    BY <1>7, Zenon DEF Replicated!Index, FormSound
  <2>2. QED
    BY <2>1, Zenon DEF FormSound
<1>8. QED
  BY <1>1, <1>2, <1>3, <1>4, <1>5, <1>6, <1>7, Zenon DEF Replicated!FormNext

\* What a buyer is told is so: by run and the handle's wait (sdk/index.ts:232-279,
\* 372-382), and by the form for a redundant job (exchange.tsx:929-934).
THEOREM BuyerToldTrue == ApiSpec => []BuyerTold
<1> DEFINE Inv == /\ scenario = "run" => BuyerSound
                  /\ scenario = "replicas" => FormSound
<1>1. ApiInit => Inv
  BY BuyerInit, FormInit, Zenon DEF ApiInit
<1>2. Inv /\ [ApiNext]_all => Inv'
  BY CaseSteps, BuyerStep, FormStep, Zenon
<1>3. BuyerSound => /\ Buyer!TypeOK /\ Buyer!RunFailsForCause
                    /\ Buyer!HandleMatchesChain /\ Buyer!ReportIsFinal
  <2> SUFFICES ASSUME BuyerSound
               PROVE  /\ Buyer!TypeOK /\ Buyer!RunFailsForCause
                      /\ Buyer!HandleMatchesChain /\ Buyer!ReportIsFinal
    BY Zenon
  <2>1. Buyer!TypeOK
    BY Zenon DEF BuyerSound, BuyerTypes, BuyerKnows, Buyer!TypeOK, Ats
  <2>2. Buyer!RunFailsForCause /\ Buyer!HandleMatchesChain
    BY Zenon DEF BuyerSound, BuyerKnows, Buyer!HandleMatchesChain
  <2>3. Buyer!ReportIsFinal
    BY Zenon DEF BuyerSound, BuyerKnows, BuyerRow, Buyer!ReportIsFinal, After
  <2>4. QED
    BY <2>1, <2>2, <2>3, Zenon
<1>4. FormSound => Replicated!TypeOK /\ Replicated!FundedReported
  <2> SUFFICES ASSUME FormSound PROVE Replicated!TypeOK /\ Replicated!FundedReported
    BY Zenon
  <2>1. PICK id \in Job \cup {None} : page = [Replicated!Closed EXCEPT !.id = id]
    BY Zenon DEF FormSound
  <2>2. page.id = id /\ page.busy = "no" /\ page.shown = Replicated!NoRow /\ page.answers = <<>>
    BY <2>1, Zenon DEF Replicated!Closed
  <2>3. form.at \in {"edit", "sign", "funded"} /\ form.signed \in 0..Replicas
    BY Zenon DEF FormSound
  <2>4. QED
    BY <2>2, <2>3, Zenon DEF FormSound, Replicated!TypeOK, Replicated!FundedReported
<1>5. Inv => BuyerTold
  BY <1>3, <1>4, Zenon DEF BuyerTold
<1>6. QED
  BY <1>1, <1>2, <1>5, PTL DEF ApiSpec


-----------------------------------------------------------------------------
(* The hidden challenge *)

Verdicts == {"null", "pass", "fail"}
Challenges == [id: Nat, issuedAt: Int, expiresAt: Int, passed: Verdicts]
Calls == [at: {"idle", "issue", "solve", "solving", "sent", "pass", "fail"}, challenge: Challenges,
          startedAt: Int, finishedAt: Int, correct: BOOLEAN]

\* A call has a challenge that was issued, at the time the row has for it if it is
\* still the row's; one that judged an answer right had it in time.
CallFits(v) ==
  /\ v.challenge.id <= issued
  /\ v.challenge.id = row.id =>
       v.challenge.issuedAt = row.issuedAt /\ v.challenge.expiresAt = row.expiresAt
  /\ v.at = "idle" => v = Hidden!Quiet
  /\ v.at = "pass" => inTime

HiddenTypes ==
  /\ now \in 0..MaxTime /\ skew \in (0 - Skew)..Skew /\ row \in Challenges
  /\ issued \in Nat /\ row.id = issued /\ call \in [Names -> Calls]
  /\ inTime \in BOOLEAN /\ missed \in BOOLEAN /\ verdict \in Verdicts

HiddenSound ==
  /\ HiddenTypes
  /\ row.id = 0 => row.issuedAt = 0 /\ row.expiresAt = 0
  /\ \A c \in Names : CallFits(call[c])
  /\ row.passed = "pass" => inTime
  /\ verdict = "pass" => inTime

\* With one call at a time the challenge of a call is the row's, and its times are
\* those of the API's clock moved by the node's skew.
CallCurrent(v) ==
  /\ v.at \in {"solve", "solving", "sent"} => v.challenge.id = row.id /\ row.id # 0
  /\ v.at \in {"solving", "sent"} => row.issuedAt + skew <= v.startedAt /\ v.startedAt <= now + skew
  /\ v.at = "sent" => v.startedAt <= v.finishedAt /\ v.finishedAt <= now + skew
  /\ v.at = "fail" => missed

AloneSound ==
  /\ OneCall
  /\ row.id # 0 => row.expiresAt = row.issuedAt + Ttl /\ row.issuedAt <= now
  /\ \A c \in Names : CallCurrent(call[c])
  /\ row.passed = "fail" => missed
  /\ verdict = "fail" => missed

\* A call that is not under way has no challenge.
LEMMA QuietCall ==
  /\ Hidden!NoRow \in Challenges /\ Hidden!Quiet \in Calls
  /\ Hidden!Quiet.at = "idle" /\ Hidden!Quiet.challenge = Hidden!NoRow
  /\ Hidden!NoRow.id = 0 /\ Hidden!NoRow.issuedAt = 0 /\ Hidden!NoRow.expiresAt = 0
  /\ Hidden!NoRow.passed = "null"
<1>1. Hidden!NoRow \in Challenges
  BY DEF Hidden!NoRow, Challenges, Verdicts
<1>2. QED
  BY <1>1 DEF Hidden!NoRow, Hidden!Quiet, Calls

\* Before the first call there is no challenge and no verdict.
LEMMA HiddenInit == Hidden!Init => HiddenSound /\ AloneSound
<1> SUFFICES ASSUME Hidden!Init PROVE HiddenSound /\ AloneSound
  BY Zenon
<1>1. /\ now = 0 /\ skew \in (0 - Skew)..Skew /\ row = Hidden!NoRow /\ issued = 0
      /\ call = [c \in Names |-> Hidden!Quiet]
      /\ inTime = FALSE /\ missed = FALSE /\ verdict = "null"
  BY Zenon DEF Hidden!Init
<1>2. HiddenTypes
  <2>1. now \in 0..MaxTime /\ issued \in Nat /\ row.id = issued /\ call \in [Names -> Calls]
    BY <1>1, QuietCall, ChallengeAssumption
  <2>2. inTime \in BOOLEAN /\ missed \in BOOLEAN /\ verdict \in Verdicts /\ row \in Challenges
    BY <1>1, QuietCall, Zenon DEF Verdicts
  <2>3. QED
    BY <1>1, <2>1, <2>2, Zenon DEF HiddenTypes
<1>3. \A c \in Names : CallFits(call[c]) /\ CallCurrent(call[c])
  <2> SUFFICES ASSUME NEW c \in Names PROVE CallFits(Hidden!Quiet) /\ CallCurrent(Hidden!Quiet)
    BY <1>1, Zenon
  <2>1. QED
    BY <1>1, QuietCall DEF CallFits, CallCurrent
<1>4. OneCall
  BY <1>1, Zenon DEF OneCall
<1>5. QED
  BY <1>1, <1>2, <1>3, <1>4, QuietCall, Zenon DEF HiddenSound, AloneSound

\* A call moves on, with the row as it is.
LEMMA CallMoves ==
  ASSUME HiddenSound, NEW c \in Names, NEW v \in Calls, call' = [call EXCEPT ![c] = v],
         UNCHANGED <<now, skew, row, issued, verdict>>,
         inTime' \in BOOLEAN, missed' \in BOOLEAN, inTime => inTime', missed => missed',
         CallFits(v)'
  PROVE  /\ HiddenSound'
         /\ AloneSound /\ OneCall' /\ CallCurrent(v)' => AloneSound'
<1>1. call'[c] = v /\ (\A d \in Names \ {c} : call'[d] = call[d]) /\ call' \in [Names -> Calls]
  BY Zenon DEF HiddenSound, HiddenTypes
<1>2. HiddenTypes'
  BY <1>1, Zenon DEF HiddenSound, HiddenTypes
<1>3. (\A d \in Names : CallFits(call[d]))'
  BY <1>1, Zenon DEF HiddenSound, CallFits
<1>4. HiddenSound'
  BY <1>2, <1>3, Zenon DEF HiddenSound, CallFits
<1>5. ASSUME AloneSound, OneCall', CallCurrent(v)' PROVE AloneSound'
  <2>1. (\A d \in Names : CallCurrent(call[d]))'
    BY <1>1, <1>5, Zenon DEF AloneSound, CallCurrent
  <2>2. QED
    BY <1>5, <2>1, Zenon DEF AloneSound, CallCurrent
<1>6. QED
  BY <1>4, <1>5, Zenon


\* A challenge is asked for, and solved.
LEMMA NodeMoves ==
  ASSUME HiddenSound, NEW c \in Names, Hidden!Request(c) \/ Hidden!Solve(c) \/ Hidden!Solved(c)
  PROVE  HiddenSound' /\ (AloneSound /\ OneCall' => AloneSound')
<1>0. /\ call[c] \in Calls /\ CallFits(call[c]) /\ row \in Challenges /\ now \in Int /\ skew \in Int
      /\ issued \in Nat /\ row.id = issued /\ inTime \in BOOLEAN /\ missed \in BOOLEAN
  BY ChallengeAssumption DEF HiddenSound, HiddenTypes
<1>1. UNCHANGED <<now, skew, row, issued, inTime, missed, verdict>>
  BY Zenon DEF Hidden!Request, Hidden!Solve, Hidden!Solved
<1>2. CASE Hidden!Request(c)
  <2>1. CASE Hidden!Current
    <3>1. PICK v : v = [Hidden!Quiet EXCEPT !.at = "solve", !.challenge = row]
      BY Zenon
    <3>2. call' = [call EXCEPT ![c] = v]
      BY <1>2, <2>1, <3>1, Zenon DEF Hidden!Request
    <3>3. v \in Calls /\ v.at = "solve" /\ v.challenge = row
      BY <1>0, <3>1, QuietCall, Zenon DEF Calls
    <3>4. CallFits(v)' /\ CallCurrent(v)'
      BY <1>0, <1>1, <2>1, <3>3 DEF CallFits, CallCurrent, Hidden!Current
    <3>5. QED
      BY <1>0, <1>1, <3>2, <3>3, <3>4, CallMoves, Zenon
  <2>2. CASE ~Hidden!Current
    <3>1. PICK v : v = [Hidden!Quiet EXCEPT !.at = "issue"]
      BY Zenon
    <3>2. call' = [call EXCEPT ![c] = v]
      BY <1>2, <2>2, <3>1, Zenon DEF Hidden!Request
    <3>3. v \in Calls /\ v.at = "issue" /\ v.challenge = Hidden!NoRow
      BY <3>1, QuietCall, ZenonT(60) DEF Calls
    <3>4. CallFits(v)' /\ CallCurrent(v)'
      BY <1>0, <1>1, <3>3, QuietCall, SMTT(30) DEF CallFits, CallCurrent, HiddenSound
    <3>5. QED
      BY <1>0, <1>1, <3>2, <3>3, <3>4, CallMoves, Zenon
  <2>3. QED
    BY <2>1, <2>2, Zenon
<1>3. CASE Hidden!Solve(c)
  <2>0. PICK v : v = [call[c] EXCEPT !.at = "solving", !.startedAt = now + skew]
    BY Zenon
  <2>1. call' = [call EXCEPT ![c] = v] /\ call[c].at = "solve"
    BY <1>3, <2>0, Zenon DEF Hidden!Solve
  <2>2. v \in Calls /\ v.at = "solving" /\ v.challenge = call[c].challenge /\ v.startedAt = now + skew
    <3>1. now + skew \in Int
      BY <1>0
    <3>2. QED
      BY <1>0, <2>0, <3>1, Zenon DEF Calls
  <2>3. CallFits(v)'
    BY <1>0, <1>1, <2>2, ZenonT(60) DEF CallFits
  <2>4. AloneSound => CallCurrent(v)'
    BY <1>0, <1>1, <2>1, <2>2, SMTT(30) DEF AloneSound, CallCurrent, Challenges
  <2>5. QED
    BY <1>0, <1>1, <2>1, <2>2, <2>3, <2>4, CallMoves, Zenon
<1>4. CASE Hidden!Solved(c)
  <2>a. PICK correct \in BOOLEAN :
          call' = [call EXCEPT ![c] =
                     [call[c] EXCEPT !.at = "sent", !.finishedAt = now + skew, !.correct = correct]]
    BY <1>4, Zenon DEF Hidden!Solved
  <2>0. PICK v : v = [call[c] EXCEPT !.at = "sent", !.finishedAt = now + skew, !.correct = correct]
    BY Zenon
  <2>1. call' = [call EXCEPT ![c] = v] /\ call[c].at = "solving"
    BY <1>4, <2>a, <2>0, Zenon DEF Hidden!Solved
  <2>2. /\ v \in Calls /\ v.at = "sent" /\ v.challenge = call[c].challenge
        /\ v.startedAt = call[c].startedAt /\ v.finishedAt = now + skew
    <3>1. now + skew \in Int
      BY <1>0
    <3>2. QED
      BY <1>0, <2>0, <3>1, Zenon DEF Calls
  <2>3. CallFits(v)'
    BY <1>0, <1>1, <2>2, ZenonT(60) DEF CallFits
  <2>4. AloneSound => CallCurrent(v)'
    BY <1>0, <1>1, <2>1, <2>2, SMTT(30) DEF AloneSound, CallCurrent
  <2>5. QED
    BY <1>0, <1>1, <2>1, <2>2, <2>3, <2>4, CallMoves, Zenon
<1>5. QED
  BY <1>2, <1>3, <1>4, Zenon

\* An answer is judged: it passes only in time, and with one call at a time it
\* fails only for being wrong or late.
LEMMA RespondMoves ==
  ASSUME HiddenSound, NEW c \in Names, Hidden!Respond(c)
  PROVE  HiddenSound' /\ (AloneSound /\ OneCall' => AloneSound')
<1> DEFINE ch == call[c].challenge
           ok == Hidden!verifyChallenge(row, call[c])
<1>0. /\ call[c] \in Calls /\ CallFits(call[c]) /\ row \in Challenges /\ now \in Int /\ skew \in Int
      /\ issued \in Nat /\ row.id = issued /\ inTime \in BOOLEAN /\ missed \in BOOLEAN
      /\ skew <= Skew /\ 0 - Skew <= skew
  BY ChallengeAssumption DEF HiddenSound, HiddenTypes
<1>a. PICK v : v = IF row.passed # "null" THEN Hidden!Quiet
                   ELSE [call[c] EXCEPT !.at = IF ok THEN "pass" ELSE "fail"]
  BY Zenon
<1>1. /\ call' = [call EXCEPT ![c] = v] /\ call[c].at = "sent"
      /\ inTime' = (inTime \/ (call[c].correct /\ now <= ch.expiresAt + Grace))
      /\ missed' = (missed \/ ~call[c].correct \/ now > ch.expiresAt - Skew)
      /\ UNCHANGED <<now, skew, row, issued, verdict>>
  BY <1>a, Zenon DEF Hidden!Respond
<1>2. inTime' \in BOOLEAN /\ missed' \in BOOLEAN /\ (inTime => inTime') /\ (missed => missed')
  BY <1>0, <1>1, Zenon
<1>3. CASE row.passed # "null"
  <2>1. v = Hidden!Quiet
    BY <1>3, <1>a, ZenonT(60)
  <2>2. CallFits(Hidden!Quiet)' /\ CallCurrent(Hidden!Quiet)'
    BY <1>0, <1>1, QuietCall DEF CallFits, CallCurrent, HiddenSound
  <2>3. QED
    BY <1>1, <1>2, <2>1, <2>2, QuietCall, CallMoves, ZenonT(60)
<1>4. CASE row.passed = "null"
  <2>1. v = [call[c] EXCEPT !.at = IF ok THEN "pass" ELSE "fail"]
    BY <1>4, <1>a, Zenon
  <2> HIDE DEF ok
  <2>2. v \in Calls /\ v.at = (IF ok THEN "pass" ELSE "fail") /\ v.challenge = ch
    BY <1>0, <2>1, Zenon DEF Calls
  <2>3. ok => inTime'
    <3> SUFFICES ASSUME ok PROVE call[c].correct /\ now <= ch.expiresAt + Grace
      BY <1>1, Zenon
    <3>1. ch.id = row.id /\ call[c].correct /\ now <= row.expiresAt + Grace
      BY Zenon DEF ok, Hidden!verifyChallenge
    <3>2. QED
      BY <1>0, <3>1, Zenon DEF CallFits
  <2>4. CallFits(v)'
    BY <1>0, <1>1, <2>2, <2>3, ZenonT(60) DEF CallFits
  <2>5. ASSUME AloneSound, ~ok PROVE missed'
    <3> SUFFICES ASSUME call[c].correct, ~(now > ch.expiresAt - Skew) PROVE ok
      BY <1>1, <2>5, Zenon
    <3>1. /\ ch.id = row.id /\ row.expiresAt = row.issuedAt + Ttl
          /\ row.issuedAt + skew <= call[c].startedAt
          /\ call[c].startedAt <= call[c].finishedAt /\ call[c].finishedAt <= now + skew
      BY <1>1, <2>5, Zenon DEF AloneSound, CallCurrent
    <3>2. /\ ch.expiresAt = row.expiresAt /\ row.issuedAt \in Int /\ row.expiresAt \in Int
          /\ call[c].startedAt \in Int /\ call[c].finishedAt \in Int
      BY <1>0, <3>1, Zenon DEF CallFits, Calls, Challenges
    <3>3. now <= row.expiresAt - Skew
      BY <1>0, <3>2, ChallengeAssumption, SMTT(30)
    <3>4. QED
      BY <1>0, <3>1, <3>2, <3>3, ChallengeAssumption, SMTT(30) DEF ok, Hidden!verifyChallenge
  <2>6. AloneSound => CallCurrent(v)'
    BY <2>2, <2>5, Zenon DEF CallCurrent
  <2>7. QED
    BY <1>1, <1>2, <2>2, <2>4, <2>6, CallMoves, Zenon
<1>5. row.passed \in Verdicts
  BY <1>0, Zenon DEF Challenges
<1>6. QED
  BY <1>3, <1>4, Zenon


\* A challenge replaces the row: no call has its id yet.
LEMMA IssueMoves ==
  ASSUME HiddenSound, NEW c \in Names, Hidden!Issue(c)
  PROVE  HiddenSound' /\ (AloneSound /\ OneCall' => AloneSound')
<1>0. /\ call \in [Names -> Calls] /\ row \in Challenges /\ now \in 0..MaxTime /\ skew \in Int
      /\ issued \in Nat /\ row.id = issued
  BY ChallengeAssumption DEF HiddenSound, HiddenTypes
<1>1. /\ call[c].at = "issue" /\ issued' = issued + 1
      /\ row' = [id |-> issued + 1, issuedAt |-> now, expiresAt |-> now + Ttl, passed |-> "null"]
      /\ call' = [call EXCEPT ![c] = [call[c] EXCEPT !.at = "solve", !.challenge = row']]
      /\ UNCHANGED <<now, skew, inTime, missed, verdict>>
  BY Zenon DEF Hidden!Issue, Hidden!issueChallenge
<1>2. /\ row' \in Challenges /\ row'.id = issued + 1 /\ row'.issuedAt = now /\ row'.expiresAt = now + Ttl
      /\ row'.passed = "null"
  BY <1>0, <1>1, ChallengeAssumption DEF Challenges, Verdicts
<1>3. PICK v : v = [call[c] EXCEPT !.at = "solve", !.challenge = row']
  BY Zenon
<1>4. call'[c] = v /\ (\A d \in Names \ {c} : call'[d] = call[d])
  BY <1>0, <1>1, <1>3, Zenon
<1>5. v \in Calls /\ v.at = "solve" /\ v.challenge = row'
  BY <1>0, <1>2, <1>3, ZenonT(60) DEF Calls
<1>6. call' \in [Names -> Calls]
  BY <1>0, <1>1, <1>3, <1>5, Zenon
<1>7. HiddenTypes'
  BY <1>0, <1>1, <1>2, <1>6, SMTT(30) DEF HiddenSound, HiddenTypes
<1>8. (\A d \in Names : CallFits(call[d]))'
  <2> SUFFICES ASSUME NEW d \in Names PROVE CallFits(call[d])'
    BY Zenon
  <2>1. CASE d = c
    BY <1>0, <1>1, <1>2, <1>4, <1>5, <2>1, SMTT(30) DEF CallFits
  <2>2. CASE d # c
    <3>1. CallFits(call[d]) /\ call'[d] = call[d] /\ call[d].challenge.id \in Nat
      BY <1>0, <1>4, <2>2, Zenon DEF HiddenSound, Calls, Challenges
    <3>2. QED
      BY <1>0, <1>1, <1>2, <3>1, SMTT(30) DEF CallFits
  <2>3. QED
    BY <2>1, <2>2, Zenon
<1>9. HiddenSound'
  BY <1>0, <1>1, <1>2, <1>7, <1>8, SMTT(30) DEF HiddenSound
<1>10. ASSUME AloneSound, OneCall' PROVE AloneSound'
  <2>1. \A d \in Names \ {c} : call[d] = Hidden!Quiet
    BY <1>1, <1>10, QuietCall, ZenonT(60) DEF AloneSound, OneCall
  <2>2. (\A d \in Names : CallCurrent(call[d]))'
    BY <1>0, <1>2, <1>4, <1>5, <2>1, QuietCall, SMTT(30) DEF CallCurrent
  <2>3. QED
    BY <1>0, <1>1, <1>2, <1>10, <2>2, SMTT(30) DEF AloneSound
<1>11. QED
  BY <1>9, <1>10, Zenon

\* The verdict of a call goes to the row, and from there to the verifier; time passes.
LEMMA VerdictMoves ==
  ASSUME HiddenSound,
         Hidden!Verify \/ Hidden!Tick \/ UNCHANGED Hidden!vars \/ \E c \in Names : Hidden!Update(c)
  PROVE  HiddenSound' /\ (AloneSound /\ OneCall' => AloneSound')
<1>0. /\ call \in [Names -> Calls] /\ row \in Challenges /\ now \in 0..MaxTime /\ skew \in Int
      /\ issued \in Nat /\ row.id = issued
  BY ChallengeAssumption DEF HiddenSound, HiddenTypes
<1>1. CASE UNCHANGED Hidden!vars
  BY <1>1, Zenon
  DEF Hidden!vars, HiddenSound, HiddenTypes, CallFits, AloneSound, OneCall, CallCurrent
<1>2. CASE Hidden!Verify
  <2>1. verdict' = row.passed /\ UNCHANGED <<now, skew, row, issued, call, inTime, missed>>
    BY <1>2, Zenon DEF Hidden!Verify
  <2>2. HiddenTypes'
    BY <1>0, <2>1, Zenon DEF HiddenSound, HiddenTypes, Challenges
  <2>3. QED
    BY <2>1, <2>2, Zenon DEF HiddenSound, CallFits, AloneSound, OneCall, CallCurrent
<1>3. CASE Hidden!Tick
  <2>1. /\ now < MaxTime /\ now' = now + 1 /\ UNCHANGED <<skew, row, issued, call, inTime, missed, verdict>>
    BY <1>3, Zenon DEF Hidden!Tick
  <2>2. HiddenTypes' /\ (\A c \in Names : CallFits(call[c]))'
    BY <1>0, <2>1, ChallengeAssumption, SMTT(30) DEF HiddenSound, HiddenTypes, CallFits
  <2>3. AloneSound => (\A c \in Names : CallCurrent(call[c]))'
    <3> SUFFICES ASSUME NEW c \in Names, CallCurrent(call[c]) PROVE CallCurrent(call[c])'
      BY Zenon DEF AloneSound
    <3>1. call[c].startedAt \in Int /\ call[c].finishedAt \in Int
      BY <1>0, Zenon DEF Calls
    <3>2. QED
      BY <1>0, <2>1, <3>1, SMTT(30) DEF CallCurrent
  <2>4. row.issuedAt <= now => row.issuedAt <= now'
    BY <1>0, <2>1 DEF Challenges
  <2>5. QED
    BY <2>1, <2>2, <2>3, <2>4, Zenon DEF HiddenSound, AloneSound
<1>4. ASSUME NEW c \in Names, Hidden!Update(c)
      PROVE  HiddenSound' /\ (AloneSound /\ OneCall' => AloneSound')
  <2>1. /\ call[c].at \in {"pass", "fail"}
        /\ row' = (IF row.passed = "null" THEN [row EXCEPT !.passed = call[c].at] ELSE row)
        /\ call' = [call EXCEPT ![c] = Hidden!Quiet] /\ UNCHANGED <<now, skew, issued, inTime, missed, verdict>>
    BY <1>4, Zenon DEF Hidden!Update
  <2>2. /\ row' \in Challenges /\ row'.id = row.id /\ row'.issuedAt = row.issuedAt
        /\ row'.expiresAt = row.expiresAt /\ row'.passed \in {row.passed, call[c].at}
    BY <1>0, <2>1, Zenon DEF Challenges, Verdicts
  <2>3. /\ call'[c] = Hidden!Quiet /\ (\A d \in Names \ {c} : call'[d] = call[d])
        /\ call' \in [Names -> Calls]
    BY <1>0, <2>1, QuietCall, Zenon
  <2>4. HiddenTypes'
    BY <1>0, <2>1, <2>2, <2>3, ZenonT(60) DEF HiddenSound, HiddenTypes
  <2>5. (\A d \in Names : CallFits(call[d]))'
    BY <1>0, <2>1, <2>2, <2>3, QuietCall, SMTT(30) DEF HiddenSound, CallFits
  <2>6. HiddenSound'
    BY <2>1, <2>2, <2>4, <2>5, ZenonT(60) DEF HiddenSound, CallFits
  <2>7. ASSUME AloneSound, OneCall' PROVE AloneSound'
    <3>1. (\A d \in Names : CallCurrent(call[d]))'
      BY <2>1, <2>2, <2>3, <2>7, QuietCall, ZenonT(60) DEF AloneSound, CallCurrent
    <3>2. QED
      BY <2>1, <2>2, <2>7, <3>1, ZenonT(60) DEF AloneSound, CallCurrent
  <2>8. QED
    BY <2>6, <2>7, Zenon
<1>5. QED
  BY <1>1, <1>2, <1>3, <1>4, ZenonT(60)

\* Every step of the API and of the node keeps the two invariants.
LEMMA HiddenStep ==
  ASSUME HiddenSound, Hidden!Next \/ UNCHANGED Hidden!vars
  PROVE  HiddenSound' /\ (AloneSound /\ OneCall' => AloneSound')
  BY NodeMoves, RespondMoves, IssueMoves, VerdictMoves, Zenon DEF Hidden!Next


\* No verdict is replaced under its challenge (server.ts:1602).
LEMMA VerdictStays ==
  ASSUME HiddenSound, Hidden!Next \/ UNCHANGED Hidden!vars
  PROVE  Hidden!VerdictKept
<1>1. row.id = issued /\ issued \in Nat
  BY Zenon DEF HiddenSound, HiddenTypes
<1>2. ASSUME NEW c \in Names, Hidden!Issue(c) PROVE row'.id # row.id
  BY <1>1, <1>2 DEF Hidden!Issue, Hidden!issueChallenge
<1>3. ASSUME NEW c \in Names, Hidden!Update(c), row.passed # "null" PROVE row' = row
  BY <1>3, Zenon DEF Hidden!Update
<1>4. ASSUME \/ Hidden!Verify \/ Hidden!Tick \/ UNCHANGED Hidden!vars
             \/ \E c \in Names : Hidden!Request(c) \/ Hidden!Solve(c) \/ Hidden!Solved(c) \/ Hidden!Respond(c)
      PROVE  row' = row
  BY <1>4, Zenon DEF Hidden!Verify, Hidden!Tick, Hidden!vars, Hidden!Request, Hidden!Solve, Hidden!Solved, Hidden!Respond
<1>5. QED
  BY <1>2, <1>3, <1>4, Zenon DEF Hidden!Next, Hidden!VerdictKept

\* The invariant of the two cases with a challenge.
ChallengeSound ==
  /\ scenario \in {"alone", "overlap"} => HiddenSound
  /\ scenario = "alone" => AloneSound

\* They hold throughout the cases with a challenge.
LEMMA ChallengeInvariant == ApiSpec => []ChallengeSound
<1>1. ApiInit => ChallengeSound
  BY HiddenInit, Zenon DEF ApiInit, ChallengeSound
<1>2. ChallengeSound /\ [ApiNext]_all => ChallengeSound'
  <2> SUFFICES ASSUME ChallengeSound, [ApiNext]_all PROVE ChallengeSound'
    BY Zenon
  <2>1. ASSUME scenario \in {"alone", "overlap"} PROVE ChallengeSound'
    <3>1. scenario' = scenario /\ HiddenSound /\ (scenario = "alone" => AloneSound)
      BY <2>1, CaseSteps, Zenon DEF ChallengeSound
    <3>2. CASE Hidden!Next /\ (scenario = "alone" => OneCall')
      BY <3>1, <3>2, HiddenStep, Zenon DEF ChallengeSound
    <3>3. CASE UNCHANGED Hidden!vars
      <4>1. OneCall => OneCall'
        BY <3>3, Zenon DEF Hidden!vars, OneCall
      <4>2. QED
        BY <3>1, <3>3, <4>1, HiddenStep, Zenon DEF ChallengeSound, AloneSound
    <3>4. QED
      BY <2>1, <3>2, <3>3, CaseSteps, Zenon
  <2>2. QED
    BY <2>1, CaseSteps, Zenon DEF ChallengeSound
<1>3. QED
  BY <1>1, <1>2, PTL DEF ApiSpec

\* The verifier passes a job only on a right answer in time (server.ts:1601), and
\* with one process at a time fails it only on a wrong or a late one
\* (challenge.ts:119), for any number of processes and challenges.
THEOREM ChallengeIsFair == ApiSpec => []ChallengeFair
<1>1. HiddenSound => Hidden!TypeOK /\ Hidden!PassEarned
  BY Zenon DEF HiddenSound, HiddenTypes, CallFits, Hidden!TypeOK, Hidden!PassEarned, Calls, Challenges, Verdicts
<1>2. AloneSound => Hidden!FailureEarned
  BY Zenon DEF AloneSound, Hidden!FailureEarned
<1>3. ChallengeSound => ChallengeFair
  BY <1>1, <1>2, Zenon DEF ChallengeSound, ChallengeFair
<1>4. QED
  BY <1>3, ChallengeInvariant, PTL

-----------------------------------------------------------------------------
(* Heartbeats *)

Messages == [w: Workers, age: Int, free: BOOLEAN]
Reports == [nonce: Names, w: Workers, age: Int, free: BOOLEAN]
Requests == [n: Names, at: {"received", "checked"}]

BeatTypes ==
  /\ worker \in Workers /\ auth \subseteq Workers /\ busy \in BOOLEAN /\ rowBusy \in BOOLEAN
  /\ net \in [Names -> {Beats!NoMessage} \cup Messages]
  /\ handler \in [Handlers -> {Beats!Waiting} \cup Requests]
  /\ used \in [Names -> Beats!NotUsed..NonceLife + 1]
  /\ row \in {Beats!NoRow} \cup Reports
  /\ held \in [Workers -> Nat] /\ idle \in Nat /\ kept \subseteq Names

\* The machine was free at most Lead before the time stamp of a report that says so.
MessageSound(m) ==
  m # Beats!NoMessage =>
    /\ -Lead <= m.age /\ m.age <= MaxAge
    /\ m.free => idle <= m.age + Lead

\* A request under way is about a message in time; once it is checked, its worker was
\* the machine's at most Lead before the time stamp.
RequestSound(r) ==
  r # Beats!Waiting =>
    /\ net[r.n] # Beats!NoMessage /\ -Tolerance <= net[r.n].age
    /\ r.at = "checked" => held[net[r.n].w] <= net[r.n].age + Lead

\* The row was checked and, unless it is too old to count, is as fresh as its age
\* says.
RowSound ==
  /\ -Tolerance <= row.age /\ row.age <= MaxAge + 1
  /\ row # Beats!NoRow /\ row.age <= MaxAge =>
       /\ held[row.w] <= row.age + Lead
       /\ row.free => idle <= row.age + Lead

BeatsSound ==
  /\ BeatTypes
  /\ worker \in auth => held[worker] = 0
  /\ ~busy => idle = 0
  /\ \A n \in Names : MessageSound(net[n])
  /\ \A h \in Handlers : RequestSound(handler[h])
  /\ RowSound
  /\ \A n \in kept : net[n] # Beats!NoMessage => row.age <= net[n].age

\* A record is not the absence of one.
LEMMA NotNone ==
  /\ \A m \in Messages : m # Beats!NoMessage
  /\ \A r \in Requests : r # Beats!Waiting
  /\ \A r \in Reports : r # Beats!NoRow
  /\ Beats!Waiting.n \notin Names /\ Beats!Waiting.at \notin {"received", "checked"}
  /\ Beats!NoRow.age = MaxAge + 1
  BY HeartbeatsAssumption
  DEF Messages, Requests, Reports, Beats!NoMessage, Beats!Waiting, Beats!NoRow, Beats!Nobody

\* Before the first heartbeat nothing is reported.
LEMMA BeatsInit == Beats!Init => BeatsSound
<1> SUFFICES ASSUME Beats!Init PROVE BeatsSound
  BY Zenon
<1>1. /\ net = [n \in Names |-> Beats!NoMessage] /\ handler = [h \in Handlers |-> Beats!Waiting]
      /\ used = [n \in Names |-> Beats!NotUsed] /\ row = Beats!NoRow /\ idle = 0 /\ kept = {}
      /\ held = [w \in Workers |-> IF w = worker THEN 0 ELSE Fresh + Lead]
      /\ worker \in Workers /\ auth = Workers /\ busy = FALSE /\ rowBusy = FALSE
  BY Zenon DEF Beats!Init
<1>2. used \in [Names -> Beats!NotUsed..NonceLife + 1] /\ held \in [Workers -> Nat]
  BY <1>1, HeartbeatsAssumption DEF Beats!NotUsed
<1>3. /\ net \in [Names -> {Beats!NoMessage} \cup Messages]
      /\ handler \in [Handlers -> {Beats!Waiting} \cup Requests]
      /\ busy \in BOOLEAN /\ rowBusy \in BOOLEAN
  BY <1>1, Zenon
<1>4. BeatTypes
  BY <1>1, <1>2, <1>3, ZenonT(60) DEF BeatTypes
<1>5. RowSound
  BY <1>1, NotNone, HeartbeatsAssumption, SMTT(30) DEF RowSound
<1>6. (\A n \in Names : MessageSound(net[n])) /\ (\A h \in Handlers : RequestSound(handler[h]))
  BY <1>1, Zenon DEF MessageSound, RequestSound
<1>7. QED
  BY <1>1, <1>4, <1>5, <1>6, Zenon DEF BeatsSound

\* What has just been reported stays known while no time passes.
LEMMA Known ==
  ASSUME BeatsSound, BeatTypes', \A w \in Workers : held'[w] <= held[w], idle' <= idle,
         UNCHANGED <<net, row, kept>>
  PROVE  /\ \A n \in Names : MessageSound(net[n])'
         /\ \A h \in Handlers : handler'[h] = handler[h] => RequestSound(handler[h])'
         /\ RowSound'
         /\ (\A n \in kept : net[n] # Beats!NoMessage => row.age <= net[n].age)'
<1>1. /\ \A n \in Names : net[n] \in {Beats!NoMessage} \cup Messages
      /\ \A h \in Handlers : handler[h] \in {Beats!Waiting} \cup Requests
      /\ row \in {Beats!NoRow} \cup Reports /\ idle \in Nat /\ idle' \in Nat
      /\ \A w \in Workers : held[w] \in Nat /\ held'[w] \in Nat
  BY Zenon DEF BeatsSound, BeatTypes
<1>2. /\ \A n \in Names : MessageSound(net[n])
      /\ \A h \in Handlers : RequestSound(handler[h])
      /\ RowSound
      /\ \A n \in kept : net[n] # Beats!NoMessage => row.age <= net[n].age
      /\ net' = net /\ row' = row /\ kept' = kept
  BY Zenon DEF BeatsSound
<1>3. ASSUME NEW n \in Names PROVE MessageSound(net[n])'
  BY <1>1, <1>2, HeartbeatsAssumption, SMTT(30) DEF MessageSound, Messages
<1>4. ASSUME NEW h \in Handlers, handler'[h] = handler[h] PROVE RequestSound(handler[h])'
  <2>1. CASE handler[h] = Beats!Waiting
    BY <1>4, <2>1, ZenonT(60) DEF RequestSound
  <2>2. CASE handler[h] # Beats!Waiting
    <3>1. handler[h].n \in Names /\ net[handler[h].n] # Beats!NoMessage
      BY <1>1, <1>2, <2>2, Zenon DEF RequestSound, Requests
    <3>2. net[handler[h].n].w \in Workers /\ net[handler[h].n].age \in Int
      BY <1>1, <3>1, ZenonT(60) DEF Messages
    <3>3. QED
      BY <1>1, <1>2, <1>4, <3>2, HeartbeatsAssumption, SMTT(30) DEF RequestSound
  <2>3. QED
    BY <2>1, <2>2, Zenon
<1>5. RowSound'
  BY <1>1, <1>2, NotNone, HeartbeatsAssumption, SMTT(30) DEF RowSound, Reports
<1>6. QED
  BY <1>2, <1>3, <1>4, <1>5, Zenon

\* A new heartbeat is under way.
LEMMA SendKeeps ==
  ASSUME BeatsSound, NEW n \in Names, Beats!Send(n)
  PROVE  BeatsSound' /\ row' = row
<1>1. PICK lead \in -Lead..Lead :
        net' = [net EXCEPT ![n] = [w |-> worker, age |-> -lead, free |-> ~busy]]
  BY Zenon DEF Beats!Send
<1>2. PICK free \in BOOLEAN : free = ~busy
  BY Zenon DEF BeatsSound, BeatTypes
<1>3. PICK m : m = [w |-> worker, age |-> -lead, free |-> free]
  BY Zenon
<1>4. net' = [net EXCEPT ![n] = m]
  BY <1>1, <1>2, <1>3, Zenon
<1>5. m \in Messages /\ m.age = -lead /\ (m.free => free)
  BY <1>3, HeartbeatsAssumption DEF Messages, BeatsSound, BeatTypes
<1>6. /\ kept' = kept \ {n} /\ \A h \in Handlers : handler[h].n # n
      /\ UNCHANGED <<worker, auth, busy, rowBusy, handler, used, row, held, idle>>
  BY Zenon DEF Beats!Send, Beats!Unused
<1>7. BeatTypes'
  BY <1>4, <1>5, <1>6, Zenon DEF BeatsSound, BeatTypes
<1>8. (\A k \in Names : MessageSound(net[k]))'
  <2>1. free => idle = 0
    BY <1>2, Zenon DEF BeatsSound
  <2>2. MessageSound(m)'
    BY <1>5, <1>6, <2>1, HeartbeatsAssumption, SMTT(30) DEF MessageSound
  <2>3. \A k \in Names : net'[k] = m \/ net'[k] = net[k]
    BY <1>4, Zenon DEF BeatsSound, BeatTypes
  <2>4. \A k \in Names : MessageSound(net[k])
    BY Zenon DEF BeatsSound
  <2>5. QED
    BY <1>6, <2>2, <2>3, <2>4, Zenon DEF MessageSound
<1>9. (\A h \in Handlers : RequestSound(handler[h]))'
  <2>1. \A h \in Handlers : handler[h] # Beats!Waiting => handler[h].n \in Names
    BY Zenon DEF BeatsSound, BeatTypes, Requests
  <2>2. \A h \in Handlers : handler[h] # Beats!Waiting => net'[handler[h].n] = net[handler[h].n]
    BY <1>4, <1>6, <2>1, Zenon DEF BeatsSound, BeatTypes
  <2>3. QED
    BY <1>6, <2>2, Zenon DEF BeatsSound, RequestSound
<1>10. (\A k \in kept : net[k] # Beats!NoMessage => row.age <= net[k].age)'
  BY <1>4, <1>6, Zenon DEF BeatsSound, BeatTypes
<1>11. QED
  BY <1>6, <1>7, <1>8, <1>9, <1>10, Zenon DEF BeatsSound, RowSound

\* A copy of a heartbeat arrives.
LEMMA ReceiveKeeps ==
  ASSUME BeatsSound, NEW h \in Handlers, NEW n \in Names, Beats!Receive(h, n)
  PROVE  BeatsSound' /\ row' = row
<1>1. PICK r : r = [n |-> n, at |-> "received"]
  BY Zenon
<1>2. /\ handler' = [handler EXCEPT ![h] = r] /\ net[n] # Beats!NoMessage /\ -Tolerance <= net[n].age
      /\ UNCHANGED <<worker, auth, busy, rowBusy, net, used, row, held, idle, kept>>
  BY <1>1, HeartbeatsAssumption DEF Beats!Receive
<1>3. r \in Requests /\ r.n = n /\ r.at # "checked"
  BY <1>1, Zenon DEF Requests
<1>4. BeatTypes'
  BY <1>2, <1>3, Zenon DEF BeatsSound, BeatTypes
<1>5. /\ \A w \in Workers : held'[w] <= held[w]
      /\ idle' <= idle
  BY <1>2 DEF BeatsSound, BeatTypes
<1>6. (\A g \in Handlers : RequestSound(handler[g]))'
  <2>1. RequestSound(r)'
    BY <1>2, <1>3, Zenon DEF RequestSound
  <2>2. \A g \in Handlers : handler'[g] = r \/ handler'[g] = handler[g]
    BY <1>2, Zenon DEF BeatsSound, BeatTypes
  <2>3. QED
    BY <1>2, <1>4, <1>5, <2>1, <2>2, Known, ZenonT(60)
<1>7. QED
  BY <1>2, <1>4, <1>5, <1>6, Known, Zenon DEF BeatsSound

\* The handler has compared the worker with the accounts.
LEMMA CheckKeeps ==
  ASSUME BeatsSound, NEW h \in Handlers, Beats!Check(h)
  PROVE  BeatsSound' /\ row' = row
<1>1. handler[h] \in Requests /\ handler[h].at = "received"
  BY NotNone, Zenon DEF Beats!Check, BeatsSound, BeatTypes
<1>2. PICK r : r = IF Beats!Authorized(net[handler[h].n].w) THEN [handler[h] EXCEPT !.at = "checked"]
                                                           ELSE Beats!Waiting
  BY Zenon
<1>3. /\ handler' = [handler EXCEPT ![h] = r]
      /\ UNCHANGED <<worker, auth, busy, rowBusy, net, used, row, held, idle, kept>>
  BY <1>2, Zenon DEF Beats!Check
<1>4. r \in {Beats!Waiting} \cup Requests /\ (r # Beats!Waiting => r.n = handler[h].n)
  BY <1>1, <1>2, Zenon DEF Requests
<1>5. BeatTypes'
  BY <1>3, <1>4, Zenon DEF BeatsSound, BeatTypes
<1>6. /\ \A w \in Workers : held'[w] <= held[w]
      /\ idle' <= idle
  <2>1. held \in [Workers -> Nat] /\ idle \in Nat /\ held' = held /\ idle' = idle
    BY <1>3, ZenonT(60) DEF BeatsSound, BeatTypes
  <2>2. QED
    BY <2>1
<1>7. RequestSound(r)'
  <2>1. /\ handler[h].n \in Names /\ net[handler[h].n] # Beats!NoMessage
        /\ -Tolerance <= net[handler[h].n].age
    BY <1>1, NotNone, Zenon DEF BeatsSound, RequestSound, Requests
  <2>2. net[handler[h].n].age \in Int /\ -Lead <= net[handler[h].n].age
    BY <2>1, Zenon DEF BeatsSound, BeatTypes, MessageSound, Messages
  <2>3. r # Beats!Waiting => held[net[handler[h].n].w] = 0
    BY <1>2, Zenon DEF Beats!Authorized, BeatsSound
  <2>4. QED
    BY <1>3, <1>4, <2>1, <2>2, <2>3, HeartbeatsAssumption, SMTT(30) DEF RequestSound
<1>8. (\A g \in Handlers : RequestSound(handler[g]))'
  <2>1. \A g \in Handlers : handler'[g] = r \/ handler'[g] = handler[g]
    BY <1>3, Zenon DEF BeatsSound, BeatTypes
  <2>2. QED
    BY <1>3, <1>5, <1>6, <1>7, <2>1, Known, Zenon
<1>9. QED
  BY <1>3, <1>5, <1>6, <1>8, Known, Zenon DEF BeatsSound

\* record_heartbeat keeps the newest report: what becomes the row is newer than the
\* row and has not been it before.
LEMMA RecordKeeps ==
  ASSUME BeatsSound, NEW h \in Handlers, Beats!Record(h)
  PROVE  BeatsSound' /\ Beats!MovesForward
<1>1. handler[h] \in Requests /\ handler[h].at = "checked"
  BY NotNone, Zenon DEF Beats!Record, BeatsSound, BeatTypes
<1>2. PICK n \in Names : n = handler[h].n
  BY <1>1, Zenon DEF Requests
<1>3. /\ handler' = [handler EXCEPT ![h] = Beats!Waiting]
      /\ UNCHANGED <<worker, auth, busy, rowBusy, net, held, idle>>
  BY Zenon DEF Beats!Record
<1>4. /\ net[n] \in Messages /\ net[n] # Beats!NoMessage /\ -Tolerance <= net[n].age
      /\ net[n].age <= MaxAge /\ held[net[n].w] <= net[n].age + Lead
      /\ net[n].free => idle <= net[n].age + Lead
  BY <1>1, <1>2, NotNone, Zenon DEF BeatsSound, BeatTypes, RequestSound, MessageSound
<1>5. (\A g \in Handlers : RequestSound(handler[g]))'
  <2>1. \A g \in Handlers : handler'[g] = Beats!Waiting \/ handler'[g] = handler[g]
    BY <1>3, Zenon DEF BeatsSound, BeatTypes
  <2>2. QED
    BY <1>3, <2>1, Zenon DEF BeatsSound, RequestSound
<1>6. (\A k \in Names : MessageSound(net[k]))'
  BY <1>3, Zenon DEF BeatsSound, MessageSound
<1>7. used' \in [Names -> Beats!NotUsed..NonceLife + 1]
  <2>1. CASE used[n] # Beats!NotUsed
    BY <1>2, <2>1, Zenon DEF Beats!Record, BeatsSound, BeatTypes
  <2>2. CASE used[n] = Beats!NotUsed
    <3>1. used' = [m \in Names |-> IF m = n THEN 0
                                   ELSE IF used[m] > NonceLife THEN Beats!NotUsed ELSE used[m]]
      BY <1>2, <2>2, Zenon DEF Beats!Record
    <3>2. QED
      BY <3>1, HeartbeatsAssumption DEF BeatsSound, BeatTypes, Beats!NotUsed
  <2>3. QED
    BY <2>1, <2>2, Zenon
<1>8. CASE row' = row /\ kept' = kept
  <2>1. BeatTypes'
    BY <1>3, <1>7, <1>8, Zenon DEF BeatsSound, BeatTypes
  <2>2. QED
    BY <1>3, <1>5, <1>6, <1>8, <2>1, Zenon DEF BeatsSound, RowSound, Beats!MovesForward
<1>9. CASE /\ Beats!Newer(n) /\ kept' = kept \cup {n}
           /\ row' = [nonce |-> n, w |-> net[n].w, age |-> net[n].age, free |-> net[n].free]
  <2>1. /\ row' \in Reports /\ row'.nonce = n /\ row'.w = net[n].w
        /\ row'.age = net[n].age /\ row'.free = net[n].free
    BY <1>4, <1>9, Zenon DEF Messages, Reports
  <2>2. BeatTypes'
    BY <1>3, <1>7, <1>9, <2>1, Zenon DEF BeatsSound, BeatTypes
  <2>3. RowSound'
    <3>1. row'.age <= MaxAge + 1
      <4>1. net[n].age \in Int
        BY <1>4, Zenon DEF Messages
      <4>2. QED
        BY <1>4, <2>1, <4>1, HeartbeatsAssumption, SMTT(30)
    <3>2. QED
      BY <1>3, <1>4, <2>1, <3>1, ZenonT(60) DEF RowSound
  <2>4. row'.age < row.age /\ row.age \in Int /\ row'.age \in Int
    <3>1. row'.age < row.age
      BY <1>9, <2>1, Zenon DEF Beats!Newer
    <3>2. MaxAge + 1 \in Int
      BY HeartbeatsAssumption
    <3>3. row.age \in Int
      BY <3>2, NotNone, Zenon DEF BeatsSound, BeatTypes, Reports
    <3>4. row'.age \in Int
      BY <2>1, Zenon DEF Reports
    <3>5. QED
      BY <3>1, <3>3, <3>4, Zenon
  <2>5. n \notin kept
    BY <1>4, <2>1, <2>4 DEF BeatsSound
  <2>6. (\A k \in kept : net[k] # Beats!NoMessage => row.age <= net[k].age)'
    <3> SUFFICES ASSUME NEW k \in kept', net[k] # Beats!NoMessage PROVE row'.age <= net[k].age
      BY <1>3, Zenon
    <3>1. CASE k = n
      BY <2>1, <2>4, <3>1
    <3>2. CASE k \in kept
      <4>1. net[k].age \in Int /\ row.age <= net[k].age
        BY <3>2, Zenon DEF BeatsSound, BeatTypes, Messages
      <4>2. QED
        BY <2>4, <4>1
    <3>3. QED
      BY <1>9, <3>1, <3>2, Zenon
  <2>7. QED
    BY <1>3, <1>5, <1>6, <2>1, <2>2, <2>3, <2>4, <2>5, <2>6, ZenonT(60) DEF BeatsSound, Beats!MovesForward
<1>10. QED
  BY <1>2, <1>8, <1>9, Zenon DEF Beats!Record

\* The chain, its projection and forgotten nonces leave the row alone.
LEMMA ChainKeeps ==
  ASSUME BeatsSound,
         \/ Beats!Purge \/ Beats!Engage \/ Beats!Index
         \/ \E w \in Workers : Beats!SetWorker(w) \/ Beats!Authorize(w)
  PROVE  BeatsSound' /\ row' = row
<1>1. UNCHANGED <<net, handler, row, kept>>
  BY Zenon DEF Beats!Purge, Beats!Engage, Beats!Index, Beats!SetWorker, Beats!Authorize
<1> DEFINE Kept == /\ BeatTypes' /\ (worker \in auth => held[worker] = 0)' /\ (~busy => idle = 0)'
                   /\ \A w \in Workers : held'[w] <= held[w]
                   /\ idle' <= idle
<1>2. ASSUME Beats!Purge PROVE Kept
  <2>1. used' = [n \in Names |-> IF used[n] > NonceLife THEN Beats!NotUsed ELSE used[n]]
    BY <1>2, Zenon DEF Beats!Purge
  <2>2. used' \in [Names -> Beats!NotUsed..NonceLife + 1]
    BY <2>1, HeartbeatsAssumption, SMTT(30) DEF BeatsSound, BeatTypes, Beats!NotUsed
  <2>3. QED
    BY <1>2, <2>2 DEF Beats!Purge, BeatsSound, BeatTypes
<1>3. ASSUME Beats!Engage PROVE Kept
  <2>1. busy' \in BOOLEAN
    BY <1>3, Zenon DEF Beats!Engage, BeatsSound, BeatTypes
  <2>2. QED
    BY <1>3, <2>1 DEF Beats!Engage, BeatsSound, BeatTypes
<1>4. ASSUME Beats!Index PROVE Kept
  BY <1>4, SMTT(30) DEF Beats!Index, BeatsSound, BeatTypes
<1>5. ASSUME NEW w \in Workers, Beats!SetWorker(w) PROVE Kept
  BY <1>5 DEF Beats!SetWorker, BeatsSound, BeatTypes
<1>6. ASSUME NEW w \in Workers, Beats!Authorize(w) PROVE Kept
  <2>1. /\ auth' \subseteq Workers
        /\ worker \in auth' => worker \in auth \/ (w = worker /\ w \notin auth)
    <3>1. auth' = IF w \in auth THEN auth \ {w} ELSE auth \cup {w}
      BY <1>6, Zenon DEF Beats!Authorize
    <3>2. QED
      BY <3>1, Zenon DEF BeatsSound, BeatTypes
  <2>2. UNCHANGED <<worker, busy, rowBusy, used, idle>>
    BY <1>6, Zenon DEF Beats!Authorize
  <2>3. CASE w \notin auth /\ w = worker
    <3>1. held' = [held EXCEPT ![w] = 0]
      BY <1>6, <2>3, ZenonT(60) DEF Beats!Authorize
    <3>2. QED
      BY <1>1, <2>1, <2>2, <2>3, <3>1, SMTT(30) DEF BeatsSound, BeatTypes
  <2>4. CASE w \in auth \/ w # worker
    <3>1. held' = held
      BY <1>6, <2>4, Zenon DEF Beats!Authorize
    <3>2. QED
      BY <1>1, <2>1, <2>2, <2>4, <3>1, SMTT(30) DEF BeatsSound, BeatTypes
  <2>5. QED
    BY <2>3, <2>4, Zenon
<1>7. Kept
  BY <1>2, <1>3, <1>4, <1>5, <1>6, Zenon
<1>8. QED
  BY <1>1, <1>7, Known, Zenon DEF BeatsSound

\* What a message and the row say of the machine ages no more slowly than they do.
LEMMA TickKeeps ==
  ASSUME BeatsSound, Beats!Tick
  PROVE  BeatsSound' /\ row'.nonce = row.nonce
<1>1. /\ \A n \in Names : net[n] \in {Beats!NoMessage} \cup Messages
      /\ \A h \in Handlers : handler[h] \in {Beats!Waiting} \cup Requests
      /\ row \in {Beats!NoRow} \cup Reports /\ idle \in Nat
      /\ \A w \in Workers : held[w] \in Nat
      /\ kept \subseteq Names
  BY Zenon DEF BeatsSound, BeatTypes
<1>2. /\ \A n \in Names : MessageSound(net[n])
      /\ \A h \in Handlers : RequestSound(handler[h])
      /\ RowSound
  BY Zenon DEF BeatsSound
<1>3. UNCHANGED <<worker, auth, busy, rowBusy, handler, kept>>
  BY Zenon DEF Beats!Tick
<1>4. ASSUME NEW n \in Names, net[n] # Beats!NoMessage, \E h \in Handlers : handler[h].n = n
      PROVE  net[n].age < MaxAge
  BY <1>4, NotNone, Zenon DEF Beats!Tick
<1>5. ASSUME NEW n \in Names
      PROVE  \/ net'[n] = Beats!NoMessage /\ \A h \in Handlers : handler[h] # Beats!Waiting => handler[h].n # n
             \/ /\ net[n] # Beats!NoMessage /\ net'[n] \in Messages /\ net[n].age < MaxAge
                /\ net'[n].w = net[n].w /\ net'[n].age = net[n].age + 1 /\ net'[n].free = net[n].free
  <2>1. net'[n] = IF net[n] = Beats!NoMessage THEN Beats!NoMessage
                  ELSE IF net[n].age >= Tolerance /\ \A h \in Handlers : handler[h].n # n THEN Beats!NoMessage
                  ELSE [net[n] EXCEPT !.age = @ + 1]
    BY Zenon DEF Beats!Tick
  <2>2. CASE net[n] = Beats!NoMessage
    BY <1>2, <2>1, <2>2, Zenon DEF RequestSound
  <2>3. CASE net[n] # Beats!NoMessage /\ net[n].age >= Tolerance /\ \A h \in Handlers : handler[h].n # n
    BY <2>1, <2>3, Zenon
  <2>4. CASE net[n] # Beats!NoMessage /\ ~(net[n].age >= Tolerance /\ \A h \in Handlers : handler[h].n # n)
    <3>1. net[n] \in Messages /\ net[n].age \in Int
      BY <1>1, <2>4, Zenon DEF Messages
    <3>2. net[n].age < MaxAge
      BY <1>4, <2>4, <3>1, HeartbeatsAssumption, SMTT(30)
    <3>3. net'[n] = [net[n] EXCEPT !.age = @ + 1]
      BY <2>1, <2>4, Zenon
    <3>4. QED
      BY <2>4, <3>1, <3>2, <3>3, SMTT(30) DEF Messages
  <2>5. QED
    BY <2>2, <2>3, <2>4, Zenon
<1>6. /\ row' \in {Beats!NoRow} \cup Reports /\ row'.w = row.w /\ row'.free = row.free /\ row'.nonce = row.nonce
      /\ row'.age \in Int /\ row.age \in Int /\ row.age <= row'.age /\ row'.age <= row.age + 1 /\ row'.age <= MaxAge + 1
      /\ row.age <= MaxAge => row'.age = row.age + 1
      /\ row' # Beats!NoRow => row # Beats!NoRow
  <2>1. CASE row = Beats!NoRow
    <3>1. row' = row /\ row.age = MaxAge + 1
      BY <2>1, NotNone, Zenon DEF Beats!Tick
    <3>2. QED
      BY <2>1, <3>1, HeartbeatsAssumption
  <2>2. CASE row # Beats!NoRow
    <3>1. row \in Reports /\ row.age \in Int /\ row.age <= MaxAge + 1
      BY <1>1, <1>2, <2>2, Zenon DEF RowSound, Reports
    <3>2. row' = [row EXCEPT !.age = IF row.age < MaxAge + 1 THEN row.age + 1 ELSE row.age]
      BY <2>2, Zenon DEF Beats!Tick, Beats!Older
    <3>3. QED
      BY <2>2, <3>1, <3>2, HeartbeatsAssumption, SMTT(30) DEF Reports
  <2>3. QED
    BY <2>1, <2>2, Zenon
<1>7. /\ held' \in [Workers -> Nat]
      /\ \A w \in Workers : held'[w] <= held[w] + 1
      /\ worker \in auth => held'[worker] = 0
  <2>1. held' = [w \in Workers |-> IF w = worker /\ w \in auth THEN 0
                                   ELSE IF held[w] < Fresh + Lead THEN held[w] + 1 ELSE held[w]]
    BY Zenon DEF Beats!Tick, Beats!Authorized, Beats!Older
  <2>2. worker \in Workers
    BY Zenon DEF BeatsSound, BeatTypes
  <2>3. QED
    BY <1>1, <2>1, <2>2, SMTT(30)
<1>8. idle' \in Nat /\ idle' <= idle + 1 /\ (~busy => idle' = 0)
  BY <1>1 DEF Beats!Tick, Beats!Older
<1>9. BeatTypes'
  <2>1. used' \in [Names -> Beats!NotUsed..NonceLife + 1]
    <3>1. used' = [n \in Names |-> IF used[n] = Beats!NotUsed THEN Beats!NotUsed
                    ELSE IF used[n] < NonceLife + 1 THEN used[n] + 1 ELSE used[n]]
      BY Zenon DEF Beats!Tick, Beats!Older
    <3>2. QED
      BY <3>1, HeartbeatsAssumption DEF BeatsSound, BeatTypes, Beats!NotUsed
  <2>2. net' \in [Names -> {Beats!NoMessage} \cup Messages]
    <3>1. net' = [n \in Names |-> net'[n]]
      BY Zenon DEF Beats!Tick
    <3>2. QED
      BY <1>5, <3>1, Zenon
  <2>3. QED
    BY <1>3, <1>6, <1>7, <1>8, <2>1, <2>2, ZenonT(60) DEF BeatsSound, BeatTypes
<1>10. ASSUME NEW n \in Names PROVE MessageSound(net[n])'
  <2>1. CASE net'[n] = Beats!NoMessage
    BY <2>1, Zenon DEF MessageSound
  <2>2. CASE net'[n] # Beats!NoMessage
    <3>1. net[n].age \in Int
      BY <1>1, <1>5, <2>2, Zenon DEF Messages
    <3>2. QED
      BY <1>1, <1>2, <1>5, <1>8, <2>2, <3>1, HeartbeatsAssumption, SMTT(30) DEF MessageSound
  <2>3. QED
    BY <2>1, <2>2, Zenon
<1>11. ASSUME NEW h \in Handlers PROVE RequestSound(handler[h])'
  <2>1. CASE handler[h] = Beats!Waiting
    BY <1>3, <2>1, Zenon DEF RequestSound
  <2>2. CASE handler[h] # Beats!Waiting
    <3>1. PICK n \in Names : n = handler[h].n
      BY <1>1, <2>2, Zenon DEF Requests
    <3>2. /\ net[n] # Beats!NoMessage /\ -Tolerance <= net[n].age
          /\ handler[h].at = "checked" => held[net[n].w] <= net[n].age + Lead
      BY <1>2, <2>2, <3>1, Zenon DEF RequestSound
    <3>3. net[n].age \in Int /\ net[n].w \in Workers
      BY <1>1, <3>2, Zenon DEF Messages
    <3>4. /\ net'[n] \in Messages /\ net'[n].w = net[n].w /\ net'[n].age = net[n].age + 1
      BY <1>5, <2>2, <3>1, Zenon
    <3>5. held'[net[n].w] <= held[net[n].w] + 1 /\ held[net[n].w] \in Nat /\ held'[net[n].w] \in Nat
      BY <1>1, <1>7, <3>3, ZenonT(60)
    <3>6. QED
      <4>1. /\ net'[n] # Beats!NoMessage /\ -Tolerance <= net'[n].age
            /\ handler[h].at = "checked" => held'[net'[n].w] <= net'[n].age + Lead
        BY <3>2, <3>3, <3>4, <3>5, NotNone, HeartbeatsAssumption, SMTT(30)
      <4>2. QED
        BY <1>3, <3>1, <4>1, ZenonT(60) DEF RequestSound
  <2>3. QED
    BY <2>1, <2>2, Zenon
<1>12. RowSound'
  <2>1. row # Beats!NoRow => row.w \in Workers
    BY <1>1, Zenon DEF Reports
  <2>2. QED
    BY <1>1, <1>2, <1>6, <1>7, <1>8, <2>1, HeartbeatsAssumption, SMTT(30) DEF RowSound
<1>13. ASSUME NEW n \in kept, net'[n] # Beats!NoMessage PROVE row'.age <= net'[n].age
  <2>1. net[n] # Beats!NoMessage /\ net'[n].age = net[n].age + 1 /\ net[n].age \in Int
    BY <1>1, <1>5, <1>13, Zenon DEF Messages
  <2>2. row.age <= net[n].age
    BY <2>1, Zenon DEF BeatsSound
  <2>3. QED
    BY <1>6, <2>1, <2>2, SMTT(30)
<1>14. QED
  BY <1>3, <1>6, <1>7, <1>8, <1>9, <1>10, <1>11, <1>12, <1>13, Zenon DEF BeatsSound

\* Every step of the case keeps what is known, and moves the row only forward.
LEMMA BeatStep ==
  ASSUME BeatsSound, Beats!Next \/ UNCHANGED Beats!vars
  PROVE  BeatsSound' /\ Beats!MovesForward
<1>1. ASSUME row'.nonce = row.nonce PROVE Beats!MovesForward
  BY <1>1, Zenon DEF Beats!MovesForward
<1>2. CASE UNCHANGED Beats!vars
  BY <1>1, <1>2, Zenon DEF Beats!vars, BeatsSound, BeatTypes, MessageSound, RequestSound, RowSound
<1>3. CASE Beats!Next
  BY <1>1, <1>3, SendKeeps, ReceiveKeeps, CheckKeeps, RecordKeeps, ChainKeeps, TickKeeps, Zenon
  DEF Beats!Next
<1>4. QED
  BY <1>2, <1>3, Zenon

\* What is known of the machine holds throughout the cases with heartbeats.
LEMMA HeartbeatsInvariant == ApiSpec => [](scenario \in {"delayed", "replaced"} => BeatsSound)
<1>1. ApiInit => (scenario \in {"delayed", "replaced"} => BeatsSound)
  BY BeatsInit, Zenon DEF ApiInit
<1>2. (scenario \in {"delayed", "replaced"} => BeatsSound) /\ [ApiNext]_all
        => (scenario \in {"delayed", "replaced"} => BeatsSound)'
  BY CaseSteps, BeatStep, Zenon
<1>3. QED
  BY <1>1, <1>2, PTL DEF ApiSpec

\* quoteSupply keeps a machine only on the word of a worker that was its own
\* authorized one and on a report from when it was free, less than the age limit and
\* a clock's lead ago (server.ts:1437-1458, pricing/index.ts:39-41), however many
\* messages, copies and requests are under way and whatever the limits are.
THEOREM QuotesAreEarned == ApiSpec => []QuotedWasUp
<1>1. BeatsSound => Beats!TypeOK
  <2> SUFFICES ASSUME BeatsSound PROVE Beats!TypeOK
    BY Zenon
  <2>1. \A n \in Names : \/ net[n] = Beats!NoMessage
                         \/ net[n].w \in Workers /\ net[n].age \in -Lead..MaxAge
    BY HeartbeatsAssumption DEF BeatsSound, BeatTypes, MessageSound, Messages
  <2>2. \A h \in Handlers : \/ handler[h] = Beats!Waiting
                            \/ /\ net[handler[h].n] # Beats!NoMessage
                               /\ handler[h].at \in {"received", "checked"}
    BY ZenonT(60) DEF BeatsSound, BeatTypes, RequestSound, Requests
  <2>3. row.age \in -Tolerance..MaxAge + 1 /\ (row = Beats!NoRow \/ row.w \in Workers)
    BY NotNone, HeartbeatsAssumption, SMTT(30) DEF BeatsSound, BeatTypes, RowSound, Reports
  <2>4. QED
    BY <2>1, <2>2, <2>3, Zenon DEF BeatsSound, BeatTypes, Beats!TypeOK
<1>2. BeatsSound => Beats!QuotedWasUp
  <2> SUFFICES ASSUME BeatsSound, Beats!Quoted
               PROVE  held[row.w] < Fresh + Lead /\ idle < Fresh + Lead
    BY Zenon DEF Beats!QuotedWasUp
  <2>1. row \in Reports /\ row # Beats!NoRow /\ row.free /\ row.age < Fresh
    BY Zenon DEF Beats!Quoted, Beats!Available, BeatsSound, BeatTypes
  <2>2. row.age \in Int /\ row.w \in Workers /\ held[row.w] \in Nat /\ idle \in Nat
    BY <2>1, Zenon DEF Reports, BeatsSound, BeatTypes
  <2>3. held[row.w] <= row.age + Lead /\ idle <= row.age + Lead
    BY <2>1, <2>2, HeartbeatsAssumption DEF BeatsSound, RowSound
  <2>4. QED
    BY <2>1, <2>2, <2>3, HeartbeatsAssumption, SMTT(30)
<1>3. (scenario \in {"delayed", "replaced"} => BeatsSound) => QuotedWasUp
  BY <1>1, <1>2, Zenon DEF QuotedWasUp
<1>4. QED
  BY <1>3, HeartbeatsInvariant, PTL

\* A verdict is replaced only with its challenge (server.ts:1602), and the row of
\* heartbeats never returns to an older report or takes a message twice, also after
\* its nonce has been forgotten (record_heartbeat).
THEOREM RowsOnlyForward == ApiSpec => RowsForward
<1>1. ASSUME ChallengeSound, scenario \in {"delayed", "replaced"} => BeatsSound, [ApiNext]_all
      PROVE  [/\ scenario \in {"alone", "overlap"} => Hidden!VerdictKept
              /\ scenario \in {"delayed", "replaced"} => Beats!MovesForward]_all
  <2>1. scenario \in {"alone", "overlap"} => Hidden!VerdictKept
    BY <1>1, CaseSteps, VerdictStays, Zenon DEF ChallengeSound
  <2>2. scenario \in {"delayed", "replaced"} => Beats!MovesForward
    BY <1>1, CaseSteps, BeatStep, Zenon
  <2>3. QED
    BY <2>1, <2>2, Zenon
<1>2. QED
  BY <1>1, ChallengeInvariant, HeartbeatsInvariant, PTL DEF ApiSpec, RowsForward

-----------------------------------------------------------------------------
(* The list of offers *)

\* What the proof uses of OfferPagesAssumption: ids are naturals above 0.
LEMMA IdsAreNaturals == Ids \subseteq Nat /\ 0 \notin Ids
  BY OfferPagesAssumption, Zenon

\* So every row is after the cursor of a first page.
LEMMA IdsArePositive == \A i \in Ids : i > 0
<1> TAKE i \in Ids
<1>1. i \in Nat /\ i # 0
  BY IdsAreNaturals, Zenon
<1> QED  BY <1>1

\* What a page and its cursor say: a row after the request's cursor and up to
\* the page's own, or any such row when there is no further page, is on the page
\* (offerPage, server.ts:391-398).
PagesWhole ==
  \A after \in Ids \cup {0} : \A next \in NextCursor(after) : \A o \in offers :
     o > after /\ (next = 0 \/ o <= next) => o \in Page(after)

\* A page and its cursor are of their types.
LEMMA PageTypes ==
  ASSUME offers \subseteq Ids, NEW after
  PROVE  Page(after) \subseteq Ids /\ NextCursor(after) \subseteq Ids \cup {0}
  BY Zenon DEF Page, NextCursor, Rest

\* The list starts empty with its first page under way (exchange.tsx:155-156).
LEMMA PagesInitially == Init => PagesInv
<1> SUFFICES ASSUME Init PROVE PagesInv
  BY Zenon
<1>1. PICK s \in Slot :
        req = [t \in Slot |-> IF t = s THEN Asked("refresh", 0) ELSE Idle]
  BY Zenon DEF Init
<1>2. TypeOK
  BY <1>1, Zenon DEF Init, TypeOK, Idle, Asked
<1>3. OneAtATime
  BY <1>1, Zenon DEF Init, OneAtATime, Idle, Asked
<1>4. AnswerComplete /\ NoGap
  BY <1>1, Zenon DEF Init, AnswerComplete, NoGap, Idle, Asked
<1> QED  BY <1>2, <1>3, <1>4, SMTT(30) DEF PagesInv

\* A request under way has no answer yet.
LEMMA AskedFields ==
  ASSUME NEW kind, NEW after
  PROVE  Asked(kind, after).kind = kind /\ Asked(kind, after).after = after /\ ~Asked(kind, after).served
  BY Zenon DEF Asked

\* A slot without a request has no base to take an offer from.
LEMMA IdleStays ==
  ASSUME NEW o
  PROVE  [Idle EXCEPT !.base = @ \ {o}] = Idle
  BY DEF Idle, Asked

\* Asking for a page: it continues the list, or starts it anew.
LEMMA AskKeeps ==
  ASSUME Patient, PagesInv, NEW s \in Slot, Refresh(s) \/ LoadMore(s)
  PROVE  PagesInv'
<1>1. PICK kind \in {"refresh", "more"}, after \in Ids \cup {0} :
        /\ req' = [req EXCEPT ![s] = Asked(kind, after)]
        /\ kind = "refresh" => after = 0
        /\ kind = "more" => after = cursor
  <2>1. cursor \in Ids \cup {0}
    BY Zenon DEF PagesInv, TypeOK
  <2> QED  BY <2>1 DEF Refresh, LoadMore
<1>2. \A t \in Slot : req[t].kind = "none"
  <2>1. CASE Refresh(s)
    <3>1. \A t \in Slot : req[t] = Idle
      BY <2>1, Zenon DEF Refresh
    <3>2. Idle.kind = "none"
      BY DEF Idle, Asked
    <3> QED  BY <3>1, <3>2, Zenon
  <2>2. CASE LoadMore(s)
    BY <2>2, Zenon DEF LoadMore, PagesInv, OneAtATime
  <2> QED  BY <2>1, <2>2
<1>3. loading' = TRUE /\ UNCHANGED <<offers, shown, cursor, stable>>
  BY Zenon DEF Refresh, LoadMore
<1>4. req'[s] = Asked(kind, after) /\ \A t \in Slot \ {s} : req'[t] = req[t]
  BY <1>1, Zenon DEF PagesInv, TypeOK
<1>5. TypeOK'
  BY <1>1, <1>3, ZenonT(60) DEF PagesInv, TypeOK, Asked
<1>6. req'[s].kind = kind /\ req'[s].after = after /\ ~req'[s].served
  <2>1. /\ Asked(kind, after).kind = kind /\ Asked(kind, after).after = after
        /\ ~Asked(kind, after).served
    BY AskedFields, Zenon
  <2> QED  BY <1>4, <2>1, Zenon
<1>7. OneAtATime'
  BY <1>1, <1>2, <1>3, <1>4, <1>6, SMTT(30) DEF PagesInv, OneAtATime
<1>8. AnswerComplete' /\ NoGap'
  BY <1>3, <1>4, <1>6, ZenonT(60) DEF PagesInv, AnswerComplete, NoGap
<1> QED  BY <1>5, <1>7, <1>8, Zenon DEF PagesInv

\* Reading a page: it has all offers of its part of the list.
LEMMA ServeKeeps ==
  ASSUME PagesInv, PagesWhole, NEW s \in Slot, Serve(s)
  PROVE  PagesInv'
<1>1. PICK next \in NextCursor(req[s].after) :
        req' = [req EXCEPT ![s].served = TRUE, ![s].ids = Page(req[s].after), ![s].next = next,
                           ![s].base = offers]
  BY Zenon DEF Serve
<1>2. UNCHANGED <<offers, shown, cursor, loading, stable>> /\ req[s].kind # "none"
  BY Zenon DEF Serve
<1> DEFINE after == req[s].after
           ids == Page(after)
<1>3. after \in Ids \cup {0} /\ ids \subseteq Ids /\ next \in Ids \cup {0}
  BY <1>1, PageTypes, Zenon DEF PagesInv, TypeOK
<1>4. \A o \in offers : o > after /\ (next = 0 \/ o <= next) => o \in ids
  BY <1>1, <1>3, Zenon DEF PagesWhole
<1> HIDE DEF ids
<1>5. /\ req'[s] = [kind |-> req[s].kind, after |-> after, served |-> TRUE, ids |-> ids,
                    next |-> next, base |-> offers]
      /\ req'[s].kind = req[s].kind /\ req'[s].after = req[s].after
  <2> DEFINE answer == [kind |-> req[s].kind, after |-> after, served |-> TRUE, ids |-> ids,
                        next |-> next, base |-> offers]
  <2>1. req'[s] = answer
    BY <1>1, ZenonT(200) DEF PagesInv, TypeOK, ids
  <2>2. answer.kind = req[s].kind /\ answer.after = req[s].after
    BY Zenon
  <2>3. req'[s].kind = req[s].kind /\ req'[s].after = req[s].after
    <3> HIDE DEF answer
    <3> QED  BY <2>1, <2>2, Zenon
  <2> QED  BY <2>1, <2>3, Zenon
<1>6. \A t \in Slot \ {s} : req'[t] = req[t]
  BY <1>1, Zenon DEF PagesInv, TypeOK
<1>7. TypeOK'
  <2> DEFINE R(O) == [kind: {"none", "refresh", "more"}, after: Ids \cup {0}, served: BOOLEAN,
                      ids: SUBSET Ids, next: Ids \cup {0}, base: SUBSET O]
  <2>1. req'[s] \in R(offers)
    <3> DEFINE kind == req[s].kind
               answer == [kind |-> kind, after |-> after, served |-> TRUE, ids |-> ids,
                          next |-> next, base |-> offers]
    <3>1. kind \in {"none", "refresh", "more"} /\ req'[s] = answer
      BY <1>5, Zenon DEF PagesInv, TypeOK
    <3> HIDE DEF kind, after
    <3>2. answer \in R(offers)
      BY <1>3, <3>1, ZenonT(40)
    <3> HIDE DEF answer
    <3> QED  BY <3>1, <3>2, Zenon
  <2>2. req' = [req EXCEPT ![s] = req'[s]] /\ req \in [Slot -> R(offers)]
    BY <1>1, Zenon DEF PagesInv, TypeOK
  <2> HIDE DEF R
  <2>3. req' \in [Slot -> R(offers)]
    BY <2>1, <2>2, Zenon
  <2>4. R(offers) = R(offers')
    BY <1>2, Zenon
  <2>5. req' \in [Slot -> R(offers')]
    BY <2>3, <2>4, Zenon
  <2> QED  BY <1>2, <2>5, ZenonT(40) DEF PagesInv, TypeOK, R
<1>8. OneAtATime'
  <2>1. req'[s].kind = req[s].kind /\ req'[s].after = req[s].after
    BY <1>5, Zenon
  <2>2. \A t \in Slot : req'[t].kind = req[t].kind /\ req'[t].after = req[t].after
    BY <1>6, <2>1, Zenon
  <2>3. \A t \in Slot : req'[t].kind = "none" => req'[t] = req[t]
    BY <1>2, <1>6, <2>1, ZenonT(60)
  <2> QED  BY <1>2, <2>2, <2>3, ZenonT(40) DEF PagesInv, OneAtATime
<1>9. AnswerComplete'
  <2> SUFFICES ASSUME NEW t \in Slot, req'[t].served,
                      NEW o \in (IF req'[t].kind = "refresh" THEN req'[t].base ELSE stable),
                      o > req'[t].after, req'[t].next = 0 \/ o <= req'[t].next
               PROVE  o \in req'[t].ids
    BY <1>2, ZenonT(60) DEF AnswerComplete
  <2>1. CASE t = s
    BY <2>1, <1>4, <1>5, SMTT(30) DEF PagesInv, TypeOK
  <2>2. CASE t # s
    BY <2>2, <1>6, Zenon DEF PagesInv, AnswerComplete
  <2> QED  BY <2>1, <2>2
<1> QED  BY <1>2, <1>7, <1>8, <1>9, Zenon DEF PagesInv, NoGap

\* The end of a request: its part of the list is complete, and so is the list.
LEMMA ShowKeeps ==
  ASSUME PagesInv, NEW s \in Slot, ShowFirst(s) \/ ShowMore(s) \/ Fail(s)
  PROVE  PagesInv'
<1>1. /\ req' = [req EXCEPT ![s] = Idle] /\ loading' = FALSE /\ UNCHANGED offers
      /\ req[s].kind # "none"
  BY Zenon DEF ShowFirst, ShowMore, Fail
<1>2. req'[s] = Idle /\ \A t \in Slot : req'[t].kind = "none" /\ req'[t] = Idle
  BY <1>1, Zenon DEF PagesInv, TypeOK, OneAtATime, Idle, Asked
<1>3. TypeOK'
  <2>1. req' \in [Slot -> [kind: {"none", "refresh", "more"}, after: Ids \cup {0}, served: BOOLEAN,
                           ids: SUBSET Ids, next: Ids \cup {0}, base: SUBSET offers]]
    BY <1>1, Zenon DEF PagesInv, TypeOK, Idle, Asked
  <2> QED  BY <2>1, <1>1, ZenonT(40) DEF PagesInv, TypeOK, ShowFirst, ShowMore, Fail
<1>4. OneAtATime' /\ AnswerComplete'
  BY <1>1, <1>2 DEF OneAtATime, AnswerComplete, Idle, Asked
<1>5. NoGap'
  <2>1. CASE ShowFirst(s)
    <3>1. /\ req[s].kind = "refresh" /\ req[s].served /\ req[s].after = 0
          /\ shown' = req[s].ids /\ cursor' = req[s].next /\ stable' = req[s].base
      BY <2>1, Zenon DEF PagesInv, OneAtATime, ShowFirst
    <3>2. req[s].base \subseteq Ids
      BY Zenon DEF PagesInv, TypeOK
    <3>3. \A o \in req[s].base : o > 0
      BY <3>2, IdsArePositive, Zenon
    <3>4. \A o \in req[s].base :
             o > 0 /\ (req[s].next = 0 \/ o <= req[s].next) => o \in req[s].ids
      BY <3>1, ZenonT(60) DEF PagesInv, AnswerComplete
    <3> QED  BY <3>1, <3>3, <3>4, Zenon DEF NoGap
  <2>2. CASE ShowMore(s)
    <3>1. \A o \in stable : o \in Nat
      BY IdsAreNaturals, Zenon DEF PagesInv, TypeOK
    <3>2. cursor \in Nat /\ req[s].after = cursor
      BY <2>2, IdsAreNaturals DEF PagesInv, TypeOK, OneAtATime, ShowMore
    <3> QED  BY <2>2, <3>1, <3>2, SMTT(30) DEF PagesInv, AnswerComplete, NoGap, ShowMore
  <2>3. CASE Fail(s)
    BY <2>3, Zenon DEF PagesInv, NoGap, Fail
  <2> QED  BY <2>1, <2>2, <2>3
<1> QED  BY <1>3, <1>4, <1>5, SMTT(30) DEF PagesInv

\* Changes of the market: a closed offer leaves stable and every base.
LEMMA MarketKeeps ==
  ASSUME PagesInv, NEW o \in Ids, Activate(o) \/ Close(o)
  PROVE  PagesInv'
<1>1. CASE Activate(o)
  BY <1>1, Zenon DEF PagesInv, TypeOK, OneAtATime, AnswerComplete, NoGap, Activate
<1>2. CASE Close(o)
  <2>1. /\ offers' = offers \ {o} /\ stable' = stable \ {o}
        /\ UNCHANGED <<shown, cursor, loading>>
    BY <1>2, ZenonT(40) DEF Close
  <2>2. ASSUME NEW s \in Slot
        PROVE  /\ req'[s] = [kind |-> req[s].kind, after |-> req[s].after, served |-> req[s].served,
                             ids |-> req[s].ids, next |-> req[s].next, base |-> req[s].base \ {o}]
               /\ req[s] = Idle => req'[s] = Idle
               /\ req'[s].kind = req[s].kind /\ req'[s].after = req[s].after
               /\ req'[s].served = req[s].served /\ req'[s].next = req[s].next
               /\ req'[s].ids = req[s].ids /\ req'[s].base \subseteq req[s].base
    <3>1. req'[s] = [req[s] EXCEPT !.base = @ \ {o}]
      BY <1>2, Zenon DEF Close
    <3>2. req'[s] = [kind |-> req[s].kind, after |-> req[s].after, served |-> req[s].served,
                     ids |-> req[s].ids, next |-> req[s].next, base |-> req[s].base \ {o}]
      BY <3>1, Zenon DEF PagesInv, TypeOK
    <3> DEFINE left == [kind |-> req[s].kind, after |-> req[s].after, served |-> req[s].served,
                        ids |-> req[s].ids, next |-> req[s].next, base |-> req[s].base \ {o}]
    <3>3. /\ left.kind = req[s].kind /\ left.after = req[s].after
          /\ left.served = req[s].served /\ left.next = req[s].next
          /\ left.ids = req[s].ids /\ left.base \subseteq req[s].base
      BY Zenon
    <3>4. [Idle EXCEPT !.base = @ \ {o}] = Idle
      BY IdleStays, Zenon
    <3> HIDE DEF left
    <3>5. req'[s] = left
      BY <3>2, Zenon DEF left
    <3>6. /\ req'[s].kind = req[s].kind /\ req'[s].after = req[s].after
          /\ req'[s].served = req[s].served /\ req'[s].next = req[s].next
          /\ req'[s].ids = req[s].ids /\ req'[s].base \subseteq req[s].base
      BY <3>3, <3>5, Zenon
    <3>7. req[s] = Idle => req'[s] = Idle
      BY <3>1, <3>4, Zenon
    <3> QED  BY <3>2, <3>6, <3>7, Zenon
  <2>3. TypeOK'
    <3>1. req' = [s \in Slot |-> req'[s]]
      BY <1>2, Zenon DEF Close
    <3> QED  BY <2>1, <2>2, <3>1, SMTT(30) DEF PagesInv, TypeOK
  <2>4. OneAtATime'
    BY <2>1, <2>2, ZenonT(60) DEF PagesInv, OneAtATime
  <2>5. AnswerComplete'
    BY <2>1, <2>2, Zenon DEF PagesInv, AnswerComplete
  <2>6. NoGap'
    BY <2>1, Zenon DEF PagesInv, NoGap
  <2> QED  BY <2>3, <2>4, <2>5, <2>6, SMTT(30) DEF PagesInv
<1> QED  BY <1>1, <1>2

\* A step of the web application or of the market keeps PagesInv.
LEMMA PagesKept == ASSUME Patient, PagesInv, PagesWhole, [Next]_vars PROVE PagesInv'
<1>1. CASE Next
  BY <1>1, AskKeeps, ServeKeeps, ShowKeeps, MarketKeeps, ZenonT(60) DEF Next
<1>2. CASE UNCHANGED vars
  BY <1>2, ZenonT(60) DEF vars, PagesInv, TypeOK, OneAtATime, AnswerComplete, NoGap
<1> QED  BY <1>1, <1>2

INSTANCE FiniteSetTheorems

\* A row after the request's cursor and up to the page's own is on the page: the
\* page takes the first Size rows, and its cursor is the last of them.
LEMMA PageComplete ==
  ASSUME offers \subseteq Ids, NEW after \in Ids \cup {0}, NEW next \in NextCursor(after),
         NEW o \in offers, o > after, next = 0 \/ o <= next
  PROVE  o \in Page(after)
<1> DEFINE R == Rest(after)
           Up(x) == {y \in R : y <= x}
<1>1. R \subseteq Ids /\ IsFiniteSet(R) /\ o \in R
  <2>1. R \subseteq Ids /\ o \in R
    BY Zenon DEF Rest
  <2> QED  BY <2>1, FS_Subset, OfferPagesAssumption, SMTT(30)
<1>2. /\ IsFiniteSet(Up(o)) /\ Cardinality(Up(o)) \in Nat /\ Cardinality(R) \in Nat
      /\ Cardinality(Up(o)) <= Cardinality(R)
  <2>1. Up(o) \subseteq R
    BY Zenon
  <2> HIDE DEF R, Up
  <2> QED  BY <1>1, <2>1, FS_Subset, FS_CardinalityType, SMTT(30)
<1>3. Rank(after, o) = Cardinality(Up(o))
  BY Zenon DEF Rank
<1>4. CASE Cardinality(R) > Size
  <2>1. next \in R /\ Cardinality(Up(next)) = Size
    BY <1>4, Zenon DEF NextCursor, Rank
  <2>2. o <= next
    BY <2>1, <1>1, IdsAreNaturals, ZenonT(60)
  <2>3. Up(o) \subseteq Up(next)
    <3>1. \A y \in R : y \in Nat
      BY <1>1, IdsAreNaturals, ZenonT(60)
    <3>2. o \in Nat /\ next \in Nat
      BY <3>1, <1>1, <2>1, ZenonT(60)
    <3> HIDE DEF R
    <3> QED  BY <2>2, <3>1, <3>2, SMTT(30)
  <2>4. IsFiniteSet(Up(next))
    <3>1. Up(next) \subseteq R
      BY Zenon
    <3> HIDE DEF R, Up
    <3> QED  BY <3>1, <1>1, FS_Subset, SMTT(30)
  <2>5. Cardinality(Up(o)) <= Size
    <3> HIDE DEF Up
    <3> QED  BY <2>1, <2>3, <2>4, FS_Subset, SMTT(30)
  <2> QED  BY <2>5, <1>1, <1>3, SMTT(30) DEF Page
<1>5. CASE ~(Cardinality(R) > Size)
  <2>1. Cardinality(Up(o)) <= Size
    <3> HIDE DEF R, Up
    <3> QED  BY <1>2, <1>5, OfferPagesAssumption, SMTT(30)
  <2> QED  BY <2>1, <1>1, <1>3 DEF Page
<1> QED  BY <1>4, <1>5, SMTT(30)

\* So every page is whole.
LEMMA EveryPageWhole == PagesInv => PagesWhole
  BY PageComplete, Zenon DEF PagesInv, TypeOK, PagesWhole

\* PagesInv always holds when nobody presses Refresh while a page is loading, for
\* any offers and pages of any size: the list is complete up to its cursor.
THEOREM PagesComplete == ASSUME Patient PROVE ApiSpec => []PagesInv
<1>1. ApiInit => PagesInv
  <2>1. NoOffers => PagesInv
    <3> SUFFICES ASSUME NoOffers PROVE PagesInv
      BY Zenon
    <3>1. TypeOK
      BY Zenon DEF NoOffers, TypeOK, Idle, Asked
    <3>2. OneAtATime
      BY Zenon DEF NoOffers, OneAtATime, Idle, Asked
    <3>3. AnswerComplete /\ NoGap
      BY Zenon DEF NoOffers, AnswerComplete, NoGap, Idle, Asked
    <3>4. QED
      BY <3>1, <3>2, <3>3, ZenonT(60) DEF PagesInv
  <2>2. ApiInit => NoOffers \/ Init
    BY Zenon DEF ApiInit, NoClient
  <2>3. QED
    BY <2>1, <2>2, PagesInitially, ZenonT(60)
<1>2. PagesInv /\ [ApiNext]_all => PagesInv'
  BY CaseSteps, PagesKept, EveryPageWhole, Zenon
<1>3. QED
  BY <1>1, <1>2, PTL DEF ApiSpec

\* The list of offers has no hole (exchange.tsx:116-154 with server.ts:391-398)
\* as long as nobody presses Refresh while a page is loading.
THEOREM ListHasNoGap == ASSUME Patient PROVE Spec => []NoGap
<1>1. PagesInv => NoGap
  BY Zenon DEF PagesInv
<1>2. PagesInv /\ [Next]_vars => PagesInv'
  BY PagesKept, EveryPageWhole, Zenon
<1>3. QED
  BY <1>1, <1>2, PagesInitially, PTL DEF Spec
=============================================================================
