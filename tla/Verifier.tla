------------------------------ MODULE Verifier ------------------------------
(***************************************************************************)
(* apps/verifier with what the API writes for it: replica groups, accepted *)
(* bids of replicas, uploaded evidence; and the chain and the projection   *)
(* it reads. The jobs are of one policy; with REDUNDANT they are the       *)
(* replicas of one group, in the order of their ordinals.                  *)
(*                                                                         *)
(* verifyBundle is a sequential process run by the daemon and by main.ts:  *)
(* an action is what it does between two awaits. A throw ends it, and the  *)
(* daemon goes on with the next job. States are the program's codes, 0 for *)
(* a job not on chain. A machine has one provider, so that replicas of     *)
(* different providers are on different machines.                          *)
(***************************************************************************)
EXTENDS Naturals, FiniteSets

CONSTANTS
  Provider, Hash,
  Proc,          \* the processes: "daemon", and "cli" for main.ts
  PageLimit,     \* jobs the daemon reads, 100 in the code
  RecordLimit,   \* decisions the daemon reads, 1000 in the code
  MaxFaults      \* bound: crashes, lost calls, and what others do to a job

ASSUME VerifierAssumption ==
  "none" \notin Provider \cup Hash /\ MaxFaults \in Nat

\* The jobs; a group has two or three replicas.
Job == 1..3
None == "none"

VARIABLES
  policy,              \* the verification policy of the jobs
  \* the chain
  state, outcome,      \* the job's state; what submit_verification said
  provider, auth,      \* the provider of the job; its worker's authorization
  good, hash,          \* the evidence passes the other checks; its result
  late,                \* verifications sent whose sender stopped waiting
  \* the database
  idx, receipts, record, replica, group,
  challenge, missed,   \* what the challenge's row says; the jobs that answered one wrongly
  \* the processes
  tx,                  \* accept-bid transactions waiting for a signature
  proc, queue, faults

chainVars == <<policy, state, outcome, provider, auth, good, hash, late>>
dbVars    == <<idx, receipts, challenge, missed, record, replica, group>>
vars      == <<chainVars, dbVars, tx, proc, queue, faults>>

Idle == [at |-> "idle", job |-> 0, seen |-> 0, passed |-> FALSE, hash |-> None]

\* BASIC jobs are decided like STANDARD ones.
Policies == {"STANDARD", "CHALLENGE", "REDUNDANT", "TEE", "PROOF"}

Init ==
  /\ policy \in Policies
  /\ state = [j \in Job |-> 0] /\ outcome = [j \in Job |-> None]
  /\ provider = [j \in Job |-> None] /\ auth = [j \in Job |-> TRUE]
  /\ good = [j \in Job |-> TRUE] /\ hash = [j \in Job |-> None] /\ late = {}
  /\ idx = [j \in Job |-> 0] /\ receipts = [j \in Job |-> FALSE]
  /\ challenge = [j \in Job |-> None] /\ missed = {}
  /\ record = [j \in Job |-> None] /\ replica = [j \in Job |-> None]
  /\ group = [state |-> None, hash |-> None, replicas |-> 0, required |-> 0]
  /\ tx = [j \in Job |-> None]
  /\ proc = [p \in Proc |-> Idle] /\ queue = {} /\ faults = 0

Fault == faults < MaxFaults /\ faults' = faults + 1
Verdict(b) == IF b THEN "passed" ELSE "failed"
-------------------------------------------------------------------------------
(* The API: groups, bids and evidence *)

\* POST /v1/jobs/redundant: the group and its replicas are written before the
\* first transaction is signed.
CreateRedundant(replicas, required) ==
  /\ policy = "REDUNDANT" /\ group.state = None
  /\ required <= replicas
  /\ group' = [state |-> "PENDING", hash |-> None, replicas |-> replicas, required |-> required]
  /\ UNCHANGED <<chainVars, idx, receipts, challenge, missed, record, replica, tx, proc, queue, faults>>

\* The buyer signs a creation; the other replicas may never be signed.
SignCreate(j) ==
  /\ state[j] = 0
  /\ policy = "REDUNDANT" => j <= group.replicas
  /\ state' = [state EXCEPT ![j] = 2]
  /\ UNCHANGED <<policy, outcome, provider, auth, good, hash, late, dbVars, tx, proc, queue, faults>>

\* POST /v1/jobs/:id/accept-bid for a bid of provider v: a transaction for the
\* buyer, unless a sibling's row has the provider already.
AcceptBid(j, v) ==
  /\ idx[j] # 0
  /\ state[j] = 2 /\ tx[j] = None   \* one request at a time; in other states it fails
  /\ policy = "REDUNDANT" => \A s \in Job : replica[s] # v
  /\ tx' = [tx EXCEPT ![j] = v]
  /\ UNCHANGED <<chainVars, dbVars, proc, queue, faults>>

SignAccept(j) ==
  /\ tx[j] # None /\ state[j] = 2
  /\ state' = [state EXCEPT ![j] = 4]
  /\ provider' = [provider EXCEPT ![j] = tx[j]]
  /\ tx' = [tx EXCEPT ![j] = None]
  /\ UNCHANGED <<policy, outcome, auth, good, hash, late, dbVars, proc, queue, faults>>

\* The worker has run the job and committed its receipt.
Deliver(j, h, g) ==
  /\ state[j] = 4
  /\ state' = [state EXCEPT ![j] = 8]
  /\ hash' = [hash EXCEPT ![j] = h] /\ good' = [good EXCEPT ![j] = g]
  /\ UNCHANGED <<policy, outcome, provider, auth, late, dbVars, tx, proc, queue, faults>>

\* storeReceipt; the chain's hash allows one bundle per job.
storeReceipt(j) == receipts' = [receipts EXCEPT ![j] = TRUE]

\* POST /v1/provider/jobs/:id/result.
Result(j) ==
  /\ state[j] = 8 /\ ~receipts[j]
  /\ idx' = state
  /\ storeReceipt(j)
  /\ UNCHANGED <<chainVars, challenge, missed, record, replica, group, tx, proc, queue, faults>>

\* The challenge's row is written, answered once the receipt is stored, and written again
\* after expiry (module Challenge has the protocol).
Challenge(j) ==
  /\ policy = "CHALLENGE" /\ state[j] = 8
  /\ \E v \in {"null", "passed", "failed"} :
       /\ \/ v = "null" /\ challenge[j] = None /\ UNCHANGED faults
          \/ v = "null" /\ challenge[j] \in {"passed", "failed"} /\ Fault
          \/ v # "null" /\ challenge[j] = "null" /\ receipts[j] /\ UNCHANGED faults
       /\ challenge' = [challenge EXCEPT ![j] = v]
       /\ missed' = IF v = "failed" THEN missed \cup {j} ELSE missed
  /\ UNCHANGED <<chainVars, idx, receipts, record, replica, group, tx, proc, queue>>

\* The indexer.
Reconcile ==
  /\ idx # state /\ idx' = state
  /\ UNCHANGED <<chainVars, receipts, challenge, missed, record, replica, group, tx, proc, queue, faults>>
-------------------------------------------------------------------------------
(* packages/verification *)

\* verifyReceipt: of its checks only `workerActive` can change between calls.
verifyReceipt(j) == good[j] /\ auth[j]

\* A wrong form of verifyRedundantResults: a plurality is enough.
verifyRedundantResults_plurality(rs, required) ==
  LET count(h) == Cardinality({i \in DOMAIN rs : rs[i].hash = h})
      first == CHOOSE i \in DOMAIN rs : \A k \in DOMAIN rs : count(rs[k].hash) <= count(rs[i].hash)
  IN [passed |-> TRUE, hash |-> rs[first].hash]

\* The result of the rows rs, by ordinal: the one with most votes, the first one on a tie, if it reaches the quorum.
verifyRedundantResults(rs, required) ==
  LET count(h) == Cardinality({i \in DOMAIN rs : rs[i].hash = h})
      first == CHOOSE i \in DOMAIN rs : \A k \in DOMAIN rs :
                  \/ count(rs[k].hash) < count(rs[i].hash)
                  \/ count(rs[k].hash) = count(rs[i].hash) /\ i <= k
                  \/ rs[k].hash = rs[i].hash /\ i <= k
      quorum == count(rs[first].hash) >= required
  IN [passed |-> quorum /\ Cardinality({rs[i].provider : i \in DOMAIN rs})
                           = Cardinality(DOMAIN rs),
      hash   |-> IF quorum THEN rs[first].hash ELSE None]
-------------------------------------------------------------------------------
(* daemon.ts *)

\* A wrong form of Page: the state before a receipt is taken for VERIFYING.
Page_running == {j \in Job : idx[j] \in {6, 9, 12}}

\* Jobs with a decision to make or to record: the first of them, in whatever
\* order the database keeps.
Page == LET js == {j \in Job : idx[j] \in {8, 9, 12}}
        IN {j \in js : Cardinality({k \in js : k <= j}) <= PageLimit}

Recorded == LET js == {j \in Job : record[j] # None}
            IN {j \in js : Cardinality({k \in js : k <= j}) <= RecordLimit}

Poll ==
  /\ proc["daemon"].at = "idle" /\ queue = {}
  /\ queue' = Page \ Recorded
  /\ queue' # {}
  /\ UNCHANGED <<chainVars, dbVars, tx, proc, faults>>

\* The next job of the page, if its receipt is stored.
Take ==
  /\ proc["daemon"].at = "idle"
  /\ \E j \in queue :
       /\ \A k \in queue : j <= k
       /\ queue' = queue \ {j}
       /\ proc' = IF receipts[j]
                  THEN [proc EXCEPT !["daemon"] = [Idle EXCEPT !.at = "read", !.job = j]]
                  ELSE proc
  /\ UNCHANGED <<chainVars, dbVars, tx, faults>>

\* main.ts with a bundle's file.
Main(p, j) ==
  /\ p # "daemon" /\ proc[p].at = "idle" /\ state[j] >= 8 /\ Fault
  /\ proc' = [proc EXCEPT ![p] = [Idle EXCEPT !.at = "read", !.job = j]]
  /\ UNCHANGED <<chainVars, dbVars, tx, queue>>
-------------------------------------------------------------------------------
(* verify.ts *)

Throw(p) == proc' = [proc EXCEPT ![p] = Idle]
Goto(p, at) == proc' = [proc EXCEPT ![p].at = at]

\* The finalized job is read.
ReadJob(p) ==
  /\ proc[p].at = "read"
  /\ LET s == state[proc[p].job] IN
     IF s \in {8, 9, 12} THEN proc' = [proc EXCEPT ![p].at = "decide", ![p].seen = s] ELSE Throw(p)
  /\ UNCHANGED <<chainVars, dbVars, tx, queue, faults>>

Decided(p, b) == proc' = [proc EXCEPT ![p].at = "check", ![p].passed = b]

\* A wrong form of Decide: an open challenge is a failed one.
Decide_impatient(p) ==
  /\ proc[p].at = "decide"
  /\ LET j == proc[p].job IN
     CASE ~verifyReceipt(j) -> Decided(p, FALSE)
       [] verifyReceipt(j) /\ policy = "STANDARD" -> Decided(p, TRUE)
       [] OTHER -> Decided(p, challenge[j] = "passed")
  /\ UNCHANGED <<chainVars, dbVars, tx, queue, faults>>

\* The receipt is checked, and the evidence that the policy adds.
Decide(p) ==
  /\ proc[p].at = "decide"
  /\ LET j == proc[p].job IN
     CASE ~verifyReceipt(j) -> Decided(p, FALSE)
       [] verifyReceipt(j) /\ policy = "STANDARD" -> Decided(p, TRUE)
       [] verifyReceipt(j) /\ policy = "CHALLENGE" ->
            IF challenge[j] \in {None, "null"} THEN Throw(p) ELSE Decided(p, challenge[j] = "passed")
       [] verifyReceipt(j) /\ policy = "REDUNDANT" -> Goto(p, "replica")
       [] verifyReceipt(j) /\ policy \in {"TEE", "PROOF"} -> Throw(p)
  /\ UNCHANGED <<chainVars, dbVars, tx, queue, faults>>

\* The replica's row is filled; the group's index has each provider once.
UpdateReplica(p) ==
  /\ proc[p].at = "replica"
  /\ LET j == proc[p].job IN
     IF \E s \in Job \ {j} : replica[s] = provider[j]
     THEN Throw(p) /\ UNCHANGED replica
     ELSE replica' = [replica EXCEPT ![j] = provider[j]] /\ Goto(p, "quorum")
  /\ UNCHANGED <<chainVars, idx, receipts, challenge, missed, record, group, tx, queue, faults>>

\* A wrong form of AwaitTieBreak: a missing quorum is a dispute at once.
AwaitTieBreak_never(r, completed) == FALSE

\* A wrong form of AwaitTieBreak: every replica has to report.
AwaitTieBreak_all(r, completed) == Cardinality(completed) < group.replicas

\* Two replicas disagree and the third has not reported.
AwaitTieBreak(r, completed) == ~r.passed /\ Cardinality(completed) < group.replicas

\* The rows of the replicas that have reported, and what they say.
Completed == {j \in Job : replica[j] # None}
Results == [j \in Completed |-> [provider |-> replica[j], hash |-> hash[j]]]

\* Group and rows are read and the results compared.
Quorum(p) ==
  /\ proc[p].at = "quorum"
  /\ LET r == verifyRedundantResults(Results, group.required)
     IN IF Cardinality(Completed) < group.required \/ AwaitTieBreak(r, Completed) THEN Throw(p)
        ELSE proc' = [proc EXCEPT ![p].at = "group", ![p].passed = r.passed, ![p].hash = r.hash]
  /\ UNCHANGED <<chainVars, dbVars, tx, queue, faults>>

UpdateGroup(p) ==
  /\ proc[p].at = "group"
  /\ group' = [group EXCEPT !.state = IF proc[p].passed THEN "PASSED" ELSE "DISPUTED",
                            !.hash = proc[p].hash]
  /\ Decided(p, proc[p].passed /\ proc[p].hash = hash[proc[p].job])
  /\ UNCHANGED <<chainVars, idx, receipts, challenge, missed, record, replica, tx, queue, faults>>

\* A wrong form of Conflict: the chain's decision is taken for granted.
Conflict_unchecked(p) == FALSE

\* The recomputed decision is not the finalized one.
Conflict(p) == proc[p].seen # 8 /\ (proc[p].seen = 9) # proc[p].passed

\* A decision on record ends the call, returning or throwing; otherwise the
\* job is indexed, its receipt stored and the decision made or recovered.
Check(p) ==
  /\ proc[p].at = "check"
  /\ LET j == proc[p].job IN
     IF record[j] # None
     THEN Throw(p) /\ UNCHANGED <<idx, receipts>>
     ELSE /\ idx' = IF idx[j] = 0 THEN state ELSE idx
          /\ storeReceipt(j)
          /\ IF Conflict(p) THEN Throw(p)
             ELSE Goto(p, IF proc[p].seen = 8 THEN "submit" ELSE "record")
  /\ UNCHANGED <<chainVars, challenge, missed, record, replica, group, tx, queue, faults>>

\* submit_verification on chain.
Verified(j, b) ==
  /\ state[j] = 8
  /\ state' = [state EXCEPT ![j] = IF b THEN 9 ELSE 12]
  /\ outcome' = [outcome EXCEPT ![j] = Verdict(b)]

\* The decision is sent and its finalization awaited; it throws when the job is
\* not VERIFYING any more, or when the wait ends first.
Submit(p) ==
  /\ proc[p].at = "submit"
  /\ LET j == proc[p].job IN
     \/ Verified(j, proc[p].passed) /\ Goto(p, "reconcile") /\ UNCHANGED <<late, faults>>
     \/ state[j] # 8 /\ Throw(p) /\ UNCHANGED <<state, outcome, late, faults>>
     \/ /\ Fault /\ Throw(p) /\ late' = late \cup {<<j, proc[p].passed>>}
        /\ UNCHANGED <<state, outcome>>
  /\ UNCHANGED <<policy, provider, auth, good, hash, dbVars, tx, queue>>

Land(t) ==
  /\ late' = late \ {t}
  /\ Verified(t[1], t[2]) \/ UNCHANGED <<state, outcome>>
  /\ UNCHANGED <<policy, provider, auth, good, hash, dbVars, tx, proc, queue, faults>>

ReconcileChain(p) ==
  /\ proc[p].at = "reconcile"
  /\ idx' = state /\ Goto(p, "record")
  /\ UNCHANGED <<chainVars, receipts, challenge, missed, record, replica, group, tx, queue, faults>>

Record(p) ==
  /\ proc[p].at = "record"
  /\ record' = [record EXCEPT ![proc[p].job] = Verdict(proc[p].passed)]
  /\ Throw(p)
  /\ UNCHANGED <<chainVars, idx, receipts, challenge, missed, replica, group, tx, queue, faults>>
-------------------------------------------------------------------------------
(* Failures, and what others do to a job *)

\* A call fails, or the process ends; the daemon's page is lost with it.
Crash(p) ==
  /\ proc[p].at # "idle" /\ Fault /\ Throw(p)
  /\ queue' \in IF p = "daemon" THEN {queue, {}} ELSE {queue}
  /\ UNCHANGED <<chainVars, dbVars, tx>>

Revoke(j) ==
  /\ auth[j] /\ state[j] >= 8 /\ Fault
  /\ auth' = [auth EXCEPT ![j] = FALSE]
  /\ UNCHANGED <<policy, state, outcome, provider, good, hash, late, dbVars, tx, proc, queue>>

\* expire_job, open_dispute, resolve_dispute, refund_job.
MoveOn(j) ==
  /\ Fault
  /\ \E m \in {<<8, 11>>, <<9, 13>>, <<13, 9>>, <<12, 14>>} :
       state[j] = m[1] /\ state' = [state EXCEPT ![j] = m[2]]
  /\ UNCHANGED <<policy, outcome, provider, auth, good, hash, late, dbVars, tx, proc, queue>>
-------------------------------------------------------------------------------
Step(p) ==
  \/ ReadJob(p) \/ Decide(p) \/ UpdateReplica(p) \/ Quorum(p) \/ UpdateGroup(p)
  \/ Check(p) \/ Submit(p) \/ ReconcileChain(p) \/ Record(p)

Next ==
  \/ Reconcile \/ Poll \/ Take
  \/ \E n, m \in 2..3 : CreateRedundant(n, m)
  \/ \E j \in Job : \/ SignCreate(j) \/ SignAccept(j) \/ Result(j) \/ Challenge(j)
                    \/ Revoke(j) \/ MoveOn(j)
  \/ \E j \in Job, v \in Provider : AcceptBid(j, v)
  \/ \E j \in Job, h \in Hash, g \in BOOLEAN : Deliver(j, h, g)
  \/ \E p \in Proc, j \in Job : Main(p, j)
  \/ \E p \in Proc : Step(p) \/ Crash(p)
  \/ \E t \in late : Land(t)

\* The rest of it, once the replicas that will ever report have delivered.
DecidingNext ==
  \/ Reconcile \/ Poll \/ Take
  \/ \E p \in Proc, j \in Job : Main(p, j)
  \/ \E p \in Proc : Step(p) \/ Crash(p)
  \/ \E j \in Job : Revoke(j) \/ MoveOn(j)
  \/ \E t \in late : Land(t)

Spec == Init /\ [][Next]_vars
-------------------------------------------------------------------------------
(* Properties *)

Verdicts == {None, "passed", "failed"}

States == {0, 2, 4, 8, 9, 11, 12, 13, 14}

Places == {"idle", "read", "decide", "replica", "quorum", "group", "check", "submit", "reconcile",
           "record"}

Calls == [at : Places, job : Job \cup {0}, seen : {0, 8, 9, 12}, passed : BOOLEAN,
          hash : Hash \cup {None}]

Groups == [state : {None, "PENDING", "PASSED", "DISPUTED"}, hash : Hash \cup {None},
           replicas : {0, 2, 3}, required : {0, 2, 3}]

\* The variables have the values the code gives them, and what the database
\* says of a job is something the chain has been at.
TypeOK ==
  /\ policy \in Policies /\ state \in [Job -> States] /\ idx \in [Job -> States]
  /\ outcome \in [Job -> Verdicts] /\ record \in [Job -> Verdicts]
  /\ provider \in [Job -> Provider \cup {None}] /\ tx \in [Job -> Provider \cup {None}]
  /\ hash \in [Job -> Hash \cup {None}]
  /\ auth \in [Job -> BOOLEAN] /\ good \in [Job -> BOOLEAN] /\ receipts \in [Job -> BOOLEAN]
  /\ late \subseteq Job \X BOOLEAN
  /\ challenge \in [Job -> Verdicts \cup {"null"}] /\ missed \subseteq Job
  /\ replica \in [Job -> Provider \cup {None}] /\ group \in Groups
  /\ proc \in [Proc -> Calls] /\ queue \subseteq Job /\ faults \in 0..MaxFaults
  /\ \A j \in Job : receipts[j] => state[j] >= 8
  /\ \A p \in Proc : proc[p].at # "idle" => proc[p].job \in Job

\* The database's decision is the chain's, whoever made either and however
\* often the call was interrupted (verify.ts:223).
RecordMatchesChain == \A j \in Job : record[j] # None => record[j] = outcome[j]

\* Database and chain agree: evidence is stored only of a job the chain has a
\* receipt of, and a recorded decision is the one on the chain (verify.ts:223).
RecordsSound == TypeOK /\ RecordMatchesChain

\* A replica that passed has the result of a quorum of replicas, each of a
\* provider of its own (redundancy.ts:27).
QuorumBehindPass ==
  policy = "REDUNDANT" =>
    \A j \in Job : outcome[j] = "passed" =>
      \E q \in SUBSET Job :
        /\ j \in q /\ Cardinality(q) >= group.required
        /\ \A s \in q : hash[s] = hash[j] /\ good[s]
        /\ \A s, t \in q : s # t => provider[s] # provider[t]

\* A group's verdict is final, also when two processes decide at once on rows
\* they read at different times: a pass is never turned into a dispute, a
\* dispute never into a pass, and the consensus hash stays (verify.ts:136).
GroupVerdictFinal ==
  [][group.state \in {"PASSED", "DISPUTED"} => group' = group]_vars

\* Why a job may fail: its evidence, its worker, a challenge answered wrongly,
\* or a consensus of others.
Cause(j) ==
  \/ ~good[j] \/ ~auth[j]
  \/ j \in missed
  \/ group.state = "DISPUTED"
  \/ group.state = "PASSED" /\ group.hash # hash[j]

\* A job fails for a reason, and not because the verifier looked too early or
\* while a challenge was being replaced (verify.ts:71, verify.ts:137).
FailureHasCause ==
  \A j \in Job : outcome[j] = "failed" => Cause(j)

\* The replicas that have a quorum: delivered, in order, alike, independent.
Agreeing(q) ==
  /\ \A s \in q : state[s] \in {8, 9, 12} /\ receipts[s] /\ good[s] /\ auth[s]
  /\ \A s, t \in q : s # t => hash[s] = hash[t] /\ provider[s] # provider[t]
-------------------------------------------------------------------------------
(* The inductive invariant of VerifierProofs. *)

\* The chain's state tells what submit_verification said.
StateTells ==
  \A j \in Job : outcome[j] = IF state[j] \in {9, 13} THEN "passed"
                              ELSE IF state[j] \in {12, 14} THEN "failed" ELSE None

\* A call past its first read has a job with a receipt; a decision it saw on the
\* chain, or made there, is still the chain's.
CallsKnow ==
  \A p \in Proc :
    /\ proc[p].at \notin {"idle", "read"} => state[proc[p].job] >= 8
    /\ proc[p].at \notin {"idle", "read"} /\ proc[p].seen # 8 =>
         outcome[proc[p].job] = Verdict(proc[p].seen = 9)
    /\ proc[p].at \in {"reconcile", "record"} =>
         outcome[proc[p].job] = Verdict(proc[p].passed)

\* A verdict that is on its way has its cause.
FailuresHaveCause ==
  /\ \A p \in Proc : proc[p].at \in {"check", "submit"} /\ ~proc[p].passed => Cause(proc[p].job)
  /\ \A j \in Job : <<j, FALSE>> \in late => state[j] >= 8 /\ Cause(j)
  /\ \A j \in Job : challenge[j] = "failed" => j \in missed

\* The replicas of a result.
Votes(h) == {j \in Job : replica[j] # None /\ hash[j] = h}

\* Jobs of a group are its replicas. A row is of a replica that has delivered good evidence,
\* and has its provider, which no other row has.
RowsSound ==
  /\ group.state # None => /\ group.required \in 2..group.replicas /\ group.replicas \in 2..3
  /\ group.state = None => group.replicas = 0
  /\ policy = "REDUNDANT" => \A j \in Job : state[j] # 0 => j \in 1..group.replicas
  /\ \A j \in Job : state[j] >= 4 => provider[j] # None
  /\ \A j \in Job : replica[j] # None =>
       /\ policy = "REDUNDANT" /\ state[j] >= 8 /\ good[j] /\ replica[j] = provider[j]
       /\ \A i \in Job : replica[i] = replica[j] => i = j

\* A quorum is behind the verdict, or every replica has reported and none is reached.
Settles(passed, h) ==
  IF passed THEN Cardinality(Votes(h)) >= group.required
  ELSE /\ h = None /\ Cardinality(Completed) >= group.replicas
       /\ \A g \in Hash \cup {None} : Cardinality(Votes(g)) < group.required

\* So it is of a group that has a verdict, and of a call that is about to give one.
VerdictsSound ==
  /\ group.state \in {"PASSED", "DISPUTED"} => Settles(group.state = "PASSED", group.hash)
  /\ \A p \in Proc :
       /\ proc[p].at \in {"replica", "quorum", "group"} => policy = "REDUNDANT"
       /\ proc[p].at = "replica" => good[proc[p].job]
       /\ proc[p].at \in {"quorum", "group"} => replica[proc[p].job] # None
       /\ proc[p].at = "group" => Settles(proc[p].passed, proc[p].hash)

\* The job has the result of a quorum.
InQuorum(j) == replica[j] # None /\ Cardinality(Votes(hash[j])) >= group.required

\* A replica passes, or is about to, with a quorum.
PassesSound ==
  policy = "REDUNDANT" =>
    /\ \A j \in Job : outcome[j] = "passed" \/ <<j, TRUE>> \in late => InQuorum(j)
    /\ \A p \in Proc : proc[p].at \in {"check", "submit"} /\ proc[p].passed => InQuorum(proc[p].job)

VerifierInv ==
  /\ RecordsSound /\ FailureHasCause /\ StateTells /\ CallsKnow /\ FailuresHaveCause
  /\ RowsSound /\ VerdictsSound /\ PassesSound
===============================================================================
