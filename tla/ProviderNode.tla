---------------------------- MODULE ProviderNode ----------------------------
(***************************************************************************)
(* agents/provider-node and executors/: the daemon of one machine, the     *)
(* `execute` and `recover` processes it spawns for the machine's active    *)
(* job, the journal and evidence files they leave behind, the container    *)
(* they run, and what the chain and the API hold of the job.               *)
(*                                                                         *)
(* A child is a sequential process; an action is what it does between two  *)
(* awaits, the call that ends it included. Whatever it learnt before an    *)
(* await (the job's state, the evidence file) may be stale after it. A     *)
(* bundle of evidence is named by a number: its receipt's random nonce     *)
(* makes every bundle different, also of one and the same container.       *)
(***************************************************************************)
EXTENDS Naturals, Executors

CONSTANTS
  Slots,       \* bound: processes at a time
  Backends,    \* the executors: a subset of {"docker", "vllm", "ray"}
  Challenged,  \* the policy is CHALLENGE
  MaxFaults    \* bound: crashes, restarts, rejected calls, timeouts

ASSUME NodeAssumption ==
  /\ Backends \subseteq {"docker", "vllm", "ray"}
  /\ Challenged \in BOOLEAN /\ MaxFaults \in Nat /\ Slots \in Nat

Child == 1..Slots

VARIABLES
  orphans,     \* a restart of the daemon leaves its child running
  backend,     \* selectExecutor(spec)
  admits,      \* the host accepts the specification
  \* the chain
  state,       \* the job: 4 ASSIGNED, 6 RUNNING, 8 RESULT_SUBMITTED, 0 ended
  receipt,     \* the bundle whose hash the job holds, 0 for none
  late,        \* transactions sent whose sender stopped waiting
  auth,        \* the worker's authorization is active
  \* the host
  journal,     \* state in the journal file, "none" without a file
  evidence,    \* the bundle in the evidence file
  container,   \* the job's container or Ray submission
  runs,        \* how often the workload was started
  made,        \* bundles put together so far
  child,       \* the processes
  daemon,      \* the daemon: where in tick(), job state read, its child
  \* the API
  stored,      \* the bundle storeReceipt has kept
  faults

specVars  == <<orphans, backend, admits>>
chainVars == <<state, receipt, late, auth>>
fileVars  == <<journal, evidence>>
runVars   == <<container, runs, made>>
vars      == <<orphans, backend, admits, state, receipt, late, auth, journal, evidence, container,
               runs, made, child, daemon, stored, faults>>

NoChild   == [at |-> "idle", cmd |-> "none", seen |-> 0, bundle |-> 0]
nobody    == 0
IdleDaemon == [at |-> "idle", seen |-> 0, active |-> nobody]

Init ==
  /\ orphans \in BOOLEAN /\ backend \in Backends /\ admits \in BOOLEAN
  /\ state = 4 /\ receipt = 0 /\ late = {} /\ auth = TRUE
  /\ journal = "none" /\ evidence = 0
  /\ container = "none" /\ runs = 0 /\ made = 0
  /\ child = [k \in Child |-> NoChild]
  /\ daemon = IdleDaemon
  /\ stored = 0 /\ faults = 0

\* The child ends, and with it `executionActive`.
Exit(k) ==
  /\ child' = [child EXCEPT ![k] = NoChild]
  /\ daemon' = IF daemon.active = k THEN [daemon EXCEPT !.active = nobody] ELSE daemon

\* `catch`: FAILED is journalled and the child ends.
Fail(k) == journal' = "FAILED" /\ Exit(k)

Goto(k, at) == child' = [child EXCEPT ![k].at = at] /\ UNCHANGED daemon
-------------------------------------------------------------------------------
(* daemon.ts *)

\* tick(): the machine is busy and nothing is executing.
Tick ==
  /\ daemon.at = "idle" /\ daemon.active = nobody
  /\ state \in {4, 6, 8}
  /\ daemon' = [daemon EXCEPT !.at = "spawn", !.seen = state]
  /\ UNCHANGED <<specVars, chainVars, fileVars, runVars, child, stored, faults>>

\* A wrong form of Command: the journal is not looked at.
Command_fresh(seen) == IF seen = 4 THEN "execute" ELSE "recover"

\* The command for a job seen in a state.
Command(seen) == IF seen = 4 /\ journal = "none" THEN "execute" ELSE "recover"

\* The specification has arrived: the command is chosen and the child spawned.
Spawn(k) ==
  /\ daemon.at = "spawn" /\ auth
  /\ child[k].at = "idle" /\ \A i \in 1..(k - 1) : child[i].at # "idle"
  /\ daemon' = [daemon EXCEPT !.at = "idle", !.active = k]
  /\ child' = [child EXCEPT ![k] =
                 [NoChild EXCEPT !.at = "read", !.cmd = Command(daemon.seen)]]
  /\ UNCHANGED <<specVars, chainVars, fileVars, runVars, stored, faults>>
-------------------------------------------------------------------------------
(* cli.ts execute and recover; the executors *)

\* The job account is read.
ReadJob(k) ==
  /\ child[k].at = "read"
  /\ child' = [child EXCEPT ![k].at = "begin", ![k].seen = state]
  /\ UNCHANGED <<specVars, chainVars, fileVars, runVars, daemon, stored, faults>>

\* Authorization and journal are checked outside the `try`; the evidence file
\* is read and the case chosen.
Begin(k) ==
  /\ child[k].at = "begin"
  /\ LET p == child[k] IN
     IF ~auth \/ (journal # "none" /\ p.cmd = "execute")
     THEN Exit(k) /\ UNCHANGED journal
     ELSE IF \/ p.cmd = "recover" /\ p.seen = 8 /\ evidence = 0
             \/ p.cmd = "execute" /\ p.seen = 8
             \/ p.seen = 0
     THEN Fail(k)
     ELSE /\ child' = [child EXCEPT ![k].bundle = evidence, ![k].at =
                CASE p.seen = 8 -> "upload"
                  [] p.seen = 4 /\ p.cmd = "recover" -> "clean"
                  [] p.seen = 4 /\ p.cmd = "execute" -> "prepare"
                  [] p.seen = 6 /\ evidence = 0 -> "reattach"
                  [] p.seen = 6 /\ evidence # 0 -> "submit"]
          /\ journal' = IF p.seen = 4 /\ p.cmd = "execute" THEN "PREPARING" ELSE journal
          /\ UNCHANGED daemon
  /\ UNCHANGED <<specVars, chainVars, evidence, runVars, stored, faults>>

\* A recovery of an assigned job starts over.
Clean(k) ==
  /\ child[k].at = "clean"
  /\ container' = cleanup(backend, container)
  /\ journal' = "PREPARING"
  /\ Goto(k, "prepare")
  /\ UNCHANGED <<specVars, chainVars, evidence, runs, made, stored, faults>>

\* The container is created.
Prepare(k) ==
  /\ child[k].at = "prepare"
  /\ \E r \in prepare(backend, container, admits) :
       /\ container' = r.container
       /\ IF r.ok THEN Goto(k, "startJob") /\ UNCHANGED journal ELSE Fail(k)
  /\ UNCHANGED <<specVars, chainVars, evidence, runs, made, stored, faults>>

\* A wrong form of StartJob: the transaction's failure is not noticed.
StartJob_unchecked(k) ==
  /\ child[k].at = "startJob"
  /\ Goto(k, "start") /\ UNCHANGED journal
  /\ state' = IF state = 4 /\ auth THEN 6 ELSE state
  /\ UNCHANGED <<specVars, receipt, late, auth, evidence, runVars, stored, faults>>

\* start_job is sent and confirmed, or refused by the program.
StartJob(k) ==
  /\ child[k].at = "startJob"
  /\ IF state = 4 /\ auth
     THEN state' = 6 /\ Goto(k, "start") /\ UNCHANGED journal
     ELSE Fail(k) /\ UNCHANGED state
  /\ UNCHANGED <<specVars, receipt, late, auth, evidence, runVars, stored, faults>>

\* The workload is started.
Start(k) ==
  /\ child[k].at = "start"
  /\ \E r \in start(backend, container) :
       /\ container' = r.container
       /\ IF r.ok
          THEN runs' = runs + 1 /\ journal' = "RUNNING" /\ Goto(k, "collect")
          ELSE Fail(k) /\ UNCHANGED runs
  /\ UNCHANGED <<specVars, chainVars, evidence, made, stored, faults>>

\* A workload that is already there is taken up.
Reattach(k) ==
  /\ child[k].at = "reattach"
  /\ \E r \in recover(backend, container, admits) :
       IF r.ok THEN journal' = "RUNNING" /\ Goto(k, "collect") ELSE Fail(k)
  /\ UNCHANGED <<specVars, chainVars, evidence, runVars, stored, faults>>

\* The workload ends by itself.
Finish ==
  /\ container = "running"
  /\ container' = "exited"
  /\ UNCHANGED <<specVars, chainVars, fileVars, runs, made, child, daemon, stored, faults>>

\* The workload is over and its output is read.
Collect(k) ==
  /\ child[k].at = "collect"
  /\ \E r \in collectResult(backend, container) :
       /\ container' = r.container
       /\ IF r.ok THEN Goto(k, "write") /\ UNCHANGED journal ELSE Fail(k)
  /\ UNCHANGED <<specVars, chainVars, evidence, runs, made, stored, faults>>

\* A wrong form of WriteEvidence: the bundle is only kept in memory, not in a file.
WriteEvidence_memory(k) ==
  /\ child[k].at = "write"
  /\ made' = made + 1
  /\ journal' = "EVIDENCE_READY"
  /\ child' = [child EXCEPT ![k].at = "submit", ![k].bundle = made']
  /\ UNCHANGED <<specVars, chainVars, evidence, container, runs, daemon, stored, faults>>

\* The bundle is put together and written before anything is sent.
WriteEvidence(k) ==
  /\ child[k].at = "write"
  /\ made' = made + 1
  /\ evidence' = made' /\ journal' = "EVIDENCE_READY"
  /\ child' = [child EXCEPT ![k].at = "submit", ![k].bundle = made']
  /\ UNCHANGED <<specVars, chainVars, container, runs, daemon, stored, faults>>

\* submit_receipt is sent and confirmed, or refused by the program.
SubmitReceipt(k) ==
  /\ child[k].at = "submit"
  /\ IF state = 6 /\ auth
     THEN /\ state' = 8 /\ receipt' = child[k].bundle
          /\ Goto(k, "upload") /\ UNCHANGED journal
     ELSE Fail(k) /\ UNCHANGED <<state, receipt>>
  /\ UNCHANGED <<specVars, late, auth, evidence, runVars, stored, faults>>

\* The API's result handler takes the bundle the chain has committed to.
Accepts(b) == state = 8 /\ receipt = b

\* uploadEvidence().
Upload(k) ==
  /\ child[k].at = "upload"
  /\ IF Accepts(child[k].bundle)
     THEN /\ stored' = child[k].bundle
          /\ Goto(k, IF Challenged THEN "challenge" ELSE "commit") /\ UNCHANGED journal
     ELSE Fail(k) /\ UNCHANGED stored
  /\ UNCHANGED <<specVars, chainVars, evidence, runVars, faults>>

\* completeChallenge(): passed or not.
CompleteChallenge(k) ==
  /\ child[k].at = "challenge"
  /\ \/ Goto(k, "commit") /\ UNCHANGED journal
     \/ Fail(k)
  /\ UNCHANGED <<specVars, chainVars, evidence, runVars, stored, faults>>

\* RECEIPT_COMMITTED; the child that submitted the receipt also cleans up.
Commit(k) ==
  /\ child[k].at = "commit"
  /\ journal' = "RECEIPT_COMMITTED"
  /\ container' = IF child[k].seen = 8 THEN container
                  ELSE cleanup(backend, container)
  /\ Exit(k)
  /\ UNCHANGED <<specVars, chainVars, evidence, runs, made, stored, faults>>
-------------------------------------------------------------------------------
(* Everybody else, and faults *)

\* The job ends: verified, expired or refunded.
EndJob ==
  /\ state # 0 /\ state' = 0
  /\ UNCHANGED <<specVars, receipt, late, auth, fileVars, runVars, child, daemon, stored, faults>>

\* The provider revokes the worker.
Revoke ==
  /\ auth /\ auth' = FALSE
  /\ UNCHANGED <<specVars, state, receipt, late, fileVars, runVars, child, daemon, stored, faults>>

Fault == faults < MaxFaults /\ faults' = faults + 1

\* An await inside the `try` is rejected. A transaction may still land, the
\* workload may have been started, and a collectResult() that times out kills
\* the container.
Reject(k) ==
  /\ Fault
  /\ child[k].at \notin {"idle", "read", "begin", "clean", "commit"}
  /\ Fail(k)
  /\ late' = IF child[k].at \in {"startJob", "submit"}
             THEN late \cup {<<child[k].at, child[k].bundle>>} ELSE late
  /\ \/ UNCHANGED <<container, runs>>
     \/ /\ child[k].at = "collect" /\ container = "running"
        /\ container' = "killed" /\ UNCHANGED runs
     \/ /\ child[k].at = "start"
        /\ \E r \in start(backend, container) : r.ok /\ container' = r.container
        /\ runs' = runs + 1
  /\ UNCHANGED <<specVars, state, receipt, auth, evidence, made, stored>>

\* A transaction nobody waits for any more lands.
Land(tx) ==
  /\ tx \in late /\ auth
  /\ late' = late \ {tx}
  /\ \/ tx[1] = "startJob" /\ state = 4 /\ state' = 6 /\ UNCHANGED receipt
     \/ tx[1] = "submit" /\ state = 6 /\ state' = 8 /\ receipt' = tx[2]
  /\ UNCHANGED <<specVars, auth, fileVars, runVars, child, daemon, stored, faults>>

\* The child is killed: nothing is journalled.
CrashChild(k) ==
  /\ Fault /\ child[k].at # "idle"
  /\ Exit(k)
  /\ UNCHANGED <<specVars, chainVars, fileVars, runVars, stored>>

\* The daemon is killed and started again, its child with it or not.
RestartDaemon ==
  /\ Fault
  /\ daemon' = IdleDaemon
  /\ child' = IF orphans \/ daemon.active = nobody THEN child
              ELSE [child EXCEPT ![daemon.active] = NoChild]
  /\ UNCHANGED <<specVars, chainVars, fileVars, runVars, stored>>

\* The host goes down and comes up: containers do not start again.
RestartHost ==
  /\ Fault
  /\ daemon' = IdleDaemon /\ child' = [k \in Child |-> NoChild]
  /\ container' = IF container = "running" THEN "killed" ELSE container
  /\ UNCHANGED <<specVars, chainVars, fileVars, runs, made, stored>>

\* A request of tick() fails, or the specification is refused.
SkipTick ==
  /\ daemon.at = "spawn"
  /\ auth => Fault
  /\ ~auth => UNCHANGED faults
  /\ daemon' = IdleDaemon
  /\ UNCHANGED <<specVars, chainVars, fileVars, runVars, child, stored>>
-------------------------------------------------------------------------------
Step(k) ==
  \/ ReadJob(k) \/ Begin(k) \/ Clean(k) \/ Prepare(k) \/ StartJob(k) \/ Start(k)
  \/ Reattach(k) \/ Collect(k) \/ WriteEvidence(k) \/ SubmitReceipt(k)
  \/ Upload(k) \/ CompleteChallenge(k) \/ Commit(k)

Next ==
  \/ Tick \/ Finish \/ EndJob \/ Revoke \/ RestartDaemon \/ RestartHost \/ SkipTick
  \/ \E k \in Child : Spawn(k) \/ Step(k) \/ Reject(k) \/ CrashChild(k)
  \/ \E tx \in late : Land(tx)

Spec == Init /\ [][Next]_vars

\* The daemon's loop goes round, calls are answered, workloads end.
Fairness ==
  /\ WF_vars(Tick) /\ WF_vars(\E k \in Child : Spawn(k)) /\ WF_vars(Finish)
  /\ \A k \in Child : WF_vars(Step(k))

FairSpec == Spec /\ Fairness
-------------------------------------------------------------------------------
(* Properties *)

Places == {"idle", "read", "begin", "clean", "prepare", "startJob", "start", "reattach",
           "collect", "write", "submit", "upload", "challenge", "commit"}

Journals == {"none", "PREPARING", "RUNNING", "EVIDENCE_READY", "RECEIPT_COMMITTED", "FAILED"}

Processes(n) ==
  [at : Places, cmd : {"none", "execute", "recover"}, seen : {0, 4, 6, 8}, bundle : 0..n]

Daemons == [at : {"idle", "spawn"}, seen : {0, 4, 6, 8}, active : Child \cup {nobody}]

TypeOK ==
  /\ backend \in Backends /\ admits \in BOOLEAN /\ state \in {0, 4, 6, 8} /\ auth \in BOOLEAN
  /\ receipt \in 0..made /\ evidence \in 0..made /\ stored \in 0..made
  /\ late \subseteq {"startJob", "submit"} \X (0..made)
  /\ journal \in Journals /\ container \in Containers
  /\ runs \in Nat /\ made \in Nat /\ faults \in 0..MaxFaults
  /\ child \in [Child -> Processes(made)] /\ daemon \in Daemons

\* The workload of a job is started at most once, and never before the chain
\* says the job is running, whatever is killed, repeated or overtaken by
\* another process: start_job arbitrates (cli.ts starts the container after it).
ExecutedOnce ==
  /\ runs <= 1
  /\ runs > 0 => state # 4

\* docs/PROVIDER_NODE.md: "Evidence is persisted before the receipt
\* transaction": once the chain holds a receipt, the evidence file holds the
\* bundle it commits to, so that recover can publish it. With a process that
\* outlives its daemon it can be overwritten: the journal is not a lock.
ReceiptHasEvidence == ~orphans /\ receipt # 0 => evidence = receipt

\* What the API stores of a job is what the chain committed to, also after
\* uploads that were repeated or overtaken.
StoredIsReceipt == stored # 0 => stored = receipt

\* The evidence of a job stays with it through kills, lost answers and repeated
\* uploads: chain, evidence file and API agree on the bundle (cli.ts, server.ts).
EvidenceKept == TypeOK /\ ReceiptHasEvidence /\ StoredIsReceipt

\* The daemon gives every process a command.
Commanded == \A k \in Child : child[k].at # "idle" => child[k].cmd # "none"

\* A process about to start the workload is the only one, has start_job confirmed
\* and nothing started before it.
StartsGuarded ==
  /\ runs \in {0, 1} /\ (state = 4 => runs = 0)
  /\ \A k \in Child : child[k].at = "start" =>
       state # 4 /\ runs = 0 /\ \A i \in Child : child[i].at = "start" => i = k

\* A daemon whose child ends with it has one at a time, and spawns only without.
OneChild ==
  /\ daemon.at = "spawn" => daemon.active = nobody
  /\ ~orphans => \A k \in Child : child[k].at # "idle" => daemon.active = k

\* What a process knows of chain and evidence file where it stands, when no other
\* runs beside it: on the way to writing the evidence there is none, and a receipt
\* that is sent, or is still on its way, is that of the file.
Knows(k) ==
  /\ \/ child[k].at \in {"clean", "prepare", "startJob", "start", "reattach", "collect", "write"}
     \/ child[k].at = "begin" /\ child[k].seen = 4
     => evidence = 0
  /\ \/ child[k].at \in {"start", "reattach", "collect", "write"}
     \/ child[k].at = "begin" /\ child[k].seen # 4
     => state # 4
  /\ child[k].at = "submit" => child[k].bundle = evidence /\ evidence # 0

EvidenceGuarded ==
  ~orphans => /\ \A k \in Child : Knows(k)
              /\ state = 4 => evidence = 0
              /\ \A tx \in late : tx[1] = "submit" => tx[2] = evidence /\ evidence # 0

\* Nothing is stored before the receipt is on chain, where it stays.
StoredGuarded == state \in {4, 6} => stored = 0

\* The inductive invariant of ProviderNodeProofs.
NodeInv ==
  EvidenceKept /\ Commanded /\ StartsGuarded /\ OneChild /\ EvidenceGuarded /\ StoredGuarded

\* An assigned job is started, wherever its preparation was interrupted: the
\* daemon changes from execute to recover, and recover starts over.
AssignedJobStarts ==
  (state = 4 /\ admits) ~> (state # 4 \/ ~auth)

\* "Republishes durable evidence": evidence that was written reaches chain and
\* API, unless the job ends or the worker loses its authorization first, when
\* the daemon's child ends with it.
EvidenceDelivered ==
  (evidence # 0 /\ ~orphans) ~> (stored # 0 \/ state = 0 \/ ~auth)

\* "Reattaches to a managed container": a Docker workload that was started
\* yields a receipt, whatever happened to the processes that watched it, when
\* the daemon's child ends with it.
StartedWorkDelivered ==
  (backend = "docker" /\ runs > 0 /\ ~orphans) ~> (receipt # 0 \/ state = 0 \/ ~auth)

\* docs/PROVIDER_NODE.md on restarts: work that was started yields its receipt,
\* and evidence that was written is published, at whatever await the processes
\* were killed.
WorkDelivered == EvidenceDelivered /\ StartedWorkDelivered
===============================================================================
