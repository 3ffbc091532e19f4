----------------------------- MODULE Benchmarks -----------------------------
(***************************************************************************)
(* The benchmark of a machine: runBenchmark                                *)
(* (agents/provider-node/benchmark.ts) and the handler of                  *)
(* POST /v1/provider/benchmark (apps/api/src/server.ts), while the         *)
(* operator changes the GPUs, the committed report and the worker.         *)
(*                                                                         *)
(* A kit is a list of GPUs.  The report on it and the hash of the report   *)
(* are named by the kit.  measured is a history variable: the kits that    *)
(* were installed when a benchmark passed.                                 *)
(***************************************************************************)
EXTENDS Naturals

CONSTANTS
  Kits, Workers,
  Tolerance     \* |now - finishedAt| the API accepts

VARIABLES
  live,         \* the GPUs installed
  file,         \* the kit HARDWARE_REPORT describes
  machine,      \* worker and hardware_hash of the machine on the chain
  auth,         \* workers with an active authorization
  published,    \* hardware_reports: the kits whose report is in the table
  run,          \* the benchmark under way
  stored,       \* benchmark_reports: kit and outcome
  measured

vars == <<live, file, machine, auth, published, run, stored, measured>>

NoRun == [at |-> "none"]

Init ==
  /\ live \in Kits /\ file = live
  /\ \E w \in Workers : machine = [worker |-> w, hash |-> live]
  /\ auth = Workers /\ published = {live}
  /\ run = NoRun /\ stored = {} /\ measured = {}
-----------------------------------------------------------------------------
(* The operator and the chain *)

\* GPUs are changed with the machine off, which ends a benchmark.
Install(k) ==
  /\ k # live /\ live' = k /\ run' = NoRun
  /\ UNCHANGED <<file, machine, auth, published, stored, measured>>

\* detect writes the report on what is installed.
Detect ==
  /\ file # live /\ file' = live
  /\ UNCHANGED <<live, machine, auth, published, run, stored, measured>>

\* update_machine names an authorized worker and a report: the one committed to
\* already, or the one in the file.
UpdateMachine(w, k) ==
  /\ w \in auth /\ k \in {machine.hash, file} /\ machine # [worker |-> w, hash |-> k]
  /\ machine' = [worker |-> w, hash |-> k]
  /\ UNCHANGED <<live, file, auth, published, run, stored, measured>>

Revoke(w) ==
  /\ w \in auth /\ auth' = auth \ {w}
  /\ UNCHANGED <<live, file, machine, published, run, stored, measured>>

Publish ==
  /\ machine.hash \notin published /\ published' = published \cup {machine.hash}
  /\ UNCHANGED <<live, file, machine, auth, run, stored, measured>>
-----------------------------------------------------------------------------
(* The benchmark *)

\* A wrong form of Start: the GPUs are taken from the report, not from the machine.
Start_unseen(w) ==
  /\ run = NoRun
  /\ machine.worker = w /\ w \in auth
  /\ file = machine.hash
  /\ run' = [at |-> "running", worker |-> w, hash |-> file, gpu |-> file]
  /\ UNCHANGED <<live, file, machine, auth, published, stored, measured>>

\* runBenchmark goes on if the worker is the machine's, the report is the
\* committed one, and the GPUs it finds are those of the report.
Start(w) ==
  /\ run = NoRun
  /\ machine.worker = w /\ w \in auth
  /\ file = machine.hash
  /\ live = file
  /\ run' = [at |-> "running", worker |-> w, hash |-> file, gpu |-> live]
  /\ UNCHANGED <<live, file, machine, auth, published, stored, measured>>

\* The measurements are signed and sent; they pass if they took five minutes at
\* most.
Measure ==
  /\ run.at = "running"
  /\ \E passed \in BOOLEAN :
       /\ run' = [at |-> "sent", worker |-> run.worker, hash |-> run.hash, gpu |-> run.gpu,
                  passed |-> passed, age |-> 0]
       /\ measured' = IF passed THEN measured \cup {live} ELSE measured
  /\ UNCHANGED <<live, file, machine, auth, published, stored>>

\* The container, the pull or the request fails.
Abort ==
  /\ run # NoRun /\ run' = NoRun
  /\ UNCHANGED <<live, file, machine, auth, published, stored, measured>>

Tick ==
  /\ run.at = "sent" /\ run.age <= Tolerance
  /\ run' = [run EXCEPT !.age = @ + 1]
  /\ UNCHANGED <<live, file, machine, auth, published, stored, measured>>

\* The API stores the report if it is fresh, its worker still the machine's, its
\* hash still the committed one, and its GPUs those of the published report.
Accept ==
  /\ run.at = "sent" /\ run.age <= Tolerance
  /\ machine.worker = run.worker /\ run.worker \in auth
  /\ machine.hash = run.hash
  /\ run.hash \in published /\ run.gpu = run.hash
  /\ stored' = stored \cup {[kit |-> run.hash, passed |-> run.passed]}
  /\ run' = NoRun
  /\ UNCHANGED <<live, file, machine, auth, published, measured>>

Next ==
  \/ \E k \in Kits : Install(k)
  \/ Detect \/ Publish
  \/ \E w \in Workers : (\E k \in Kits : UpdateMachine(w, k)) \/ Revoke(w) \/ Start(w)
  \/ Measure \/ Abort \/ Tick \/ Accept

Spec == Init /\ [][Next]_vars
-----------------------------------------------------------------------------
(* Properties *)

\* Whatever is changed while a benchmark runs or its report is on the way, a
\* report is only stored as passed for GPUs on which a benchmark has passed
\* (benchmark.ts:47-64, server.ts:1276-1304).
StoredWasMeasured == \A r \in stored : r.passed => r.kit \in measured
==============================================================================
