----------------------------- MODULE MCVerifier -----------------------------
(***************************************************************************)
(* Verifier in five situations, one of which a behaviour is in from its    *)
(* start:                                                                  *)
(*   challenge  one CHALLENGE job, the daemon and main.ts                  *)
(*   group      two replicas from the creation of their group on           *)
(*   quorum     three replicas, the daemon and main.ts                     *)
(*   recovery   two STANDARD jobs, the daemon, under fairness              *)
(*   tiebreak   three replicas of three providers, under fairness          *)
(* quorum and tiebreak start when the replicas that will ever report have  *)
(* delivered: the others were never signed. In quorum the indexer is up to *)
(* date and at most one replica's evidence is bad.                         *)
(***************************************************************************)
EXTENDS Verifier

VARIABLE scenario

mcVars == <<vars, scenario>>

\* Three replicas of which some were never signed; the first result is called a, and the
\* providers are named in the order of their replicas.
Delivered ==
  /\ policy = "REDUNDANT"
  /\ \E signed \in SUBSET Job :
       LET Of(S) == {f \in [Job -> S \cup {None}] : \A j \in Job : f[j] = None <=> j \notin signed}
       IN /\ state = [j \in Job |-> IF j \in signed THEN 8 ELSE 0]
          /\ idx \in {state, [j \in Job |-> IF j \in signed THEN 4 ELSE 0]}
          /\ receipts = [j \in Job |-> j \in signed]
          /\ provider \in Of(Provider)
          /\ hash \in Of(Hash)
          /\ good \in {f \in [Job -> BOOLEAN] : \A j \in Job \ signed : f[j]}
  /\ \A j \in Job :
       /\ provider[j] = "v2" => \E i \in 1..j : provider[i] = "v1"
       /\ provider[j] = "v3" => \E i \in 1..j : provider[i] = "v2"
       /\ hash[j] = "b" => \E i \in 1..j : hash[i] = "a"
  /\ outcome = [j \in Job |-> None] /\ auth = [j \in Job |-> TRUE] /\ late = {}
  /\ challenge = [j \in Job |-> None] /\ missed = {} /\ record = [j \in Job |-> None]
  /\ replica = [j \in Job |-> None]
  /\ group = [state |-> "PENDING", hash |-> None, replicas |-> 3, required |-> 2]
  /\ tx = [j \in Job |-> None]
  /\ proc = [p \in Proc |-> Idle] /\ queue = {} /\ faults = 0

MCInit ==
  \/ scenario = "challenge" /\ Init /\ policy = "CHALLENGE"
  \/ scenario = "group" /\ Init /\ policy = "REDUNDANT"
  \/ scenario = "recovery" /\ Init /\ policy = "STANDARD"
  \/ scenario = "quorum" /\ Delivered /\ idx = state /\ Cardinality({j \in Job : ~good[j]}) <= 1
  \/ /\ scenario = "tiebreak" /\ Delivered
     /\ \A i, j \in Job : i # j /\ provider[i] = provider[j] => provider[i] = None

In(name) == scenario = name /\ UNCHANGED scenario

\* A step of the first jobs, with bids of some providers, results hs, up to a number of
\* faults, and with main.ts or without.
Within(jobs, ps, hs, bound, main) ==
  /\ \A j \in Job : state'[j] # 0 => j <= jobs
  /\ \A j \in Job : tx'[j] \in ps \cup {None} /\ hash'[j] \in hs \cup {None}
  /\ faults' <= bound /\ (main \/ proc'["cli"].at = "idle")

InRecovery(A) == In("recovery") /\ A /\ Within(2, {"v1"}, {"a"}, 2, FALSE)
InTieBreak(A) == In("tiebreak") /\ A /\ Within(3, Provider, Hash, 1, FALSE)

MCNext ==
  \/ In("challenge") /\ Next /\ Within(1, {"v1"}, {"a"}, 3, TRUE)
  \/ In("group") /\ Next /\ Within(2, {"v1", "v2"}, Hash, 0, FALSE) /\ group'.replicas # 3
  \/ InRecovery(Next)
  \/ In("quorum") /\ DecidingNext /\ Within(3, Provider, Hash, 1, TRUE)
  \/ InTieBreak(DecidingNext)

\* Indexer and daemon poll for ever, and the node uploads until it succeeds.
\* Nothing obliges buyers, providers, main.ts or the network.
Fairness ==
  /\ WF_mcVars(InRecovery(Reconcile)) /\ WF_mcVars(InRecovery(Poll))
  /\ WF_mcVars(InRecovery(Take)) /\ WF_mcVars(InRecovery(Step("daemon")))
  /\ \A j \in 1..2 : WF_mcVars(InRecovery(Result(j)))
  /\ WF_mcVars(InTieBreak(Reconcile)) /\ WF_mcVars(InTieBreak(Poll))
  /\ WF_mcVars(InTieBreak(Take)) /\ WF_mcVars(InTieBreak(Step("daemon")))

MCSpec == MCInit /\ [][MCNext]_mcVars /\ Fairness
-------------------------------------------------------------------------------
(* Properties *)

\* Once enough replicas agree they are decided and recorded, whatever became of
\* the others: never signed, failed, or waiting themselves (verify.ts:124).
QuorumDecided ==
  \A q \in {q \in SUBSET Job : Cardinality(q) >= 2} :
    <>[](scenario = "tiebreak" /\ Agreeing(q))
      => <>(scenario = "tiebreak" => \A s \in q : record[s] = "passed")

\* A decision of the chain whose record was interrupted is recorded later, as
\* long as the worker keeps its authorization: the daemon recomputes the
\* decision with the authorization of that time (verify.ts:58, daemon.ts:12).
AuthorizedRecordRepaired ==
  \A j \in 1..2 :
    <>[](scenario = "recovery" /\ state[j] \in {9, 12} /\ auth[j])
      => <>(scenario = "recovery" => record[j] # None)

\* The verifier "watches indexed jobs and uploaded receipt bundles"
\* (docs/VERIFICATION.md:13): a job with its bundle in the database does not
\* stay undecided, as long as the daemon's page holds every decided job.
UploadedReceiptDecided ==
  \A j \in 1..2 : []<>~(scenario = "recovery" /\ state[j] = 8 /\ receipts[j])

\* A receipt that was uploaded ends in a decision on the chain and in a record of
\* it, whichever of the two an interruption left to be done (daemon.ts:12).
ReceiptDecided == UploadedReceiptDecided /\ AuthorizedRecordRepaired
===============================================================================
