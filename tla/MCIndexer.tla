------------------------------ MODULE MCIndexer ------------------------------
(***************************************************************************)
(* Indexer in three situations, one of which a behaviour is in from its    *)
(* start:                                                                  *)
(*   tables   two one-off processes reconcile a policy whose row is        *)
(*            refused, a machine and its offer                             *)
(*   polling  a process that polls one machine, with faults and lagging    *)
(*            nodes                                                        *)
(*   live     the same between two polls: the subscription is up, no await *)
(*            is rejected and every node is up to date                     *)
(***************************************************************************)
EXTENDS Indexer

VARIABLE scenario

MCRank == [policy |-> 2, machine |-> 4, offer |-> 5]
MCParents == [policy |-> {}, machine |-> {}, offer |-> {"machine"}]

mcVars == <<vars, scenario>>

MCInit ==
  \/ scenario \in {"tables", "polling"} /\ Init
  \/ scenario = "live" /\ Start(TRUE)

In(name) == scenario = name /\ UNCHANGED scenario

\* A transaction of one of some accounts, up to a slot.
Writes(S, last) == slot < last /\ \E a \in S, c \in BOOLEAN : Transact(a, c)

MCNext ==
  \/ In("tables") /\ Writes(Account, 3)
  \/ In("tables") /\ CatchUp
  \/ In("tables") /\ \E i \in Callers : PassStep(i) \/ Call(i) \/ FailPass(i)
  \/ In("polling") /\ Writes({"machine"}, 2)
  \/ In("polling") /\ CatchUp
  \/ In("polling") /\ \E s \in 1..2 : Publish(s)
  \/ In("polling") /\ \E i \in Pollers : PassStep(i) \/ PollStep(i) \/ Notify(i)
  \/ In("polling") /\ \E i \in Pollers : FailPass(i) \/ FailPoll(i) \/ Crash(i) \/ Drop(i)
  \/ In("live") /\ Writes({"machine", "offer"}, 4)
  \/ In("live") /\ CatchUp
  \/ In("live") /\ served = slot /\ PassStep("indexer")
  \/ In("live") /\ Notify("indexer")

\* Promises settle, the timer keeps firing, the nodes catch up and
\* notifications are delivered or dropped.
Fairness ==
  /\ WF_mcVars(In("polling") /\ CatchUp)
  /\ \A s \in 1..2 : WF_mcVars(In("polling") /\ Publish(s))
  /\ WF_mcVars(In("polling") /\ PassStep("indexer"))
  /\ WF_mcVars(In("polling") /\ PollStep("indexer"))
  /\ WF_mcVars(In("polling") /\ Notify("indexer"))
  /\ WF_mcVars(In("live") /\ CatchUp)
  /\ WF_mcVars(In("live") /\ served = slot /\ PassStep("indexer"))
  /\ WF_mcVars(In("live") /\ Notify("indexer"))

MCSpec == MCInit /\ [][MCNext]_mcVars /\ Fairness
-------------------------------------------------------------------------------
(* Properties *)

\* docs/INDEXER.md: "Account reconciliation remains the source of current
\* correctness": when the chain is quiet, every existing account is eventually
\* shown in its current state for good, by polling with any fault on the way,
\* and between polls by the dirty flag alone (indexer.ts:164, indexer.ts:223). A
\* transaction that could not be read when its signature was stored is decoded
\* eventually, once a node can return it (indexer.ts:345).
Converges ==
  <>[](/\ scenario = "polling" => Current /\ Repaired
       /\ scenario = "live" => Current)
===============================================================================
