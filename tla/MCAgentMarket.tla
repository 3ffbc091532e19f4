--------------------------- MODULE MCAgentMarket ---------------------------
(***************************************************************************)
(* Instances of AgentMarket for TLC, with a configuration that stays: in   *)
(* "spend" an agent makes two jobs on two days that no provider takes, in  *)
(* "run" owner, agent and provider take one job through its life.  A       *)
(* behaviour is in one of them from its start.                             *)
(***************************************************************************)
EXTENDS AgentMarket

CONSTANTS buyer, prov, work, admin, treas, verif, agent, sp1, sp2, j1, j2

VARIABLE scenario

OneConfig ==
    {[fee_bps |-> 300, dispute_seconds |-> 1, treasury |-> treas, verifier |-> verif,
      resolver |-> admin]}

Order(budget) == [budget |-> budget, span |-> 1, timeout |-> 1, policy |-> 1]
TwoOrders == {Order(1), Order(2)}

OneBid == {[price |-> 2, span |-> 1]}

Policy(daily, single, verification, specs) ==
    [daily_spend_limit |-> daily, single_job_limit |-> single, max_runtime_seconds |-> 1,
     required_verification |-> verification, allowed_specs |-> specs, span |-> 2]

\* The second has another workload and lower limits, and asks for a stricter verification
\* than any order has; the third is refused, as it allows one job more than a day.
ThreePolicies == {Policy(3, 2, 1, {sp1}), Policy(2, 1, 2, {sp2}), Policy(1, 2, 1, {sp1})}

MCInit == AgentInit /\ scenario \in {"spend", "run"}

Absent(j) == job'[j].state = "ABSENT"

MCNext ==
    /\ AgentNext /\ UNCHANGED <<config, scenario>>
    /\ scenario = "spend" =>
          /\ UNCHANGED provider
          /\ Absent(j1) => Absent(j2)
          /\ \A j \in Jobs : job'[j].state # "CREATED"
    /\ scenario = "run" =>
          /\ Absent(j2) /\ (Absent(j1) \/ job'[j1].budget = 2)
          /\ now' = now \/ Waiting(j1)

MCSpec == MCInit /\ [][MCNext]_<<allVars, scenario>>

=============================================================================
