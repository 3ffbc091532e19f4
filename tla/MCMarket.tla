------------------------------ MODULE MCMarket ------------------------------
(* Instances of Market for TLC: small sets of inputs, durations scaled down. *)
EXTENDS Market, TLC

CONSTANTS buyer, prov, work, work2, admin, treas, verif

Terms(fee, dispute, ver) ==
    [fee_bps |-> fee, dispute_seconds |-> dispute, treasury |-> treas, verifier |-> ver,
     resolver |-> admin]

OneConfig == {Terms(300, 1, verif)}

\* The second setting makes the worker verifier; the others are refused by ValidConfig.
TwoConfigs == {Terms(300, 1, verif), Terms(0, 2, work), Terms(0, 0, verif), Terms(301, 1, verif)}

OneOrder == {[budget |-> 300, span |-> 1, timeout |-> 1, policy |-> 1]}
TwoOrders == OneOrder \cup {[budget |-> 250, span |-> 2, timeout |-> 2, policy |-> 1]}

OneBid == {[price |-> 200, span |-> 1]}

OneOffer == {[rate |-> 100, min_seconds |-> 1, max_seconds |-> 1, span |-> 2]}
TwoOffers == OneOffer \cup {[rate |-> 200, min_seconds |-> 1, max_seconds |-> 2, span |-> 1]}

\* expire_job, settle_job, refund_job and release_machine need no party of the job: whatever
\* the buyer, the worker and the verifier do or fail to do, the money of every funded job
\* leaves its escrow and every reserved machine is given back.
Released == EscrowReleased /\ MachineReleased

JobSymmetry == Permutations(Jobs)
=============================================================================
