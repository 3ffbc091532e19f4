----------------------------- MODULE Engagement -----------------------------
(***************************************************************************)
(* What the market promises about a job's deposit and about a machine,     *)
(* without states, deadlines, bids, offers, verdicts or disputes: a        *)
(* deposit is held until it is paid out or returned, once and completely;  *)
(* a machine is held by one job at a time, which pays when it gives the    *)
(* machine back or has its deposit returned before it does.                *)
(***************************************************************************)
EXTENDS Naturals

CONSTANTS Jobs, Machines, None

VARIABLES
    stage,      \* of each job: "idle", "held", "paid" or "returned"
    held,       \* tokens held for each job
    share,      \* what provider, treasury and buyer of a job have received
    holder      \* the job that holds each machine, or None

vars == <<stage, held, share, holder>>

Init ==
    /\ stage = [j \in Jobs |-> "idle"]
    /\ held = [j \in Jobs |-> 0]
    /\ share = [j \in Jobs |-> [paid |-> 0, fee |-> 0, back |-> 0]]
    /\ holder = [m \in Machines |-> None]

Deposit(j) ==
    /\ stage[j] = "idle"
    /\ stage' = [stage EXCEPT ![j] = "held"]
    /\ held'[j] > 0 /\ held' = [held EXCEPT ![j] = held'[j]]
    /\ UNCHANGED <<share, holder>>

Hold(j, m) ==
    /\ stage[j] = "held"
    /\ holder[m] = None /\ \A x \in Machines : holder[x] # j
    /\ holder' = [holder EXCEPT ![m] = j]
    /\ UNCHANGED <<stage, held, share>>

\* Everything held for the job is shared out, and the machine is free again.
Pay(j, m) ==
    /\ stage[j] = "held" /\ holder[m] = j
    /\ stage' = [stage EXCEPT ![j] = "paid"]
    /\ share' = [share EXCEPT ![j] = share'[j]]
    /\ share'[j].paid + share'[j].fee + share'[j].back = held[j]
    /\ held' = [held EXCEPT ![j] = 0]
    /\ holder' = [holder EXCEPT ![m] = None]

Return(j) ==
    /\ stage[j] \in {"idle", "held"}
    /\ stage' = [stage EXCEPT ![j] = "returned"]
    /\ share' = [share EXCEPT ![j].back = held[j]]
    /\ held' = [held EXCEPT ![j] = 0]
    /\ UNCHANGED holder

Leave(j, m) ==
    /\ stage[j] = "returned" /\ holder[m] = j
    /\ holder' = [holder EXCEPT ![m] = None]
    /\ UNCHANGED <<stage, held, share>>

Next ==
    \E j \in Jobs :
        \/ Deposit(j)
        \/ Return(j)
        \/ \E m \in Machines : Hold(j, m) \/ Pay(j, m) \/ Leave(j, m)

Spec == Init /\ [][Next]_vars
=============================================================================
