---------------------------- MODULE AgentMarket ----------------------------
(***************************************************************************)
(* The market together with the agent policies of                          *)
(* programs/compute-market/src/lib.rs: an owner lets an agent key create,  *)
(* assign and cancel jobs with the owner's tokens within a daily limit.    *)
(*                                                                         *)
(* An allowlist is the set of specifications that have a Merkle proof for  *)
(* its root.  drawn is a history variable: no instruction reads it.        *)
(***************************************************************************)
EXTENDS Market

CONSTANTS
    Agents,         \* keys that act under a policy
    Specs,          \* specification hashes
    PolicyTerms,    \* settings an owner may ask for
    Allowances      \* amounts an owner may delegate

ASSUME AgentAssumption ==
    /\ Agents \subseteq Keys /\ None \notin Agents \cup Specs
    /\ PolicyTerms \subseteq [daily_spend_limit: Nat, single_job_limit: Nat,
                              max_runtime_seconds: Nat, required_verification: Nat,
                              allowed_specs: SUBSET Specs, span: Nat]
    /\ Allowances \subseteq Nat

VARIABLES
    agent_policy,   \* AgentPolicy accounts, by owner and agent
    delegate,       \* delegate and delegated amount of each owner's token account
    spec_hash,      \* spec_hash of each job
    drawn           \* what each agent took from each owner's account today

agentVars == <<agent_policy, delegate, spec_hash, drawn>>
allVars == <<vars, agentVars>>

BlankPolicy ==
    [active |-> FALSE, daily_spend_limit |-> 0, single_job_limit |-> 0, max_runtime_seconds |-> 0,
     required_verification |-> 0, allowed_specs |-> {}, expires_at |-> 0,
     day_index |-> 0, daily_spent |-> 0]

AgentInit ==
    /\ Init
    /\ agent_policy = [b \in Buyers |-> [a \in Agents |-> BlankPolicy]]
    /\ delegate = [b \in Buyers |-> [agent |-> None, amount |-> 0]]
    /\ spec_hash = [j \in Jobs |-> None]
    /\ drawn = [b \in Buyers |-> [a \in Agents |-> 0]]

-----------------------------------------------------------------------------
(* Policies.                                                               *)

\* validate_agent_policy wants an expiry after now, so an account exists when it has one.
HasPolicy(b, a) == agent_policy[b][a].expires_at > 0

\* An empty allowlist has no root.
validate_agent_policy(t) ==
    /\ t.daily_spend_limit > 0 /\ t.single_job_limit \in 1..t.daily_spend_limit
    /\ t.max_runtime_seconds \in 1..DAY /\ t.required_verification <= 5
    /\ t.allowed_specs # {} /\ t.span > 0

\* The account both instructions write: the terms, and the counter with its day.
WithTerms(t, day, spent) ==
    [active |-> TRUE, daily_spend_limit |-> t.daily_spend_limit,
     single_job_limit |-> t.single_job_limit, max_runtime_seconds |-> t.max_runtime_seconds,
     required_verification |-> t.required_verification, allowed_specs |-> t.allowed_specs,
     expires_at |-> now + t.span, day_index |-> day, daily_spent |-> spent]

CreateAgentPolicy(b, a, t) ==
    /\ ~HasPolicy(b, a)
    /\ validate_agent_policy(t)
    /\ agent_policy' = [agent_policy EXCEPT ![b][a] = WithTerms(t, now \div DAY, 0)]
    /\ UNCHANGED <<vars, delegate, spec_hash, drawn>>

\* Mutant: a limit below what is already spent is accepted.
UpdateAgentPolicy_below(b, a, t) ==
    /\ HasPolicy(b, a)
    /\ validate_agent_policy(t)
    /\ agent_policy' = [agent_policy EXCEPT ![b][a] = WithTerms(t, @.day_index, @.daily_spent)]
    /\ UNCHANGED <<vars, delegate, spec_hash, drawn>>

UpdateAgentPolicy(b, a, t) ==
    /\ HasPolicy(b, a)
    /\ validate_agent_policy(t)
    /\ t.daily_spend_limit >= agent_policy[b][a].daily_spent
    /\ agent_policy' = [agent_policy EXCEPT ![b][a] = WithTerms(t, @.day_index, @.daily_spent)]
    /\ UNCHANGED <<vars, delegate, spec_hash, drawn>>

RevokeAgentPolicy(b, a) ==
    /\ HasPolicy(b, a)
    /\ agent_policy' = [agent_policy EXCEPT ![b][a].active = FALSE]
    /\ UNCHANGED <<vars, delegate, spec_hash, drawn>>

\* The SPL Approve instruction: one delegate per token account, the last one approved.
Approve(b, a, amount) ==
    /\ delegate' = [delegate EXCEPT ![b] = [agent |-> a, amount |-> amount]]
    /\ UNCHANGED <<vars, agent_policy, spec_hash, drawn>>

-----------------------------------------------------------------------------
(* What an agent does under a policy.                                      *)

MayAct(b, a) == agent_policy[b][a].active /\ now < agent_policy[b][a].expires_at

\* Spent today: the counter starts again when the day is another one.
SpentToday(b, a) ==
    IF agent_policy[b][a].day_index = now \div DAY THEN agent_policy[b][a].daily_spent ELSE 0

\* Mutant: the tokens are moved but not recorded as the deposit.
AgentJob_undeposited(b, r) ==
    [BlankJob EXCEPT !.state = "OPEN", !.buyer = b, !.budget = r.budget,
                     !.deadline = now + r.span, !.timeout = r.timeout, !.policy = r.policy,
                     !.fee_bps = config.terms.fee_bps,
                     !.dispute_seconds = config.terms.dispute_seconds,
                     !.treasury = config.terms.treasury, !.verifier = config.terms.verifier,
                     !.resolver = config.terms.resolver]

\* The account of the new job, with the terms of the moment.
AgentJob(b, r) ==
    [BlankJob EXCEPT !.state = "OPEN", !.buyer = b, !.budget = r.budget, !.deposit = r.budget,
                     !.deadline = now + r.span, !.timeout = r.timeout, !.policy = r.policy,
                     !.fee_bps = config.terms.fee_bps,
                     !.dispute_seconds = config.terms.dispute_seconds,
                     !.treasury = config.terms.treasury, !.verifier = config.terms.verifier,
                     !.resolver = config.terms.resolver]

\* Creates the job and funds it from the owner's account in one step.
CreateAgentJob(j, b, a, r, s) ==
    LET p == agent_policy[b][a] IN
    /\ ~config.paused
    /\ MayAct(b, a)
    /\ job[j].state = "ABSENT"
    /\ r.budget \in 1..p.single_job_limit /\ r.span \in 1..DAY
    /\ r.timeout \in 1..p.max_runtime_seconds /\ r.policy \in p.required_verification..5
    /\ s \in p.allowed_specs
    /\ SpentToday(b, a) + r.budget <= p.daily_spend_limit
    /\ delegate[b].agent = a /\ delegate[b].amount >= r.budget
    /\ wallet[b] >= r.budget
    /\ agent_policy' = [agent_policy EXCEPT ![b][a].day_index = now \div DAY,
                                            ![b][a].daily_spent = SpentToday(b, a) + r.budget]
    /\ job' = [job EXCEPT ![j] = AgentJob(b, r)]
    /\ spec_hash' = [spec_hash EXCEPT ![j] = s]
    /\ wallet' = [wallet EXCEPT ![b] = @ - r.budget]
    /\ escrow' = [escrow EXCEPT ![j] = @ + r.budget]
    /\ delegate' = [delegate EXCEPT ![b].amount = @ - r.budget]
    /\ drawn' = [drawn EXCEPT ![b][a] = @ + r.budget]
    /\ UNCHANGED <<now, config, supply, bid>>

\* The policy, as it is now, has to cover the job, whoever created it.
Covers(a, j) ==
    LET p == agent_policy[job[j].buyer][a] IN
    /\ MayAct(job[j].buyer, a)
    /\ job[j].timeout <= p.max_runtime_seconds /\ job[j].policy >= p.required_verification
    /\ spec_hash[j] \in p.allowed_specs

AcceptAgentBid(j, p, a) ==
    /\ job[j].state = "OPEN" /\ Covers(a, j)
    /\ AcceptBid(j, p)
    /\ UNCHANGED agentVars

CancelAgentJob(j, a) ==
    /\ job[j].state \in {"CREATED", "OPEN"} /\ Covers(a, j)
    /\ CancelJob(j)
    /\ UNCHANGED agentVars

-----------------------------------------------------------------------------
\* An instruction of Market; create_job also writes the specification, and a new day starts
\* with nothing drawn.
MarketStep ==
    /\ Next
    /\ \E s \in Specs : spec_hash' =
           [j \in Jobs |-> IF job[j].state = "ABSENT" /\ job'[j].state # "ABSENT" THEN s
                                                                                ELSE spec_hash[j]]
    /\ drawn' = IF now' \div DAY = now \div DAY THEN drawn
                                                ELSE [b \in Buyers |-> [a \in Agents |-> 0]]
    /\ UNCHANGED <<agent_policy, delegate>>

PolicyStep(b, a) ==
    \/ \E t \in PolicyTerms : CreateAgentPolicy(b, a, t) \/ UpdateAgentPolicy(b, a, t)
    \/ RevokeAgentPolicy(b, a)
    \/ \E amount \in Allowances : Approve(b, a, amount)

AgentStep(a, j) ==
    \/ \E b \in Buyers, r \in Orders, s \in Specs : CreateAgentJob(j, b, a, r, s)
    \/ \E p \in Providers : AcceptAgentBid(j, p, a)
    \/ CancelAgentJob(j, a)

AgentNext ==
    \/ MarketStep
    \/ \E b \in Buyers, a \in Agents : PolicyStep(b, a)
    \/ \E a \in Agents, j \in Jobs : AgentStep(a, j)

AgentSpec == AgentInit /\ [][AgentNext]_allVars

-----------------------------------------------------------------------------
(* Properties.                                                             *)

\* On no day does an agent move more of the owner's tokens into escrows than the limit the
\* policy has now: not by cancelling and creating again, not across midnight, not by an
\* update, a revocation and a new grant, or a second delegation in between.
DailySpendCapped ==
    \A b \in Buyers, a \in Agents :
        drawn[b][a] = SpentToday(b, a) /\ drawn[b][a] <= agent_policy[b][a].daily_spend_limit

PolicyAccounts ==
    [active: BOOLEAN, daily_spend_limit: Nat, single_job_limit: Nat, max_runtime_seconds: Nat,
     required_verification: Nat, allowed_specs: SUBSET Specs, expires_at: Nat,
     day_index: Nat, daily_spent: Nat]

\* The inductive invariant of MarketProofs: the counter is of today or an earlier day,
\* within the limit, zero without a policy, and today's is what was drawn.
SpendInv ==
    /\ now \in Nat
    /\ agent_policy \in [Buyers -> [Agents -> PolicyAccounts]]
    /\ drawn \in [Buyers -> [Agents -> Nat]]
    /\ \A b \in Buyers, a \in Agents :
          /\ agent_policy[b][a].day_index <= now \div DAY
          /\ agent_policy[b][a].daily_spent <= agent_policy[b][a].daily_spend_limit
          /\ ~HasPolicy(b, a) => agent_policy[b][a].daily_spent = 0
          /\ drawn[b][a] = SpentToday(b, a)

=============================================================================
