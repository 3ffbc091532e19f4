---------------------------- MODULE ProviderStake ----------------------------
(***************************************************************************)
(* The provider stake of programs/compute-market/src/lib.rs: tokens a      *)
(* provider leaves in a vault of the program, where the resolver can slash *)
(* them, and takes back after a cooldown.                                  *)
(*                                                                         *)
(* As in Market an instruction is one action.  The stake instructions read *)
(* the Provider account only for its authority and never change it, so a   *)
(* provider is named by its authority key.  request is a history variable: *)
(* no instruction reads it.                                                *)
(***************************************************************************)
EXTENDS Integers, FiniteSets, Totals

CONSTANTS
    Providers,      \* authority keys of providers
    Amounts,        \* amounts an instruction may ask for
    Endowment,      \* tokens each provider starts with
    COOLDOWN,       \* STAKE_COOLDOWN_SECONDS: seven days
    MaxTime         \* bound of the clock

ASSUME StakeAssumption ==
    /\ IsFiniteSet(Providers)
    /\ Amounts \subseteq Nat /\ Endowment \in Nat /\ COOLDOWN \in Nat \ {0} /\ MaxTime \in Nat

VARIABLES
    now,        \* Clock::get()?.unix_timestamp
    stake,      \* ProviderStake accounts
    vault,      \* balance of each provider's stake-vault token account
    wallet,     \* balance of each provider's own token account
    treasury,   \* balance of the treasury's token account
    request     \* the last request_unstake: when, and the least deposited ever since

vars == <<now, stake, vault, wallet, treasury, request>>

BlankStake == [exists |-> FALSE, deposited |-> 0, pending_withdrawal |-> 0, unlock_at |-> 0,
               total_slashed |-> 0]

Init ==
    /\ now = 0
    /\ stake = [p \in Providers |-> BlankStake]
    /\ vault = [p \in Providers |-> 0]
    /\ wallet = [p \in Providers |-> Endowment]
    /\ treasury = 0
    /\ request = [p \in Providers |-> [since |-> 0, least |-> 0]]

InitializeProviderStake(p) ==
    /\ ~stake[p].exists
    /\ stake' = [stake EXCEPT ![p].exists = TRUE]
    /\ UNCHANGED <<now, vault, wallet, treasury, request>>

DepositStake(p, amount) ==
    /\ stake[p].exists /\ amount > 0
    /\ wallet[p] >= amount
    /\ wallet' = [wallet EXCEPT ![p] = @ - amount]
    /\ vault' = [vault EXCEPT ![p] = @ + amount]
    /\ stake' = [stake EXCEPT ![p].deposited = @ + amount]
    /\ UNCHANGED <<now, treasury, request>>

\* Mutant: a second request keeps the cooldown of the first.
RequestUnstake_keeps(p, amount) ==
    /\ stake[p].exists /\ amount > 0 /\ amount <= stake[p].deposited
    /\ stake' = [stake EXCEPT ![p].pending_withdrawal = amount,
                              ![p].unlock_at = IF @ = 0 THEN now + COOLDOWN ELSE @]
    /\ request' = [request EXCEPT ![p] = [since |-> now, least |-> stake[p].deposited]]
    /\ UNCHANGED <<now, vault, wallet, treasury>>

\* A second request replaces the first and starts the cooldown again.
RequestUnstake(p, amount) ==
    /\ stake[p].exists /\ amount > 0 /\ amount <= stake[p].deposited
    /\ stake' = [stake EXCEPT ![p].pending_withdrawal = amount, ![p].unlock_at = now + COOLDOWN]
    /\ request' = [request EXCEPT ![p] = [since |-> now, least |-> stake[p].deposited]]
    /\ UNCHANGED <<now, vault, wallet, treasury>>

CancelUnstake(p) ==
    /\ stake[p].pending_withdrawal > 0
    /\ stake' = [stake EXCEPT ![p].pending_withdrawal = 0, ![p].unlock_at = 0]
    /\ UNCHANGED <<now, vault, wallet, treasury, request>>

WithdrawStake(p) ==
    LET amount == stake[p].pending_withdrawal IN
    /\ amount > 0 /\ amount <= stake[p].deposited /\ now >= stake[p].unlock_at
    /\ vault[p] >= amount
    /\ vault' = [vault EXCEPT ![p] = @ - amount]
    /\ wallet' = [wallet EXCEPT ![p] = @ + amount]
    /\ stake' = [stake EXCEPT ![p].deposited = @ - amount, ![p].pending_withdrawal = 0,
                              ![p].unlock_at = 0]
    /\ UNCHANGED <<now, treasury, request>>

Smaller(a, b) == IF a <= b THEN a ELSE b

\* Mutant: slashing leaves the pending withdrawal as it is.
Slashed_uncapped(r, amount) ==
    [r EXCEPT !.deposited = @ - amount, !.total_slashed = @ + amount]

\* The account after a slash: a pending withdrawal is capped to what is left.
Slashed(r, amount) ==
    LET pending == Smaller(r.pending_withdrawal, r.deposited - amount) IN
    [r EXCEPT !.deposited = @ - amount, !.total_slashed = @ + amount,
              !.pending_withdrawal = pending, !.unlock_at = IF pending = 0 THEN 0 ELSE @]

SlashStake(p, amount) ==
    /\ amount > 0 /\ amount <= stake[p].deposited
    /\ vault[p] >= amount
    /\ vault' = [vault EXCEPT ![p] = @ - amount]
    /\ treasury' = treasury + amount
    /\ stake' = [stake EXCEPT ![p] = Slashed(@, amount)]
    /\ request' = [request EXCEPT ![p].least = Smaller(@, stake[p].deposited - amount)]
    /\ UNCHANGED <<now, wallet>>

Tick ==
    /\ now < MaxTime
    /\ now' = now + 1
    /\ UNCHANGED <<stake, vault, wallet, treasury, request>>

Next ==
    \/ \E p \in Providers :
          \/ InitializeProviderStake(p)
          \/ \E amount \in Amounts :
                DepositStake(p, amount) \/ RequestUnstake(p, amount) \/ SlashStake(p, amount)
          \/ CancelUnstake(p)
          \/ WithdrawStake(p)
    \/ Tick

Spec == Init /\ [][Next]_vars

-----------------------------------------------------------------------------
(* Properties.                                                             *)

StakeAccounts ==
    [exists: BOOLEAN, deposited: Nat, pending_withdrawal: Nat, unlock_at: Nat, total_slashed: Nat]

\* Every account holds values of its declared Rust types.
TypeOK ==
    /\ now \in Nat
    /\ stake \in [Providers -> StakeAccounts]
    /\ vault \in [Providers -> Nat]
    /\ wallet \in [Providers -> Nat]
    /\ treasury \in Nat
    /\ request \in [Providers -> [since: Nat, least: Nat]]

\* The vault holds what the account says is deposited, and a provider's tokens are in its
\* wallet, at stake, or counted as slashed: total_slashed is what slash_stake really took.
StakeAccounted ==
    \A p \in Providers :
        /\ vault[p] = stake[p].deposited
        /\ wallet[p] + vault[p] + stake[p].total_slashed = Endowment

\* Everything slashed reaches the treasury.
SlashesCollected == treasury = Total([p \in Providers |-> stake[p].total_slashed], Providers)

\* A pending withdrawal is covered by what was deposited at every moment since it was
\* requested: deposits made later do not refill it after a slash, and its cooldown is
\* counted from that request.
PendingCovered ==
    \A p \in Providers :
        /\ stake[p].pending_withdrawal > 0 =>
              /\ stake[p].pending_withdrawal <= request[p].least
              /\ request[p].least <= stake[p].deposited
              /\ stake[p].unlock_at = request[p].since + COOLDOWN
        /\ stake[p].pending_withdrawal = 0 => stake[p].unlock_at = 0

\* No token leaves the vault for the provider unless it was within the resolver's reach for
\* a whole cooldown: whatever deposits, repeated requests, cancellations and slashes came
\* before, a withdrawal takes no more than was deposited at every moment since its request.
ExitWasAtRisk ==
    [][\A p \in Providers : wallet'[p] > wallet[p] =>
          /\ now >= request[p].since + COOLDOWN
          /\ wallet'[p] - wallet[p] <= request[p].least]_vars

\* The inductive invariant of ProviderStakeProofs.
StakeInv == TypeOK /\ StakeAccounted /\ PendingCovered

\* However deposits, withdrawals and slashes of the providers are ordered, each vault holds
\* what its account says, a pending withdrawal is covered by tokens that were at risk since
\* its request, and everything slashed reaches the treasury (slash_stake).
StakeSound == StakeInv /\ SlashesCollected

=============================================================================
