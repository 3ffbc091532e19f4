------------------------ MODULE ProviderStakeProofs ------------------------
(***************************************************************************)
(* The stake accounts for any number of providers, any amounts and any     *)
(* cooldown: the vault backs the account, and only tokens that were within *)
(* the resolver's reach for a whole cooldown are paid back.                *)
(***************************************************************************)
EXTENDS ProviderStake, TotalsProofs, TLAPS

\* Every stake instruction, and the clock, keeps the inductive invariant.
LEMMA StakeStep == StakeInv /\ [Next]_vars => StakeInv'
<1> SUFFICES ASSUME StakeInv, [Next]_vars PROVE StakeInv'
  OBVIOUS
<1>0. Amounts \subseteq Nat /\ Endowment \in Nat /\ COOLDOWN \in Nat \ {0}
  BY StakeAssumption
<1> USE <1>0
<1>1. ASSUME NEW p \in Providers, InitializeProviderStake(p) PROVE StakeInv'
  <2>1. stake' \in [Providers -> StakeAccounts]
    BY <1>1, Zenon DEF StakeInv, InitializeProviderStake, TypeOK, StakeAccounts
  <2>2. \A q \in Providers : /\ stake'[q].deposited = stake[q].deposited
                             /\ stake'[q].pending_withdrawal = stake[q].pending_withdrawal
                             /\ stake'[q].unlock_at = stake[q].unlock_at
                             /\ stake'[q].total_slashed = stake[q].total_slashed
    BY <1>1, Zenon DEF StakeInv, InitializeProviderStake, TypeOK, StakeAccounts
  <2>3. QED
    BY <1>1, <2>1, <2>2
    DEF StakeInv, InitializeProviderStake, TypeOK, StakeAccounted, PendingCovered
<1>2. ASSUME NEW p \in Providers, NEW amount \in Amounts, DepositStake(p, amount) PROVE StakeInv'
  <2>1. amount \in Nat /\ wallet[p] - amount \in Nat /\ vault[p] + amount \in Nat
        /\ stake[p].deposited \in Nat
    BY <1>2 DEF StakeInv, DepositStake, TypeOK, StakeAccounts
  <2>2. TypeOK'
    BY <1>2, <2>1 DEF StakeInv, DepositStake, TypeOK, StakeAccounts
  <2>3. StakeAccounted'
    BY <1>2, <2>1 DEF StakeInv, DepositStake, TypeOK, StakeAccounts, StakeAccounted
  <2>4. PendingCovered'
    BY <1>2, <2>1 DEF StakeInv, DepositStake, TypeOK, StakeAccounts, PendingCovered
  <2>5. QED
    BY <2>2, <2>3, <2>4, Zenon DEF StakeInv
<1>3. ASSUME NEW p \in Providers, NEW amount \in Amounts, RequestUnstake(p, amount) PROVE StakeInv'
  <2>1. amount \in Nat /\ now + COOLDOWN \in Nat /\ stake[p].deposited \in Nat
    BY DEF StakeInv, TypeOK, StakeAccounts
  <2>2. TypeOK'
    BY <1>3, <2>1, ZenonT(60) DEF StakeInv, RequestUnstake, TypeOK, StakeAccounts
  <2>3. StakeAccounted'
    BY <1>3 DEF StakeInv, RequestUnstake, TypeOK, StakeAccounts, StakeAccounted
  <2>4. PendingCovered'
    BY <1>3, <2>1 DEF StakeInv, RequestUnstake, TypeOK, StakeAccounts, PendingCovered
  <2>5. QED
    BY <2>2, <2>3, <2>4 DEF StakeInv
<1>4. ASSUME NEW p \in Providers, NEW amount \in Amounts, SlashStake(p, amount) PROVE StakeInv'
  <2> DEFINE left == stake[p].deposited - amount
             pending == Smaller(stake[p].pending_withdrawal, left)
             least == Smaller(request[p].least, left)
             r == Slashed(stake[p], amount)
  <2>1. /\ amount \in Nat /\ left \in Nat /\ stake[p] \in StakeAccounts /\ vault[p] - amount \in Nat
        /\ stake[p].pending_withdrawal \in Nat /\ request[p].least \in Nat
        /\ stake[p].total_slashed + amount \in Nat /\ stake[p].unlock_at \in Nat
    BY <1>4 DEF SlashStake, StakeInv, TypeOK, StakeAccounts
  <2>2. /\ pending \in Nat /\ pending <= stake[p].pending_withdrawal /\ pending <= left
        /\ least \in Nat /\ least <= request[p].least /\ least <= left
        /\ stake[p].pending_withdrawal <= request[p].least => pending <= least
    BY <2>1 DEF Smaller
  <2>3. /\ r \in StakeAccounts
        /\ r.deposited = left /\ r.pending_withdrawal = pending
        /\ r.total_slashed = stake[p].total_slashed + amount
        /\ r.unlock_at = IF pending = 0 THEN 0 ELSE stake[p].unlock_at
    <3> HIDE DEF left
    <3>1. r = [stake[p] EXCEPT !.deposited = left, !.total_slashed = @ + amount,
                  !.pending_withdrawal = pending,
                  !.unlock_at = IF pending = 0 THEN 0 ELSE @]
      BY DEF Slashed, left
    <3> HIDE DEF pending, r
    <3>2. QED
      BY <2>1, <2>2, <3>1, Zenon DEF StakeAccounts
  <2> HIDE DEF left, pending, least, r
  <2>4. /\ stake' = [stake EXCEPT ![p] = r]
        /\ request' = [request EXCEPT ![p].least = least]
        /\ vault' = [vault EXCEPT ![p] = @ - amount] /\ treasury' = treasury + amount
        /\ UNCHANGED <<now, wallet>>
    BY <1>4 DEF SlashStake, left, least, r
  <2>5. TypeOK'
    BY <2>1, <2>2, <2>3, <2>4 DEF StakeInv, TypeOK
  <2>6. StakeAccounted'
    BY <2>1, <2>3, <2>4 DEF StakeInv, TypeOK, StakeAccounted, StakeAccounts, left
  <2>7. PendingCovered'
    BY <2>1, <2>2, <2>3, <2>4 DEF StakeInv, TypeOK, PendingCovered, StakeAccounts
  <2>8. QED
    BY <2>5, <2>6, <2>7 DEF StakeInv
<1>5. ASSUME NEW p \in Providers, CancelUnstake(p) PROVE StakeInv'
  <2>1. TypeOK'
    BY <1>5, Zenon DEF StakeInv, CancelUnstake, TypeOK, StakeAccounts
  <2>2. StakeAccounted'
    BY <1>5 DEF StakeInv, CancelUnstake, TypeOK, StakeAccounts, StakeAccounted
  <2>3. PendingCovered'
    BY <1>5 DEF StakeInv, CancelUnstake, TypeOK, StakeAccounts, PendingCovered
  <2>4. QED
    BY <2>1, <2>2, <2>3, Zenon DEF StakeInv
<1>6. ASSUME NEW p \in Providers, WithdrawStake(p) PROVE StakeInv'
  BY <1>6, SMTT(20) DEF StakeInv, WithdrawStake, TypeOK, StakeAccounts, StakeAccounted, PendingCovered
<1>7. CASE Tick
  BY <1>7 DEF StakeInv, Tick, TypeOK, StakeAccounted, PendingCovered
<1>8. CASE UNCHANGED vars
  BY <1>8 DEF StakeInv, vars, TypeOK, StakeAccounted, PendingCovered
<1>9. QED
  BY <1>1, <1>2, <1>3, <1>4, <1>5, <1>6, <1>7, <1>8 DEF Next

\* For any number of providers, any amounts and any cooldown, the vault holds what the
\* account says, a provider's tokens are accounted for, and a pending withdrawal is covered.
THEOREM StakeInvariant == Spec => []StakeInv
<1>1. Init => StakeInv
  BY StakeAssumption
     DEF Init, BlankStake, StakeInv, TypeOK, StakeAccounts, StakeAccounted, PendingCovered
<1>2. QED
  BY <1>1, StakeStep, PTL DEF Spec

\* deposit_stake, withdraw_stake and slash_stake keep the vault equal to deposited, and the
\* provider's tokens equal to what is in its wallet, at stake or counted as slashed.
THEOREM StakeBacked == Spec => []StakeAccounted
<1>1. StakeInv => StakeAccounted
  BY DEF StakeInv
<1>2. QED
  BY <1>1, StakeInvariant, PTL

\* A pending withdrawal is covered by what was deposited at every moment since its request,
\* whatever slash_stake and later deposits do.
THEOREM StakePending == Spec => []PendingCovered
<1>1. StakeInv => PendingCovered
  BY DEF StakeInv
<1>2. QED
  BY <1>1, StakeInvariant, PTL

\* slash_stake pays the treasury what it adds to total_slashed, and no other instruction
\* touches either.
LEMMA CollectedStep == StakeInv /\ SlashesCollected /\ [Next]_vars => SlashesCollected'
<1> SUFFICES ASSUME StakeInv, SlashesCollected, [Next]_vars PROVE SlashesCollected'
  OBVIOUS
<1> DEFINE taken == [p \in Providers |-> stake[p].total_slashed]
<1>0. IsFiniteSet(Providers) /\ \A p \in Providers : taken[p] \in Nat
  BY StakeAssumption DEF StakeInv, TypeOK, StakeAccounts
<1>1. ASSUME treasury' = treasury,
             \A p \in Providers : stake'[p].total_slashed = stake[p].total_slashed
      PROVE  SlashesCollected'
  BY <1>1 DEF SlashesCollected
<1>2. ASSUME NEW p \in Providers, NEW amount \in Amounts, SlashStake(p, amount)
      PROVE  SlashesCollected'
  <2>1. /\ amount \in Nat /\ treasury' = treasury + amount
        /\ taken'[p] = taken[p] + amount
        /\ \A q \in Providers \ {p} : taken'[q] = taken[q]
    BY <1>2, StakeAssumption DEF SlashStake, Slashed, StakeInv, TypeOK, StakeAccounts
  <2>2. \A q \in Providers : taken'[q] \in Nat
    BY <1>0, <2>1
  <2> HIDE DEF taken
  <2>3. Total(taken', Providers) + taken[p] = Total(taken, Providers) + taken'[p]
    BY <1>0, <2>1, <2>2, TotalUpdate
  <2>4. Total(taken, Providers) \in Nat /\ Total(taken', Providers) \in Nat
    BY <1>0, <2>2, TotalType
  <2>5. Total(taken', Providers) = Total(taken, Providers) + amount
    BY <1>0, <2>1, <2>3, <2>4
  <2>6. QED
    BY <2>1, <2>5 DEF SlashesCollected, taken
<1>3. ASSUME NEW p \in Providers,
             \/ InitializeProviderStake(p) \/ CancelUnstake(p) \/ WithdrawStake(p)
             \/ \E amount \in Amounts : DepositStake(p, amount) \/ RequestUnstake(p, amount)
      PROVE  SlashesCollected'
  <2>0. stake \in [Providers -> StakeAccounts]
    BY DEF StakeInv, TypeOK
  <2>1. ASSUME InitializeProviderStake(p) PROVE SlashesCollected'
    BY <1>1, <2>0, <2>1 DEF InitializeProviderStake, StakeAccounts
  <2>2. ASSUME CancelUnstake(p) PROVE SlashesCollected'
    BY <1>1, <2>0, <2>2 DEF CancelUnstake, StakeAccounts
  <2>3. ASSUME WithdrawStake(p) PROVE SlashesCollected'
    BY <1>1, <2>0, <2>3 DEF WithdrawStake, StakeAccounts
  <2>4. ASSUME NEW amount \in Amounts, DepositStake(p, amount) PROVE SlashesCollected'
    BY <1>1, <2>0, <2>4 DEF DepositStake, StakeAccounts
  <2>5. ASSUME NEW amount \in Amounts, RequestUnstake(p, amount) PROVE SlashesCollected'
    BY <1>1, <2>0, <2>5 DEF RequestUnstake, StakeAccounts
  <2>6. QED
    BY <1>3, <2>1, <2>2, <2>3, <2>4, <2>5
<1>4. CASE Tick \/ UNCHANGED vars
  BY <1>1, <1>4 DEF Tick, vars
<1>5. QED
  BY <1>2, <1>3, <1>4 DEF Next

\* For any finite set of providers the treasury holds exactly what slash_stake took from all
\* of them together, and every stake account is sound.
THEOREM StakeIsSound == Spec => []StakeSound
<1>1. Init => SlashesCollected
  <2> SUFFICES ASSUME Init PROVE SlashesCollected
    OBVIOUS
  <2>1. \A p \in Providers : [q \in Providers |-> stake[q].total_slashed][p] = 0
    BY DEF Init, BlankStake
  <2>2. QED
    BY <2>1, StakeAssumption, TotalZero DEF Init, SlashesCollected
<1>2. StakeInv /\ SlashesCollected => StakeSound
  BY DEF StakeSound
<1>3. QED
  BY <1>1, <1>2, StakeInvariant, CollectedStep, PTL DEF Spec

\* withdraw_stake is the only way out for the provider, and pays only what was within the
\* resolver's reach for the whole cooldown.
THEOREM StakeAtRisk == Spec => ExitWasAtRisk
<1> DEFINE AtRisk == \A p \in Providers : wallet'[p] > wallet[p] =>
                        /\ now >= request[p].since + COOLDOWN
                        /\ wallet'[p] - wallet[p] <= request[p].least
<1>1. StakeInv /\ [Next]_vars => [AtRisk]_vars
  <2> SUFFICES ASSUME StakeInv, Next PROVE AtRisk
    OBVIOUS
  <2>0. Amounts \subseteq Nat /\ COOLDOWN \in Nat
    BY StakeAssumption
  <2> USE <2>0
  <2>1. ASSUME NEW p \in Providers, WithdrawStake(p) PROVE AtRisk
    BY <2>1 DEF StakeInv, WithdrawStake, TypeOK, StakeAccounts, PendingCovered
  <2>2. ASSUME NEW p \in Providers, NEW amount \in Amounts, DepositStake(p, amount) PROVE AtRisk
    BY <2>2 DEF StakeInv, DepositStake, TypeOK
  <2>3. CASE UNCHANGED wallet
    BY <2>3 DEF StakeInv, TypeOK
  <2>4. QED
    BY <2>1, <2>2, <2>3, Zenon DEF Next, InitializeProviderStake, RequestUnstake, SlashStake,
                            CancelUnstake, Tick
<1>2. QED
  BY <1>1, StakeInvariant, PTL DEF Spec, ExitWasAtRisk

=============================================================================
