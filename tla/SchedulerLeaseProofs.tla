------------------------ MODULE SchedulerLeaseProofs ------------------------
(***************************************************************************)
(* At most one coordinator holds an unexpired record of the lease, for     *)
(* every number of schedulers, every TTL and every order of claims,        *)
(* renewals, releases and failures; and, when nobody releases, a record    *)
(* whose lease has gone to another scheduler has the smaller token.        *)
(***************************************************************************)
EXTENDS SchedulerLease, TLAPS

\* At the start there is no row, no record and no call.
LEMMA InitTypes == Init => TypeOK
  BY LeaseAssumption
  DEF LeaseAssumption, Init, TypeOK, NoRow, NoRecord, NoCall, Records, Calls

\* A claim grants a token that is positive and within the bound.
LEMMA GrantedPositive ==
  ASSUME TypeOK, NEW c \in Schedulers
  PROVE  GrantedToken(c) \in Nat \ {0}
  BY LeaseAssumption DEF LeaseAssumption, TypeOK, GrantedToken

\* Time left stays in its range when a second passes.
LEMMA ElapseType == \A left \in -1..TTL : Elapse(left) \in -1..TTL
  BY LeaseAssumption DEF LeaseAssumption, Elapse

\* What a coordinator without a record or a call has is well formed.
LEMMA NothingTypes == NoRecord \in Records /\ NoCall \in Calls
  BY LeaseAssumption DEF LeaseAssumption, NoRecord, NoCall, Records, Calls

\* What the steps do to a call, and the parts of a call.
LEMMA CallTypes ==
  ASSUME NEW x \in Calls
  PROVE  /\ [x EXCEPT !.done = TRUE] \in Calls /\ x.reply \in Records
         /\ \A op \in {"acquire", "renew"} : [x EXCEPT !.op = op] \in Calls
         /\ \A r \in Records : [x EXCEPT !.done = TRUE, !.reply = r] \in Calls
  BY Zenon DEF Calls

\* Every step keeps the types.
LEMMA StepTypes == TypeOK /\ [Next]_vars => TypeOK'
<1> SUFFICES ASSUME TypeOK, [Next]_vars PROVE TypeOK'
  OBVIOUS
<1> USE LeaseAssumption DEF LeaseAssumption
<1>1. ASSUME NEW c \in Schedulers, Acquire(c) PROVE TypeOK'
  <2>1. [call[c] EXCEPT !.op = "acquire"] \in Calls
    BY CallTypes, Zenon DEF TypeOK
  <2> QED
    BY <1>1, <2>1 DEF Acquire, TypeOK
<1>2. ASSUME NEW c \in Schedulers, Renew(c) PROVE TypeOK'
  <2>1. [call[c] EXCEPT !.op = "renew"] \in Calls
    BY CallTypes, Zenon DEF TypeOK
  <2> QED
    BY <1>2, <2>1 DEF Renew, TypeOK
<1>3. ASSUME NEW c \in Schedulers, Release(c) PROVE TypeOK'
  BY <1>3 DEF Release, TypeOK, Records, Calls, NoRecord
<1>4. ASSUME NEW c \in Schedulers, claim_scheduler_lease(c) PROVE TypeOK'
  <2>1. GrantedToken(c) \in Nat \ {0}
    BY GrantedPositive
  <2>2. CASE /\ GrantedToken(c) <= MaxToken
             /\ row' = [owner |-> c, token |-> GrantedToken(c), left |-> TTL]
             /\ call' = [call EXCEPT ![c].done = TRUE,
                                     ![c].reply = [token |-> GrantedToken(c), left |-> TTL]]
    <3>1. GrantedToken(c) \in 0..MaxToken /\ GrantedToken(c) > 0 /\ TTL \in -1..TTL
      BY <2>1, <2>2
    <3>2. [token |-> GrantedToken(c), left |-> TTL] \in Records
      BY <3>1 DEF Records
    <3>3. call' \in [Schedulers -> Calls]
      <4>1. [call[c] EXCEPT !.done = TRUE, !.reply = [token |-> GrantedToken(c), left |-> TTL]]
              \in Calls
        BY <3>2, CallTypes, Zenon DEF TypeOK
      <4> QED
        BY <2>2, <4>1 DEF TypeOK
    <3>4. row' \in [owner: Schedulers \cup {None}, token: 0..MaxToken, left: -1..TTL]
          /\ row'.token > 0
      BY <2>2, <3>1
    <3> QED
      BY <1>4, <3>3, <3>4 DEF claim_scheduler_lease, TypeOK
  <2>3. CASE call' = [call EXCEPT ![c].done = TRUE] /\ UNCHANGED row
    <3>1. [call[c] EXCEPT !.done = TRUE] \in Calls
      BY CallTypes, Zenon DEF TypeOK
    <3>2. call' \in [Schedulers -> Calls]
      BY <2>3, <3>1 DEF TypeOK
    <3> QED
      BY <1>4, <2>3, <3>2 DEF claim_scheduler_lease, TypeOK
  <2> QED
    BY <1>4, <2>2, <2>3, Zenon DEF claim_scheduler_lease
<1>5. ASSUME NEW c \in Schedulers, release_scheduler_lease(c) PROVE TypeOK'
  BY <1>5 DEF release_scheduler_lease, TypeOK, Records, Calls, NoRow
<1>6. ASSUME NEW c \in Schedulers, Answer(c) PROVE TypeOK'
  <2>1. call[c].reply \in Records
    BY CallTypes, Zenon DEF TypeOK
  <2>2. current' \in [Schedulers -> Records]
    BY <1>6, <2>1, NothingTypes DEF Answer, TypeOK
  <2>3. call' \in [Schedulers -> Calls]
    BY <1>6, NothingTypes DEF Answer, TypeOK
  <2> QED
    BY <1>6, <2>2, <2>3 DEF Answer, TypeOK
<1>7. ASSUME NEW c \in Schedulers, Fail(c) PROVE TypeOK'
  BY <1>7, NothingTypes DEF Fail, TypeOK
<1>8. ASSUME NEW c \in Schedulers, Stop(c) PROVE TypeOK'
  BY <1>8, NothingTypes DEF Stop, TypeOK
<1>9. CASE Tick
  <2>1. row'.owner = row.owner /\ row'.token = row.token
        /\ row' \in [owner: Schedulers \cup {None}, token: 0..MaxToken, left: -1..TTL]
    BY <1>9, ElapseType DEF Tick, TypeOK
  <2>2. current' \in [Schedulers -> Records]
    <3>1. ASSUME NEW x \in Records PROVE [x EXCEPT !.left = Elapse(@)] \in Records
      BY ElapseType DEF Records
    <3>2. \A c \in Schedulers : current[c] \in Records
      BY DEF TypeOK
    <3> QED
      BY <1>9, <3>1, <3>2, Zenon DEF Tick
  <2>3. call' \in [Schedulers -> Calls]
    <3>1. ASSUME NEW x \in Calls PROVE [x EXCEPT !.reply.left = Elapse(@)] \in Calls
      BY ElapseType DEF Calls, Records
    <3>2. \A c \in Schedulers : call[c] \in Calls
      BY DEF TypeOK
    <3> QED
      BY <1>9, <3>1, <3>2 DEF Tick
  <2> QED
    BY <1>9, <2>1, <2>2, <2>3 DEF Tick, TypeOK
<1>10. CASE UNCHANGED vars
  BY <1>10 DEF vars, TypeOK
<1> QED
  BY <1>1, <1>2, <1>3, <1>4, <1>5, <1>6, <1>7, <1>8, <1>9, <1>10 DEF Next

\* Every step keeps records and answers backed by the row.
LEMMA StepBacked == TypeOK /\ LeaseBacked /\ [Next]_vars => LeaseBacked'
<1> SUFFICES ASSUME TypeOK, LeaseBacked, [Next]_vars PROVE LeaseBacked'
  OBVIOUS
<1> USE LeaseAssumption DEF LeaseAssumption
<1>1. ASSUME NEW c \in Schedulers, Acquire(c) PROVE LeaseBacked'
  BY <1>1 DEF Acquire, Idle, LeaseBacked, Holds, NoCall, NoRecord, TypeOK, Calls, Records
<1>2. ASSUME NEW c \in Schedulers, Renew(c) PROVE LeaseBacked'
  BY <1>2 DEF Renew, Idle, LeaseBacked, Holds, NoCall, NoRecord, TypeOK, Calls, Records
<1>3. ASSUME NEW c \in Schedulers, Release(c) PROVE LeaseBacked'
  BY <1>3 DEF Release, LeaseBacked, Holds, NoRecord, TypeOK, Calls, Records
<1>4. ASSUME NEW c \in Schedulers, claim_scheduler_lease(c) PROVE LeaseBacked'
  <2>1. CASE /\ Claimable(c)
             /\ row' = [owner |-> c, token |-> GrantedToken(c), left |-> TTL]
             /\ call' = [call EXCEPT ![c].done = TRUE,
                                     ![c].reply = [token |-> GrantedToken(c), left |-> TTL]]
    <3>1. ASSUME NEW d \in Schedulers, d # c, Holds(d) PROVE FALSE
      BY <2>1, <3>1 DEF LeaseBacked, Holds, Claimable, TypeOK, Records
    <3>2. ASSUME NEW d \in Schedulers, d # c, call[d].done, call[d].reply.token > 0,
                 call[d].reply.left >= 0,
                 call[d].op = "acquire" \/ current[d].token = call[d].reply.token
          PROVE  FALSE
      BY <2>1, <3>2 DEF LeaseBacked, Claimable, TypeOK, Calls, Records
    <3>3. \A d \in Schedulers : current[d].left <= TTL
      BY DEF TypeOK, Records
    <3> QED
      BY <1>4, <2>1, <3>1, <3>2, <3>3, GrantedPositive
      DEF claim_scheduler_lease, LeaseBacked, Holds, TypeOK, Calls, Records
  <2>2. CASE call' = [call EXCEPT ![c].done = TRUE] /\ UNCHANGED row
    BY <1>4, <2>2 DEF claim_scheduler_lease, LeaseBacked, Holds, NoRecord, TypeOK, Calls, Records
  <2> QED
    BY <1>4, <2>1, <2>2, Zenon DEF claim_scheduler_lease
<1>5. ASSUME NEW c \in Schedulers, release_scheduler_lease(c) PROVE LeaseBacked'
  BY <1>5 DEF release_scheduler_lease, LeaseBacked, Holds, NoRow, NoRecord, TypeOK, Calls, Records
<1>6. ASSUME NEW c \in Schedulers, Answer(c) PROVE LeaseBacked'
  <2> SUFFICES ASSUME NEW d \in Schedulers PROVE LeaseBacked!(d)'
    BY DEF LeaseBacked
  <2>1. CASE d # c
    BY <1>6, <2>1 DEF Answer, LeaseBacked, Holds, TypeOK
  <2>2. CASE d = c
    <3>1. call'[c] = NoCall /\ row' = row /\ leaving' = leaving
          /\ current'[c] = IF call[c].op = "acquire" \/ call[c].reply.token = current[c].token
                            THEN call[c].reply ELSE NoRecord
      BY <1>6 DEF Answer, TypeOK
    <3> QED
      BY <1>6, <2>2, <3>1 DEF Answer, LeaseBacked, Holds, NoRecord, NoCall, TypeOK, Calls, Records
  <2> QED
    BY <2>1, <2>2
<1>7. ASSUME NEW c \in Schedulers, Fail(c) PROVE LeaseBacked'
  <2> SUFFICES ASSUME NEW d \in Schedulers PROVE LeaseBacked!(d)'
    BY DEF LeaseBacked
  <2>1. CASE d # c
    BY <1>7, <2>1 DEF Fail, LeaseBacked, Holds, TypeOK
  <2>2. CASE d = c
    BY <1>7, <2>2 DEF Fail, LeaseBacked, Holds, NoRecord, NoCall, TypeOK
  <2> QED
    BY <2>1, <2>2
<1>8. ASSUME NEW c \in Schedulers, Stop(c) PROVE LeaseBacked'
  <2> SUFFICES ASSUME NEW d \in Schedulers PROVE LeaseBacked!(d)'
    BY DEF LeaseBacked
  <2>1. CASE d # c
    BY <1>8, <2>1 DEF Stop, LeaseBacked, Holds, TypeOK
  <2>2. CASE d = c
    BY <1>8, <2>2 DEF Stop, LeaseBacked, Holds, NoRecord, NoCall, TypeOK
  <2> QED
    BY <2>1, <2>2
<1>9. CASE Tick
  <2> SUFFICES ASSUME NEW d \in Schedulers PROVE LeaseBacked!(d)'
    BY DEF LeaseBacked
  <2>1. /\ row'.owner = row.owner /\ row'.left = Elapse(row.left)
        /\ row.left \in -1..TTL /\ leaving' = leaving
    BY <1>9 DEF Tick, TypeOK
  <2>2. /\ current'[d] = [current[d] EXCEPT !.left = Elapse(@)]
        /\ current[d] \in Records
    BY <1>9 DEF Tick, TypeOK
  <2>3. /\ call'[d] = [call[d] EXCEPT !.reply.left = Elapse(@)]
        /\ call[d] \in Calls
    BY <1>9 DEF Tick, TypeOK
  <2>4. /\ current'[d].token = current[d].token /\ current'[d].left = Elapse(current[d].left)
        /\ current[d].left \in -1..TTL /\ current[d].token \in Nat
        /\ current[d] = NoRecord => current'[d] = NoRecord
    BY <2>2 DEF Records, NoRecord, Elapse
  <2>5. /\ call'[d].done = call[d].done /\ call'[d].op = call[d].op
        /\ call'[d].reply = [call[d].reply EXCEPT !.left = Elapse(@)]
        /\ call[d].reply \in Records
    BY <2>3 DEF Calls
  <2>6. /\ call'[d].reply.token = call[d].reply.token
        /\ call'[d].reply.left = Elapse(call[d].reply.left)
        /\ call[d].reply.left \in -1..TTL /\ call[d].reply.token \in Nat
        /\ call[d].reply = NoRecord => call'[d].reply = NoRecord
    BY <2>5 DEF Records, NoRecord, Elapse
  <2> QED
    BY <2>1, <2>4, <2>5, <2>6 DEF LeaseBacked, Holds, Elapse
<1>10. CASE UNCHANGED vars
  BY <1>10 DEF vars, LeaseBacked, Holds
<1> QED
  BY <1>1, <1>2, <1>3, <1>4, <1>5, <1>6, <1>7, <1>8, <1>9, <1>10 DEF Next

\* The lease is exclusive: of all coordinators at most one has a record that has not expired,
\* also when a renewal is answered after release has dropped the record.
THEOREM Exclusion == Spec => [](TypeOK /\ LeaseExclusive)
<1>1. Init => TypeOK /\ LeaseBacked
  BY InitTypes DEF Init, LeaseBacked, Holds, NoRecord, NoCall
<1>2. TypeOK /\ LeaseBacked /\ [Next]_vars => TypeOK' /\ LeaseBacked'
  BY StepTypes, StepBacked
<1>3. LeaseBacked => LeaseExclusive
  BY DEF LeaseBacked, LeaseExclusive
<1> QED
  BY <1>1, <1>2, <1>3, PTL DEF Spec

\* Without releases no step lets a token catch up with the row's.
LEMMA StepBehind ==
  ASSUME Releasing = {}, TypeOK, TokensBehind, [Next]_vars
  PROVE  TokensBehind'
<1> USE LeaseAssumption DEF LeaseAssumption
<1>1. ASSUME NEW c \in Schedulers, Acquire(c) PROVE TokensBehind'
  BY <1>1 DEF Acquire, Idle, TokensBehind, TypeOK, Calls, Records
<1>2. ASSUME NEW c \in Schedulers, Renew(c) PROVE TokensBehind'
  BY <1>2 DEF Renew, Idle, TokensBehind, TypeOK, Calls, Records
<1>3. ASSUME NEW c \in Schedulers, Release(c) PROVE TokensBehind'
  BY <1>3 DEF Release
<1>4. ASSUME NEW c \in Schedulers, claim_scheduler_lease(c) PROVE TokensBehind'
  <2>1. CASE /\ row' = [owner |-> c, token |-> GrantedToken(c), left |-> TTL]
             /\ call' = [call EXCEPT ![c].done = TRUE,
                                     ![c].reply = [token |-> GrantedToken(c), left |-> TTL]]
    <3>1. row.token \in Nat /\ GrantedToken(c) \in Nat /\ row.token <= GrantedToken(c)
          /\ (row.owner # c => row.token < GrantedToken(c))
      BY DEF GrantedToken, TokensBehind, TypeOK
    <3>2. ASSUME NEW d \in Schedulers
          PROVE  current[d].token \in Nat /\ call[d].reply.token \in Nat
      BY DEF TypeOK, Calls, Records
    <3>3. ASSUME NEW d \in Schedulers, d # c PROVE call'[d] = call[d]
      BY <2>1, <3>3 DEF TypeOK
    <3>4. call'[c].reply.token = GrantedToken(c)
      BY <2>1 DEF TypeOK, Calls
    <3>5. row'.token = GrantedToken(c) /\ row'.owner = c /\ current' = current
          /\ leaving' = leaving
      BY <1>4, <2>1 DEF claim_scheduler_lease
    <3> QED
      BY <3>1, <3>2, <3>3, <3>4, <3>5 DEF TokensBehind
  <2>2. CASE call' = [call EXCEPT ![c].done = TRUE] /\ UNCHANGED row
    BY <1>4, <2>2 DEF claim_scheduler_lease, TokensBehind, TypeOK, Calls, Records
  <2> QED
    BY <1>4, <2>1, <2>2, Zenon DEF claim_scheduler_lease
<1>5. ASSUME NEW c \in Schedulers, release_scheduler_lease(c) PROVE TokensBehind'
  BY <1>5 DEF release_scheduler_lease, TokensBehind
<1>6. ASSUME NEW c \in Schedulers, Answer(c) PROVE TokensBehind'
  BY <1>6 DEF Answer, TokensBehind, NoRecord, NoCall, TypeOK, Calls, Records
<1>7. ASSUME NEW c \in Schedulers, Fail(c) PROVE TokensBehind'
  <2>1. call' = [call EXCEPT ![c] = NoCall] /\ UNCHANGED <<row, current, leaving>>
    BY <1>7 DEF Fail, TokensBehind
  <2> QED
    BY <2>1 DEF TokensBehind, NoRecord, NoCall, TypeOK, Calls, Records
<1>8. ASSUME NEW c \in Schedulers, Stop(c) PROVE TokensBehind'
  BY <1>8 DEF Stop, TokensBehind, NoRecord, NoCall, TypeOK, Calls, Records
<1>9. CASE Tick
  <2>1. row'.owner = row.owner /\ row'.token = row.token /\ leaving' = leaving
    BY <1>9 DEF Tick, TypeOK
  <2>2. ASSUME NEW d \in Schedulers
        PROVE  current'[d].token = current[d].token /\ call'[d].reply.token = call[d].reply.token
    BY <1>9 DEF Tick, TypeOK, Calls, Records
  <2> QED
    BY <2>1, <2>2 DEF TokensBehind
<1>10. CASE UNCHANGED vars
  BY <1>10 DEF vars, TokensBehind
<1> QED
  BY <1>1, <1>2, <1>3, <1>4, <1>5, <1>6, <1>7, <1>8, <1>9, <1>10 DEF Next

\* "a scheduler that lost its lease cannot overwrite a newer leader's work": as long as nobody
\* releases a lease, and so no row is deleted, the tokens keep that promise.
THEOREM FencedUnlessReleased ==
  ASSUME Releasing = {}
  PROVE  Spec => []StaleLeaderFenced
<1>1. Init => TypeOK /\ TokensBehind
  BY InitTypes DEF Init, TokensBehind, NoRow, NoRecord, NoCall
<1>2. TypeOK /\ TokensBehind /\ [Next]_vars => TypeOK' /\ TokensBehind'
  BY StepTypes, StepBehind
<1>3. TokensBehind => StaleLeaderFenced
  BY DEF TokensBehind, StaleLeaderFenced
<1> QED
  BY <1>1, <1>2, <1>3, PTL DEF Spec
=============================================================================
