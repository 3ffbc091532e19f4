--------------------------- MODULE SchedulerLease ---------------------------
(***************************************************************************)
(* Leadership among schedulers: SchedulerCoordinator in                    *)
(* apps/scheduler/src/coordinator.ts, its InsForge store, and the two SQL  *)
(* functions of migrations/20260911120000_v2-orchestration.sql.            *)
(*                                                                         *)
(* A coordinator awaits its calls, except that release may be called while *)
(* a renewal is awaited, as at the end of a process that renews by a       *)
(* timer.  The SQL function runs at some moment in between, and a call may *)
(* fail before it or after it.  Instead                                    *)
(* of expires_at the model keeps the time left, which Tick counts down:    *)
(* negative means expires_at < clock_timestamp().                          *)
(***************************************************************************)
EXTENDS Integers

CONSTANTS
    Schedulers,     \* owner ids, one per process: each process draws a new one
    Releasing,      \* the schedulers that call release
    None,           \* no owner: the row does not exist
    TTL,            \* ttlSeconds
    MaxToken        \* bound of the fencing token

ASSUME LeaseAssumption ==
    /\ Releasing \subseteq Schedulers /\ None \notin Schedulers
    /\ TTL \in Nat \ {0} /\ MaxToken \in Nat \ {0}

VARIABLES
    row,        \* the row of scheduler_leases for this lease
    current,    \* SchedulerCoordinator.current; token 0 is null
    call,       \* the claim each coordinator is waiting for
    leaving,    \* the token of the release it is waiting for, 0 for none
    alive       \* the schedulers whose process still runs

vars == <<row, current, call, leaving, alive>>

NoRecord == [token |-> 0, left |-> -1]
NoRow == [owner |-> None, token |-> 0, left |-> -1]
NoCall == [op |-> "none", done |-> FALSE, reply |-> NoRecord]

Init ==
    /\ row = NoRow
    /\ current = [c \in Schedulers |-> NoRecord]
    /\ call = [c \in Schedulers |-> NoCall]
    /\ leaving = [c \in Schedulers |-> 0]
    /\ alive = Schedulers

Idle(c) == c \in alive /\ call[c] = NoCall /\ leaving[c] = 0

Acquire(c) ==
    /\ Idle(c)
    /\ call' = [call EXCEPT ![c].op = "acquire"]
    /\ UNCHANGED <<row, current, leaving, alive>>

Renew(c) ==
    /\ Idle(c) /\ current[c] # NoRecord
    /\ call' = [call EXCEPT ![c].op = "renew"]
    /\ UNCHANGED <<row, current, leaving, alive>>

\* The record is dropped before the call; the call carries its token.
Release(c) ==
    /\ c \in alive \cap Releasing /\ call[c].op \in {"none", "renew"}
    /\ leaving[c] = 0 /\ current[c] # NoRecord
    /\ leaving' = [leaving EXCEPT ![c] = current[c].token]
    /\ current' = [current EXCEPT ![c] = NoRecord]
    /\ UNCHANGED <<row, call, alive>>

-----------------------------------------------------------------------------
(* The database.                                                           *)

Claimable(c) == row.owner \in {None, c} \/ row.left < 0

\* A new row starts at 1; a change of owner increments.
GrantedToken(c) ==
    CASE row.owner = None -> 1
      [] row.owner = c    -> row.token
      [] OTHER            -> row.token + 1

\* Mutant: a lease whose owner does not come back is never granted again.
claim_scheduler_lease_owned(c) ==
    /\ call[c].op \in {"acquire", "renew"} /\ ~call[c].done
    /\ \/ /\ row.owner \in {None, c} /\ GrantedToken(c) <= MaxToken
          /\ row' = [owner |-> c, token |-> GrantedToken(c), left |-> TTL]
          /\ call' = [call EXCEPT ![c].done = TRUE,
                                  ![c].reply = [token |-> GrantedToken(c), left |-> TTL]]
       \/ /\ row.owner \notin {None, c}
          /\ call' = [call EXCEPT ![c].done = TRUE]
          /\ UNCHANGED row
    /\ UNCHANGED <<current, leaving, alive>>

claim_scheduler_lease(c) ==
    /\ call[c].op \in {"acquire", "renew"} /\ ~call[c].done
    /\ \/ /\ Claimable(c) /\ GrantedToken(c) <= MaxToken
          /\ row' = [owner |-> c, token |-> GrantedToken(c), left |-> TTL]
          /\ call' = [call EXCEPT ![c].done = TRUE,
                                  ![c].reply = [token |-> GrantedToken(c), left |-> TTL]]
       \/ /\ ~Claimable(c)
          /\ call' = [call EXCEPT ![c].done = TRUE]
          /\ UNCHANGED row
    /\ UNCHANGED <<current, leaving, alive>>

\* Its answer changes nothing in the coordinator.
release_scheduler_lease(c) ==
    /\ leaving[c] > 0
    /\ row' = IF row.owner = c /\ row.token = leaving[c] THEN NoRow ELSE row
    /\ leaving' = [leaving EXCEPT ![c] = 0]
    /\ UNCHANGED <<current, call, alive>>

-----------------------------------------------------------------------------
(* The answer, a failure of the call, the end of a process, time.          *)

\* Mutant: renew takes the answer without looking at the record it has by then.
Answer_adopts(c) ==
    /\ c \in alive /\ call[c].done
    /\ current' = [current EXCEPT ![c] = call[c].reply]
    /\ call' = [call EXCEPT ![c] = NoCall]
    /\ UNCHANGED <<row, leaving, alive>>

\* renew gives up when the answer is null or carries another token; when a release has
\* dropped the record meanwhile the comparison throws, and there is still no record.
Answer(c) ==
    /\ c \in alive /\ call[c].done
    /\ current' = [current EXCEPT ![c] =
           IF call[c].op = "acquire" \/ call[c].reply.token = @.token
           THEN call[c].reply ELSE NoRecord]
    /\ call' = [call EXCEPT ![c] = NoCall]
    /\ UNCHANGED <<row, leaving, alive>>

\* A call throws, with or without its effect in the database; current stays as it is.
Fail(c) ==
    /\ c \in alive
    /\ \/ call[c] # NoCall /\ call' = [call EXCEPT ![c] = NoCall] /\ UNCHANGED leaving
       \/ leaving[c] > 0 /\ leaving' = [leaving EXCEPT ![c] = 0] /\ UNCHANGED call
    /\ UNCHANGED <<row, current, alive>>

\* A process ends, and with it what it remembered; somebody is left.
Stop(c) ==
    /\ c \in alive /\ alive # {c}
    /\ alive' = alive \ {c}
    /\ current' = [current EXCEPT ![c] = NoRecord]
    /\ call' = [call EXCEPT ![c] = NoCall]
    /\ leaving' = [leaving EXCEPT ![c] = 0]
    /\ UNCHANGED row

Elapse(left) == IF left < 0 THEN left ELSE left - 1

Tick ==
    /\ row' = [row EXCEPT !.left = Elapse(@)]
    /\ current' = [c \in Schedulers |-> [current[c] EXCEPT !.left = Elapse(@)]]
    /\ call' = [c \in Schedulers |-> [call[c] EXCEPT !.reply.left = Elapse(@)]]
    /\ UNCHANGED <<leaving, alive>>

Next ==
    \/ \E c \in Schedulers :
          \/ Acquire(c) \/ Renew(c) \/ Release(c)
          \/ claim_scheduler_lease(c) \/ release_scheduler_lease(c)
          \/ Answer(c) \/ Fail(c) \/ Stop(c)
    \/ Tick

Spec == Init /\ [][Next]_vars

\* Time passes, a running scheduler keeps asking, a call that reached the database ends, and
\* not every request is lost.
FairSpec ==
    /\ Spec /\ WF_vars(Tick)
    /\ \A c \in Schedulers :
          /\ WF_vars(Acquire(c)) /\ WF_vars(Answer(c)) /\ WF_vars(release_scheduler_lease(c))
          /\ SF_vars(claim_scheduler_lease(c))

-----------------------------------------------------------------------------
(* Properties.                                                             *)

Records == [token: 0..MaxToken, left: -1..TTL]
Calls == [op: {"none", "acquire", "renew"}, done: BOOLEAN, reply: Records]

\* The row, the coordinators' records and the calls in flight are well formed, and a row that
\* exists satisfies the CHECK on its token.
TypeOK ==
    /\ row.owner # None => row.token > 0
    /\ row \in [owner: Schedulers \cup {None}, token: 0..MaxToken, left: -1..TTL]
    /\ current \in [Schedulers -> Records]
    /\ call \in [Schedulers -> Calls]
    /\ leaving \in [Schedulers -> 0..MaxToken]
    /\ alive \subseteq Schedulers

Holds(c) == current[c].token > 0 /\ current[c].left >= 0

\* Until its record expires a coordinator is the only one with an unexpired record, through
\* lost answers, failed releases, renewals that are answered after a release, and schedulers
\* that take over.
LeaseExclusive == \A c, d \in Schedulers : Holds(c) /\ Holds(d) => c = d

\* The comment on SchedulerCoordinator: "Callers must persist the token with any decision so
\* a scheduler that lost its lease cannot overwrite a newer leader's work."  The token of a
\* record whose lease has gone to another scheduler is smaller than the token of that lease.
StaleLeaderFenced ==
    \A c \in Schedulers :
        current[c].token > 0 /\ row.owner \notin {None, c} => current[c].token < row.token

\* What makes the lease exclusive: an unexpired record, or an answer that would become one,
\* is backed by the row; a coordinator that is releasing has no record and awaits no acquire.
LeaseBacked ==
    \A c \in Schedulers :
        /\ Holds(c) => row.owner = c /\ row.left >= current[c].left
        /\ /\ call[c].done /\ call[c].reply.token > 0 /\ call[c].reply.left >= 0
           /\ call[c].op = "acquire" \/ current[c].token = call[c].reply.token
           => row.owner = c /\ row.left >= call[c].reply.left
        /\ leaving[c] > 0 => current[c] = NoRecord /\ call[c].op # "acquire"
        /\ ~call[c].done \/ call[c].reply.token = 0 => call[c].reply = NoRecord

\* What makes the tokens fence while no row is deleted: none is above the row's, and one that
\* is in the hands of another scheduler than the owner is below it.
TokensBehind ==
    /\ leaving = [c \in Schedulers |-> 0]
    /\ row.owner = None => row.token = 0
    /\ \A c \in Schedulers : \A t \in {current[c].token, call[c].reply.token} :
           t <= row.token /\ (t > 0 /\ row.owner # c => t < row.token)

\* A lease whose owner stopped does not stay with it.
LeaseRecovered ==
    \A c \in Schedulers :
        row.owner = c /\ c \notin alive /\ row.token < MaxToken ~> row.owner # c

=============================================================================
