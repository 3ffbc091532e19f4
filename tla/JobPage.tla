------------------------------- MODULE JobPage -------------------------------
(***************************************************************************)
(* A buyer at the web application (apps/web/components/exchange.tsx): the  *)
(* form that creates jobs, the list of jobs and the page of one job, with  *)
(* the API handlers behind them, the jobs on the chain and their projected *)
(* rows.                                                                   *)
(*                                                                         *)
(* left is the time until the limit that the job's state has on the chain. *)
(* A bid is one per job.  Nothing in API or page opens a dispute.          *)
(***************************************************************************)
EXTENDS Integers, Sequences, FiniteSets

CONSTANTS
  Job,            \* the ids the API may draw
  Replicas,       \* how many jobs one submission asks for
  Limit,          \* start deadline, runtime, verification and dispute window
  Answers,        \* bound: answers to refreshes under way
  None

VARIABLES
  job,            \* the jobs' accounts
  row,            \* their projected rows
  form,           \* the form for a new job
  page            \* the page of a job

vars == <<job, row, form, page>>

NoJob == [state |-> "ABSENT", settled |-> FALSE, bid |-> "none", left |-> 0]
NoRow == [state |-> "none", settled |-> FALSE, bid |-> "none"]
Closed == [id |-> None, shown |-> NoRow, busy |-> "no", answers |-> <<>>]

Init ==
  /\ job = [j \in Job |-> NoJob]
  /\ row = [j \in Job |-> NoRow]
  /\ form = [at |-> "edit", plan |-> <<>>, signed |-> 0]
  /\ page = Closed
-----------------------------------------------------------------------------
(* execute("submit") in NewJob, and createRedundantJobAndSign *)

\* POST /v1/jobs or /v1/jobs/redundant answers one transaction per job.
Submit ==
  /\ form.at = "edit" /\ page.busy = "no"
  /\ \E plan \in [1..Replicas -> {j \in Job : job[j] = NoJob}] :
       /\ \A a, b \in 1..Replicas : plan[a] = plan[b] => a = b
       /\ form' = [at |-> "sign", plan |-> plan, signed |-> 0]
  /\ page' = Closed
  /\ UNCHANGED <<job, row>>

\* The next transaction is signed, sent and confirmed.
Signed ==
  /\ form.at = "sign" /\ form.signed < Replicas
  /\ form' = [form EXCEPT !.signed = @ + 1]
  /\ job' = [job EXCEPT ![form.plan[form.signed + 1]] = [NoJob EXCEPT !.state = "OPEN", !.left = Limit]]
  /\ UNCHANGED <<row, page>>

\* The wallet declines, the transaction fails, or its confirmation is lost
\* although it succeeded: the others are not signed.
SignFails ==
  /\ form.at = "sign" /\ form.signed < Replicas
  /\ form' = [form EXCEPT !.at = "edit"]
  /\ \/ job' = [job EXCEPT ![form.plan[form.signed + 1]] = [NoJob EXCEPT !.state = "OPEN", !.left = Limit]]
     \/ UNCHANGED job
  /\ UNCHANGED <<row, page>>

\* The notice says how many replicas are funded; the first one's page opens.
Funded ==
  /\ form.at = "sign" /\ form.signed = Replicas
  /\ form' = [form EXCEPT !.at = "funded"]
  /\ page' = [Closed EXCEPT !.id = form.plan[1]]
  /\ UNCHANGED <<job, row>>
-----------------------------------------------------------------------------
(* Jobs and JobDetail *)

\* GET /v1/jobs lists the rows of the buyer.
Listed(j) == row[j] # NoRow

Open(j) ==
  /\ form.at # "sign" /\ page.busy = "no" /\ page.id # j
  /\ Listed(j)
  /\ page' = [Closed EXCEPT !.id = j]
  /\ form' = [form EXCEPT !.at = "edit"]
  /\ UNCHANGED <<job, row>>

\* refresh: every five seconds, also while earlier answers are under way.
Refresh ==
  /\ page.id # None /\ Len(page.answers) < Answers
  /\ page' = [page EXCEPT !.answers = Append(@, row[page.id])]
  /\ UNCHANGED <<job, row, form>>

\* The answers arrive in any order; a 404 shows an error beside what is shown.
Answer(i) ==
  /\ i \in 1..Len(page.answers)
  /\ page' = [page EXCEPT !.shown = IF page.answers[i] = NoRow THEN @ ELSE page.answers[i],
                          !.answers = SubSeq(@, 1, i - 1) \o SubSeq(@, i + 1, Len(@))]
  /\ UNCHANGED <<job, row, form>>

\* A wrong form of Offered: a job that expired has no button.
Offered_unexpired(a) ==
  LET s == page.shown.state IN
  \/ a = "cancel" /\ s \in {"CREATED", "OPEN"}
  \/ a = "expire" /\ s \in {"OPEN", "ASSIGNED", "RUNNING", "VERIFYING"}
  \/ a = "settle" /\ s = "COMPLETED" /\ ~page.shown.settled
  \/ a = "refund" /\ s \in {"CANCELLED", "FAILED"} /\ ~page.shown.settled
  \/ a = "accept-bid" /\ s = "OPEN" /\ page.shown.bid = "active"

\* The buttons, by the state that is shown.
Offered(a) ==
  LET s == page.shown.state IN
  \/ a = "cancel" /\ s \in {"CREATED", "OPEN"}
  \/ a = "expire" /\ s \in {"OPEN", "ASSIGNED", "RUNNING", "VERIFYING"}
  \/ a = "settle" /\ s = "COMPLETED" /\ ~page.shown.settled
  \/ a = "refund" /\ s \in {"CANCELLED", "EXPIRED", "FAILED"} /\ ~page.shown.settled
  \/ a = "accept-bid" /\ s = "OPEN" /\ page.shown.bid = "active"

Action == {"cancel", "expire", "settle", "refund", "accept-bid"}

\* The handlers build a transaction for a job that has a row, whatever its state.
Built(j) == row[j] # NoRow

\* act: the handler of the button is called.
Press(j, a) ==
  /\ page.id = j /\ page.busy = "no" /\ Offered(a) /\ Built(j)
  /\ page' = [page EXCEPT !.busy = a]
  /\ UNCHANGED <<job, row, form>>

\* What the instruction asks of the job.
Admitted(j, a) ==
  LET r == job[j] IN
  CASE a = "cancel" -> r.state = "OPEN"
    [] a = "expire" -> r.state \in {"OPEN", "ASSIGNED", "RUNNING", "VERIFYING"} /\ r.left < 0
    [] a = "settle" -> r.state = "COMPLETED" /\ ~r.settled /\ r.left <= 0
    [] a = "refund" -> r.state \in {"CANCELLED", "EXPIRED", "FAILED"} /\ ~r.settled
    [] a = "accept-bid" -> r.state = "OPEN" /\ r.bid = "active" /\ r.left > 0

Effect(r, a) ==
  CASE a = "cancel" -> [r EXCEPT !.state = "CANCELLED"]
    [] a = "expire" -> [r EXCEPT !.state = "EXPIRED"]
    [] a = "settle" -> [r EXCEPT !.settled = TRUE]
    [] a = "refund" -> [r EXCEPT !.state = "REFUNDED", !.settled = TRUE]
    [] a = "accept-bid" -> [r EXCEPT !.state = "ASSIGNED"]

\* signTransaction: the wallet signs, and the transaction succeeds.
Confirm(j, a) ==
  /\ page.id = j /\ page.busy = a /\ Admitted(j, a)
  /\ job' = [job EXCEPT ![j] = Effect(@, a)]
  /\ page' = [page EXCEPT !.busy = "no"]
  /\ UNCHANGED <<row, form>>

\* It is declined, refused, never lands or fails: the page shows the error.
ActFails ==
  /\ page.busy # "no"
  /\ page' = [page EXCEPT !.busy = "no"]
  /\ UNCHANGED <<job, row, form>>
-----------------------------------------------------------------------------
(* Providers, time and the indexer *)

Bid(j) ==
  /\ job[j].state = "OPEN" /\ job[j].left > 0
  /\ \E b \in {"active", "over"} : job[j].bid # b /\ job[j].bid # "over" /\ job' = [job EXCEPT ![j].bid = b]
  /\ UNCHANGED <<row, form, page>>

\* start_job, submit_receipt and submit_verification, each within its limit.
Work(j) ==
  /\ \E s \in {<<"ASSIGNED", "RUNNING">>, <<"RUNNING", "VERIFYING">>,
               <<"VERIFYING", "COMPLETED">>, <<"VERIFYING", "FAILED">>} :
       job[j].state = s[1] /\ job' = [job EXCEPT ![j].state = s[2], ![j].left = Limit]
  /\ job[j].left >= 0
  /\ UNCHANGED <<row, form, page>>

Tick ==
  /\ job' = [j \in Job |-> [job[j] EXCEPT !.left = IF @ < 0 \/ job[j] = NoJob THEN @ ELSE @ - 1]]
  /\ UNCHANGED <<row, form, page>>

Index(j) ==
  /\ job[j] # NoJob
  /\ row' = [row EXCEPT ![j] = [state |-> job[j].state, settled |-> job[j].settled, bid |-> job[j].bid]]
  /\ UNCHANGED <<job, form, page>>

Next ==
  \/ Submit \/ Signed \/ SignFails \/ Funded \/ Refresh \/ ActFails \/ Tick
  \/ \E i \in 1..Answers : Answer(i)
  \/ \E j \in Job : Open(j) \/ Bid(j) \/ Work(j) \/ Index(j)
  \/ \E j \in Job, a \in Action : Press(j, a) \/ Confirm(j, a)

\* Submissions alone, one after the other.
FormNext == Submit \/ Signed \/ SignFails \/ Funded \/ \E j \in Job : Open(j) \/ Index(j)

Spec == Init /\ [][Next]_vars
-----------------------------------------------------------------------------
(* Properties *)

\* The variables have the values the code gives them, a row or an answer shows
\* only jobs that are on the chain, and a plan draws no job twice.
TypeOK ==
  /\ \A j \in Job : row[j] # NoRow => job[j] # NoJob
  /\ form.at \in {"edit", "sign", "funded"} /\ form.signed \in 0..Replicas
  /\ \A a, b \in DOMAIN form.plan : form.plan[a] = form.plan[b] => a = b
  /\ page.id \in Job \cup {None} /\ page.busy \in {"no"} \cup Action
  /\ page.id = None => page.shown = NoRow /\ page.answers = <<>>
  /\ page.shown # NoRow => row[page.id] # NoRow

\* "Redundant job funded across n independent replicas" is only said when each
\* of them has been funded, although one confirmation after the other is
\* awaited and any of them can fail (exchange.tsx:929-934).
FundedReported ==
  form.at = "funded" => \A i \in 1..Replicas : job[form.plan[i]] # NoJob

\* The deposit of a job is still in escrow.
Held(j) == job[j] # NoJob /\ ~job[j].settled
==============================================================================
