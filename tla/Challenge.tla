----------------------------- MODULE Challenge ------------------------------
(***************************************************************************)
(* The hidden challenge of one VERIFYING job (packages/verification/       *)
(* challenge.ts): the API issues it and issues it again after it expired,  *)
(* the node solves it, the API judges the answer, the verifier reads the   *)
(* verdict. There is one row per job. A call is a process of the node      *)
(* together with the API's handlers of its two requests; between two       *)
(* awaits of a handler anything can happen to the row. The receipt is      *)
(* uploaded before the first call.                                         *)
(***************************************************************************)
EXTENDS Integers, FiniteSets

CONSTANTS
  Call,       \* concurrent runs of completeChallenge
  Ttl,        \* ttlSeconds
  Early,      \* how long before issuance an answer may claim to be started
  Grace,      \* how long after expiry an answer is still judged
  Skew,       \* bound: the node's clock differs from the API's by at most this
  MaxTime     \* bound

VARIABLES
  now,        \* the API's clock
  skew,       \* what the node's clock is ahead
  row,        \* the row in verification_challenges
  issued,     \* how many challenges were issued; the last one's id
  call,       \* the calls
  inTime,     \* a right answer has arrived in time, by the API's clock
  missed,     \* a wrong answer or a late one has arrived
  verdict     \* the verifier's decision

vars == <<now, skew, row, issued, call, inTime, missed, verdict>>

NoRow == [id |-> 0, issuedAt |-> 0, expiresAt |-> 0, passed |-> "null"]
Quiet == [at |-> "idle", challenge |-> NoRow, startedAt |-> 0, finishedAt |-> 0, correct |-> FALSE]

Init ==
  /\ now = 0 /\ skew \in (0 - Skew)..Skew
  /\ row = NoRow /\ issued = 0
  /\ call = [c \in Call |-> Quiet]
  /\ inTime = FALSE /\ missed = FALSE /\ verdict = "null"
-------------------------------------------------------------------------------
(* POST /v1/provider/jobs/:id/challenge *)

\* The row has a challenge that has not expired.
Current == row.id # 0 /\ row.expiresAt > now

\* The job is awaiting a challenge: the row's, or a new one.
Request(c) ==
  /\ call[c].at = "idle" /\ verdict = "null"
  /\ call' = [call EXCEPT ![c] = IF Current THEN [Quiet EXCEPT !.at = "solve", !.challenge = row]
                                            ELSE [Quiet EXCEPT !.at = "issue"]]
  /\ UNCHANGED <<now, skew, row, issued, inTime, missed, verdict>>

\* issueChallenge.
issueChallenge(id) == [id |-> id, issuedAt |-> now, expiresAt |-> now + Ttl, passed |-> "null"]

\* The new challenge replaces whatever the row holds.
Issue(c) ==
  /\ call[c].at = "issue"
  /\ issued' = issued + 1
  /\ row' = issueChallenge(issued')
  /\ call' = [call EXCEPT ![c] = [@ EXCEPT !.at = "solve", !.challenge = row']]
  /\ UNCHANGED <<now, skew, inTime, missed, verdict>>
-------------------------------------------------------------------------------
(* completeChallenge in cli.ts *)

Solve(c) ==
  /\ call[c].at = "solve"
  /\ call' = [call EXCEPT ![c] = [@ EXCEPT !.at = "solving", !.startedAt = now + skew]]
  /\ UNCHANGED <<now, skew, row, issued, inTime, missed, verdict>>

\* The worker computes the expected result, or another one.
Solved(c) ==
  /\ call[c].at = "solving"
  /\ \E correct \in BOOLEAN :
       call' = [call EXCEPT ![c] =
                  [@ EXCEPT !.at = "sent", !.finishedAt = now + skew, !.correct = correct]]
  /\ UNCHANGED <<now, skew, row, issued, inTime, missed, verdict>>
-------------------------------------------------------------------------------
(* POST /v1/provider/jobs/:id/challenge-response *)

\* A wrong form of verifyChallenge: the answer's own times are believed.
verifyChallenge_signed(challenge, response) ==
  /\ response.challenge.id = challenge.id /\ response.correct
  /\ response.startedAt >= challenge.issuedAt - Early
  /\ response.finishedAt >= response.startedAt
  /\ response.finishedAt <= challenge.expiresAt

\* Signature, identities and commitments are the worker's own and in order.
verifyChallenge(challenge, response) ==
  /\ response.challenge.id = challenge.id
  /\ response.correct
  /\ response.startedAt >= challenge.issuedAt - Early
  /\ response.finishedAt >= response.startedAt
  /\ response.finishedAt <= challenge.expiresAt
  /\ response.finishedAt - response.startedAt <= Ttl
  /\ now <= challenge.expiresAt + Grace

\* The row is read; a verdict is repeated, an open challenge judged.
Respond(c) ==
  /\ call[c].at = "sent"
  /\ LET ch == call[c].challenge IN
     /\ inTime' = (inTime \/ (call[c].correct /\ now <= ch.expiresAt + Grace))
     /\ missed' = (missed \/ ~call[c].correct \/ now > ch.expiresAt - Skew)
  /\ call' = [call EXCEPT ![c] =
                IF row.passed # "null" THEN Quiet
                ELSE [@ EXCEPT !.at = IF verifyChallenge(row, call[c]) THEN "pass" ELSE "fail"]]
  /\ UNCHANGED <<now, skew, row, issued, verdict>>

\* The row of the job is updated where it has no verdict.
Update(c) ==
  /\ call[c].at \in {"pass", "fail"}
  /\ row' = IF row.passed = "null" THEN [row EXCEPT !.passed = call[c].at] ELSE row
  /\ call' = [call EXCEPT ![c] = Quiet]
  /\ UNCHANGED <<now, skew, issued, inTime, missed, verdict>>
-------------------------------------------------------------------------------
\* The verifier reads the verdict and submits it.
Verify ==
  /\ verdict = "null" /\ row.id # 0 /\ row.passed # "null"
  /\ verdict' = row.passed
  /\ UNCHANGED <<now, skew, row, issued, call, inTime, missed>>

Tick ==
  /\ now < MaxTime /\ now' = now + 1
  /\ UNCHANGED <<skew, row, issued, call, inTime, missed, verdict>>

Next ==
  \/ \E c \in Call : Request(c) \/ Issue(c) \/ Solve(c) \/ Solved(c) \/ Respond(c) \/ Update(c)
  \/ Verify \/ Tick

Spec == Init /\ [][Next]_vars
-------------------------------------------------------------------------------
(* Properties *)

\* The variables have the values the code gives them, and the row holds the
\* challenge issued last.
TypeOK ==
  /\ now \in 0..MaxTime /\ skew \in (0 - Skew)..Skew
  /\ row.id = issued /\ row.passed \in {"null", "pass", "fail"}
  /\ \A c \in Call : call[c].at \in {"idle", "issue", "solve", "solving", "sent", "pass", "fail"}
  /\ \A c \in Call : call[c].challenge.id <= issued
  /\ verdict \in {"null", "pass", "fail"}

\* The verifier passes a job only on a right answer that reached the API within
\* the challenge's life and the grace after it, by the API's clock and whatever
\* the node's clock says, also when the challenge was replaced while the answer
\* was being judged (server.ts:1601).
PassEarned == verdict = "pass" => inTime

\* One process at a time and a clock within the tolerance: the verifier fails a
\* job only on a wrong answer, or on one that was finished so late that it
\* arrived at the end of the challenge's life or after it (challenge.ts:119).
FailureEarned == verdict = "fail" => missed

\* A verdict the row holds is replaced only with its challenge: the verifier
\* never sees it change under one challenge (server.ts:1602).
VerdictKept == row.passed # "null" /\ row'.id = row.id => row' = row
===============================================================================
