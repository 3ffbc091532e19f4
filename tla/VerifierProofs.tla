---------------------------- MODULE VerifierProofs ----------------------------
(***************************************************************************)
(* Records match the chain, a pass has a quorum behind it, a failure has a *)
(* cause and a group's verdict is final, for any providers, results and    *)
(* processes and any number of faults.                                     *)
(***************************************************************************)
EXTENDS Verifier, TLAPS, FiniteSetTheorems

\* There are three jobs.
LEMMA JobCount == IsFiniteSet(Job) /\ Cardinality(Job) = 3
<1>1. PICK n \in Int : n = 3
  OBVIOUS
<1>2. IsFiniteSet(1..n) /\ Cardinality(1..n) = IF 1 > n THEN 0 ELSE n - 1 + 1
  BY FS_Interval
<1>3. Job = 1..n
  BY <1>1, Zenon DEF Job
<1>4. QED
  BY <1>1, <1>2, <1>3

\* Sets of jobs can be counted, and larger ones count more.
LEMMA JobsCount ==
  ASSUME NEW S \in SUBSET Job, NEW T \in SUBSET S
  PROVE  /\ IsFiniteSet(S) /\ Cardinality(S) \in Nat /\ Cardinality(T) \in Nat
         /\ Cardinality(T) <= Cardinality(S)
         /\ Cardinality(T) = Cardinality(S) => T = S
<1>1. IsFiniteSet(Job)
  BY JobCount, Zenon
<1>2. IsFiniteSet(S)
  BY <1>1, FS_Subset, Zenon
<1>3. IsFiniteSet(T) /\ Cardinality(T) <= Cardinality(S) /\ (Cardinality(S) = Cardinality(T) => S = T)
  BY <1>2, FS_Subset, Zenon
<1>4. QED
  BY <1>2, <1>3, FS_CardinalityType, Zenon

\* Two sets without a common job.
LEMMA JobsApart ==
  ASSUME NEW U \in SUBSET Job, NEW S \in SUBSET U, NEW T \in SUBSET U, S \cap T = {}
  PROVE  Cardinality(S) + Cardinality(T) <= Cardinality(U)
<1>1. /\ IsFiniteSet(S) /\ IsFiniteSet(T) /\ Cardinality(S) \in Nat /\ Cardinality(T) \in Nat
  BY JobsCount, Zenon
<1>2. Cardinality(S \cup T) = Cardinality(S) + Cardinality(T) - Cardinality(S \cap T)
  BY <1>1, FS_Union, Zenon
<1>3. Cardinality(S \cap T) = 0
  BY FS_EmptySet, Zenon
<1>4. Cardinality(S \cup T) <= Cardinality(U)
  BY JobsCount, Zenon
<1>5. QED
  BY <1>1, <1>2, <1>3, <1>4

\* A non-empty set of jobs has a first one.
LEMMA FirstJob ==
  ASSUME NEW S \in SUBSET Job, S # {}
  PROVE  \E i \in S : \A k \in S : i <= k
<1>1. S \subseteq {1, 2, 3}
  BY DEF Job
<1>2. CASE 1 \in S
  BY <1>1, <1>2
<1>3. CASE 1 \notin S /\ 2 \in S
  BY <1>1, <1>3
<1>4. CASE 1 \notin S /\ 2 \notin S
  <2>1. S = {3}
    BY <1>1, <1>4, Zenon
  <2>2. QED
    BY <2>1
<1>5. QED
  BY <1>2, <1>3, <1>4, Zenon

\* What verifyRedundantResults says of the rows of a group.
LEMMA ResultSound ==
  ASSUME TypeOK, RowsSound, group.state # None
  PROVE  LET r == verifyRedundantResults(Results, group.required)
         IN /\ r.passed \in BOOLEAN /\ r.hash \in Hash \cup {None}
            /\ r.passed => Cardinality(Votes(r.hash)) >= group.required
            /\ ~r.passed => /\ r.hash = None
                            /\ \A g \in Hash \cup {None} : Cardinality(Votes(g)) < group.required
<1> DEFINE m == group.required
           count(h) == Cardinality({i \in DOMAIN Results : Results[i].hash = h})
           Best(i) == \A k \in DOMAIN Results :
                        \/ count(Results[k].hash) < count(Results[i].hash)
                        \/ count(Results[k].hash) = count(Results[i].hash) /\ i <= k
                        \/ Results[k].hash = Results[i].hash /\ i <= k
           first == CHOOSE i \in DOMAIN Results : Best(i)
           quorum == count(Results[first].hash) >= m
           r == verifyRedundantResults(Results, m)
<1>1. /\ r.passed <=> quorum /\ Cardinality({Results[i].provider : i \in DOMAIN Results})
                                  = Cardinality(DOMAIN Results)
      /\ r.hash = IF quorum THEN Results[first].hash ELSE None
      /\ r.passed \in BOOLEAN
  BY Zenon DEF verifyRedundantResults
<1>2. /\ DOMAIN Results = Completed /\ Completed \in SUBSET Job
      /\ \A i \in Completed : Results[i].hash = hash[i] /\ Results[i].provider = replica[i]
  BY Zenon DEF Results, Completed
<1>3. \A h : {i \in DOMAIN Results : Results[i].hash = h} = Votes(h)
  BY <1>2, Zenon DEF Votes, Completed
<1>4. m \in 2..group.replicas /\ group.replicas \in 2..3
  BY Zenon DEF RowsSound
<1>5. \A h : Votes(h) \in SUBSET Completed /\ Cardinality(Votes(h)) \in Nat /\ count(h) = Cardinality(Votes(h))
  BY <1>2, <1>3, JobsCount, Zenon DEF Votes, Completed
<1>6. Cardinality(Completed) < 2 * m
  <2>1. Cardinality(Job) = 3
    BY JobCount, Zenon
  <2>2. Cardinality(Completed) <= 3 /\ Cardinality(Completed) \in Nat
    BY <1>2, <2>1, JobsCount, Zenon
  <2>3. QED
    BY <1>4, <2>2
<1>7. Cardinality({Results[i].provider : i \in DOMAIN Results}) = Cardinality(DOMAIN Results)
  <2> DEFINE f == [i \in Completed |-> replica[i]]
             T == {Results[i].provider : i \in DOMAIN Results}
  <2>1. T = {replica[i] : i \in Completed}
    BY <1>2
  <2>2. \A i, j \in Completed : replica[i] = replica[j] => i = j
    BY Zenon DEF RowsSound, Completed
  <2>3. f \in Bijection(Completed, T)
    BY <2>1, <2>2, Zenon DEF Bijection, Injection, Surjection, IsInjective
  <2>4. IsFiniteSet(Completed)
    BY <1>2, JobsCount, Zenon
  <2> HIDE DEF f, T
  <2>5. Cardinality(T) = Cardinality(Completed)
    BY <2>3, <2>4, FS_Bijection, Zenon DEF ExistsBijection
  <2>6. QED
    BY <1>2, <2>5, Zenon DEF T
<1> HIDE DEF count, Best, first, r
<1>8. quorum => /\ Results[first].hash \in Hash \cup {None}
                /\ Cardinality(Votes(Results[first].hash)) >= m
  <2> SUFFICES ASSUME quorum PROVE /\ Results[first].hash \in Hash \cup {None}
                                   /\ Cardinality(Votes(Results[first].hash)) >= m
    BY Zenon
  <2>1. Cardinality(Votes(Results[first].hash)) >= m
    BY <1>5, Zenon
  <2>2. Votes(Results[first].hash) # {}
    BY <1>4, <2>1, FS_EmptySet
  <2>3. QED
    BY <2>1, <2>2, Zenon DEF Votes, TypeOK
<1>9. ASSUME NEW g \in Hash \cup {None}, Cardinality(Votes(g)) >= m
      PROVE  quorum
  <2>1. \A h : h # g => Cardinality(Votes(h)) < Cardinality(Votes(g))
    <3> SUFFICES ASSUME NEW h, h # g PROVE Cardinality(Votes(h)) < Cardinality(Votes(g))
      BY Zenon
    <3>1. Votes(h) \cap Votes(g) = {}
      BY Zenon DEF Votes
    <3>2. Cardinality(Votes(h)) + Cardinality(Votes(g)) <= Cardinality(Completed)
      BY <1>2, <1>5, <3>1, JobsApart, Zenon
    <3>3. Cardinality(Completed) \in Nat
      BY <1>2, JobsCount, Zenon
    <3>4. QED
      BY <1>4, <1>5, <1>6, <1>9, <3>2, <3>3
  <2>2. PICK i \in Votes(g) : \A k \in Votes(g) : i <= k
    <3>1. Votes(g) # {} /\ Votes(g) \in SUBSET Job
      BY <1>4, <1>9, FS_EmptySet DEF Votes
    <3>2. QED
      BY <3>1, FirstJob, Zenon
  <2>3. i \in DOMAIN Results /\ Results[i].hash = g
    BY <1>2, <1>5, Zenon DEF Votes, Completed
  <2>4. Best(i)
    <3> SUFFICES ASSUME NEW k \in DOMAIN Results
                 PROVE  \/ count(Results[k].hash) < count(Results[i].hash)
                        \/ Results[k].hash = Results[i].hash /\ i <= k
      BY Zenon DEF Best
    <3>1. CASE Results[k].hash = g
      BY <1>2, <2>2, <2>3, <3>1, Zenon DEF Votes, Completed
    <3>2. CASE Results[k].hash # g
      BY <1>5, <2>1, <2>3, <3>2, Zenon
    <3>3. QED
      BY <3>1, <3>2, Zenon
  <2>5. first \in DOMAIN Results /\ Best(first)
    BY <2>3, <2>4, Zenon DEF first
  <2>6. count(g) <= count(Results[first].hash)
    <3>1. \/ count(g) < count(Results[first].hash)
          \/ count(g) = count(Results[first].hash)
          \/ g = Results[first].hash
      BY <2>3, <2>5, Zenon DEF Best
    <3>2. QED
      BY <1>5, <3>1
  <2>7. QED
    BY <1>4, <1>5, <1>9, <2>6
<1>10. ~quorum => \A g \in Hash \cup {None} : Cardinality(Votes(g)) < m
  BY <1>4, <1>5, <1>9
<1>11. QED
  BY <1>1, <1>7, <1>8, <1>10, Zenon DEF r
-------------------------------------------------------------------------------
(* What an action does to the calls. *)

OthersStay(p) == \A q \in Proc \ {p} : proc'[q] = proc[q]

\* The call is over; it goes on with its job, as it saw it on the chain.
Ends(p) == proc' \in [Proc -> Calls] /\ OthersStay(p) /\ proc'[p].at = "idle"
GoesOn(p, at) ==
  /\ proc' \in [Proc -> Calls] /\ OthersStay(p)
  /\ proc'[p].at = at /\ proc'[p].job = proc[p].job /\ proc'[p].seen = proc[p].seen

\* Where a call goes when it throws, continues or decides.
LEMMA CallMoves ==
  ASSUME TypeOK, NEW p \in Proc
  PROVE  /\ Throw(p) => Ends(p)
         /\ \A at \in Places : Goto(p, at) =>
              /\ GoesOn(p, at) /\ proc'[p].hash = proc[p].hash
              /\ proc'[p].passed <=> proc[p].passed
         /\ \A b \in BOOLEAN : Decided(p, b) => GoesOn(p, "check") /\ (proc'[p].passed <=> b)
<1>0. proc \in [Proc -> Calls] /\ proc[p] \in Calls
  BY Zenon DEF TypeOK
<1>1. ASSUME Throw(p) PROVE Ends(p)
  <2>1. Idle \in Calls /\ Idle.at = "idle"
    BY Zenon DEF Idle, Calls, Places
  <2>2. proc' \in [Proc -> Calls] /\ OthersStay(p) /\ proc'[p] = Idle
    BY <1>0, <1>1, <2>1, Zenon DEF Throw, OthersStay
  <2>3. QED
    BY <2>1, <2>2, Zenon DEF Ends
<1>2. ASSUME NEW at \in Places, Goto(p, at)
      PROVE  /\ GoesOn(p, at) /\ proc'[p].hash = proc[p].hash
             /\ proc'[p].passed <=> proc[p].passed
  <2>1. [proc[p] EXCEPT !.at = at] \in Calls
    BY <1>0, Zenon DEF Calls
  <2>2. proc' \in [Proc -> Calls] /\ OthersStay(p) /\ proc'[p] = [proc[p] EXCEPT !.at = at]
    BY <1>0, <1>2, <2>1, Zenon DEF Goto, OthersStay
  <2>3. QED
    BY <1>0, <2>2 DEF GoesOn, Calls
<1>3. ASSUME NEW b \in BOOLEAN, Decided(p, b)
      PROVE  GoesOn(p, "check") /\ (proc'[p].passed <=> b)
  <2>1. [proc[p] EXCEPT !.at = "check", !.passed = b] \in Calls
    BY <1>0, Zenon DEF Calls, Places
  <2>2. /\ proc' \in [Proc -> Calls] /\ OthersStay(p)
        /\ proc'[p] = [proc[p] EXCEPT !.at = "check", !.passed = b]
    BY <1>0, <1>3, <2>1, Zenon DEF Decided, OthersStay
  <2>3. QED
    BY <1>0, <2>2, Zenon DEF GoesOn, Calls
<1>4. QED
  BY <1>1, <1>2, <1>3, Zenon

\* A call begins.
Begins(p, j) == proc' = [proc EXCEPT ![p] = [Idle EXCEPT !.at = "read", !.job = j]]

\* A call starts at reading its job.
LEMMA CallBegins ==
  ASSUME TypeOK, NEW p \in Proc, NEW j \in Job, Begins(p, j)
  PROVE  proc' \in [Proc -> Calls] /\ OthersStay(p) /\ proc'[p].at = "read" /\ proc'[p].job = j
<1>1. Idle \in Calls
  BY Zenon DEF Idle, Calls, Places
<1>2. [Idle EXCEPT !.at = "read", !.job = j] \in Calls
  BY <1>1, Zenon DEF Calls, Places
<1>3. /\ proc' \in [Proc -> Calls] /\ OthersStay(p)
      /\ proc'[p] = [Idle EXCEPT !.at = "read", !.job = j]
  BY <1>2, Zenon DEF Begins, TypeOK, OthersStay
<1>4. QED
  BY <1>3, Zenon DEF Idle

\* The job is read.
LEMMA ReadMoves ==
  ASSUME TypeOK, NEW p \in Proc, ReadJob(p)
  PROVE  \/ Ends(p)
         \/ /\ proc' \in [Proc -> Calls] /\ OthersStay(p) /\ proc'[p].at = "decide"
            /\ proc'[p].job = proc[p].job /\ proc'[p].seen = state[proc[p].job]
            /\ proc'[p].seen \in {8, 9, 12}
<1>1. CASE state[proc[p].job] \in {8, 9, 12}
  <2>1. proc' = [proc EXCEPT ![p].at = "decide", ![p].seen = state[proc[p].job]]
    BY <1>1, Zenon DEF ReadJob
  <2>2. proc[p] \in Calls
    BY Zenon DEF TypeOK
  <2>3. [proc[p] EXCEPT !.at = "decide", !.seen = state[proc[p].job]] \in Calls
    BY <1>1, <2>2, Zenon DEF Calls, Places
  <2>4. /\ proc' \in [Proc -> Calls] /\ OthersStay(p)
        /\ proc'[p] = [proc[p] EXCEPT !.at = "decide", !.seen = state[proc[p].job]]
    BY <2>1, <2>3, Zenon DEF TypeOK, OthersStay
  <2>5. QED
    BY <1>1, <2>2, <2>4, Zenon DEF Calls
<1>2. CASE state[proc[p].job] \notin {8, 9, 12}
  BY <1>2, CallMoves, Zenon DEF ReadJob
<1>3. QED
  BY <1>1, <1>2, Zenon

\* The receipt, or the evidence of the policy, decides.
LEMMA DecideMoves ==
  ASSUME TypeOK, NEW p \in Proc, Decide(p)
  PROVE  \/ Ends(p)
         \/ GoesOn(p, "replica") /\ good[proc[p].job] /\ policy = "REDUNDANT"
         \/ /\ GoesOn(p, "check")
            /\ proc'[p].passed => policy # "REDUNDANT"
            /\ ~proc'[p].passed => \/ ~good[proc[p].job] \/ ~auth[proc[p].job]
                                   \/ challenge[proc[p].job] = "failed"
<1> DEFINE j == proc[p].job
<1>0. j \in Job /\ policy \in Policies
  BY Zenon DEF TypeOK, Decide
<1>1. CASE ~verifyReceipt(j)
  <2>1. Decided(p, FALSE)
    BY <1>1, Zenon DEF Decide
  <2>2. QED
    BY <1>1, <2>1, CallMoves, Zenon DEF verifyReceipt
<1>2. CASE verifyReceipt(j) /\ policy = "STANDARD"
  <2>1. Decided(p, TRUE)
    BY <1>2, Zenon DEF Decide
  <2>2. QED
    BY <1>2, <2>1, CallMoves, Zenon
<1>3. CASE verifyReceipt(j) /\ policy = "CHALLENGE"
  <2>1. IF challenge[j] \in {None, "null"} THEN Throw(p) ELSE Decided(p, challenge[j] = "passed")
    BY <1>3, Zenon DEF Decide
  <2>2. challenge[j] \in {None, "null", "passed", "failed"}
    BY <1>0, Zenon DEF TypeOK, Verdicts
  <2>3. QED
    BY <1>3, <2>1, <2>2, CallMoves, Zenon
<1>4. CASE verifyReceipt(j) /\ policy = "REDUNDANT"
  <2>1. Goto(p, "replica")
    BY <1>4, Zenon DEF Decide
  <2>2. QED
    BY <1>4, <2>1, CallMoves, Zenon DEF verifyReceipt, Places
<1>5. CASE verifyReceipt(j) /\ policy \in {"TEE", "PROOF"}
  <2>1. Throw(p)
    BY <1>5, Zenon DEF Decide
  <2>2. QED
    BY <2>1, CallMoves, Zenon
<1>6. QED
  BY <1>0, <1>1, <1>2, <1>3, <1>4, <1>5, Zenon DEF Policies
\* A job with a row is of a group.
LEMMA RowHasGroup ==
  ASSUME TypeOK, RowsSound, NEW j \in Job, replica[j] # None
  PROVE  group.state # None
BY DEF TypeOK, RowsSound, Job

\* A replica is registered only for a provider that no other replica has.
LEMMA ReplicaMoves ==
  ASSUME TypeOK, NEW p \in Proc, UpdateReplica(p)
  PROVE  \/ Ends(p) /\ UNCHANGED replica
         \/ /\ GoesOn(p, "quorum") /\ replica' = [replica EXCEPT ![proc[p].job] = provider[proc[p].job]]
            /\ \A s \in Job \ {proc[p].job} : replica[s] # provider[proc[p].job]
<1>1. CASE \E s \in Job \ {proc[p].job} : replica[s] = provider[proc[p].job]
  BY <1>1, CallMoves, Zenon DEF UpdateReplica
<1>2. CASE ~\E s \in Job \ {proc[p].job} : replica[s] = provider[proc[p].job]
  <2>1. Goto(p, "quorum") /\ replica' = [replica EXCEPT ![proc[p].job] = provider[proc[p].job]]
    BY <1>2, Zenon DEF UpdateReplica
  <2>2. QED
    BY <1>2, <2>1, CallMoves, Zenon DEF Places
<1>3. QED
  BY <1>1, <1>2, Zenon

\* The rows are compared, and the call waits or has a verdict that they settle.
LEMMA QuorumMoves ==
  ASSUME TypeOK, RowsSound, VerdictsSound, NEW p \in Proc, Quorum(p)
  PROVE  \/ Ends(p)
         \/ GoesOn(p, "group") /\ Settles(proc'[p].passed, proc'[p].hash)
<1>1. proc[p].job \in Job /\ replica[proc[p].job] # None /\ group.state # None
  <2>1. proc[p].job \in Job /\ replica[proc[p].job] # None
    BY Zenon DEF TypeOK, VerdictsSound, Quorum
  <2>2. QED
    BY <2>1, RowHasGroup, Zenon
<1>2. PICK r : r = verifyRedundantResults(Results, group.required)
  BY Zenon
<1>3. /\ r.passed \in BOOLEAN /\ r.hash \in Hash \cup {None}
      /\ r.passed => Cardinality(Votes(r.hash)) >= group.required
      /\ ~r.passed => /\ r.hash = None
                      /\ \A g \in Hash \cup {None} : Cardinality(Votes(g)) < group.required
  BY <1>1, <1>2, ResultSound, Zenon
<1>4. CASE Cardinality(Completed) < group.required \/ AwaitTieBreak(r, Completed)
  <2>1. Throw(p)
    BY <1>2, <1>4, Zenon DEF Quorum
  <2>2. QED
    BY <2>1, CallMoves, Zenon
<1>5. CASE ~(Cardinality(Completed) < group.required \/ AwaitTieBreak(r, Completed))
  <2>1. proc' = [proc EXCEPT ![p].at = "group", ![p].passed = r.passed, ![p].hash = r.hash]
    BY <1>2, <1>5, Zenon DEF Quorum
  <2>2. proc[p] \in Calls
    BY Zenon DEF TypeOK
  <2>3. [proc[p] EXCEPT !.at = "group", !.passed = r.passed, !.hash = r.hash] \in Calls
    BY <1>3, <2>2, Zenon DEF Calls, Places
  <2>4. /\ proc' \in [Proc -> Calls] /\ OthersStay(p)
        /\ proc'[p] = [proc[p] EXCEPT !.at = "group", !.passed = r.passed, !.hash = r.hash]
    BY <2>1, <2>3, Zenon DEF TypeOK, OthersStay
  <2>5. GoesOn(p, "group") /\ (proc'[p].passed <=> r.passed) /\ proc'[p].hash = r.hash
    BY <2>2, <2>4, Zenon DEF GoesOn, Calls
  <2>6. ~r.passed => Cardinality(Completed) >= group.replicas
    <3>1. Cardinality(Completed) \in Nat
      BY JobsCount, Zenon DEF Completed
    <3>2. group.replicas \in Nat
      BY DEF TypeOK, Groups
    <3>3. QED
      BY <1>5, <3>1, <3>2 DEF AwaitTieBreak
  <2>7. QED
    BY <1>3, <2>5, <2>6, Zenon DEF Settles
<1>6. QED
  BY <1>4, <1>5, Zenon

\* The verdict is stored with the group.
LEMMA GroupMoves ==
  ASSUME TypeOK, NEW p \in Proc, UpdateGroup(p)
  PROVE  /\ GoesOn(p, "check")
         /\ proc'[p].passed <=> proc[p].passed /\ proc[p].hash = hash[proc[p].job]
         /\ group' \in Groups /\ group'.hash = proc[p].hash
         /\ group'.state = IF proc[p].passed THEN "PASSED" ELSE "DISPUTED"
         /\ group'.replicas = group.replicas /\ group'.required = group.required
<1>1. proc[p] \in Calls /\ group \in Groups
  BY Zenon DEF TypeOK
<1>2. proc[p].passed \in BOOLEAN /\ proc[p].hash \in Hash \cup {None}
  BY <1>1, Zenon DEF Calls
<1>3. Decided(p, proc[p].passed /\ proc[p].hash = hash[proc[p].job])
  BY Zenon DEF UpdateGroup
<1>4. GoesOn(p, "check") /\ (proc'[p].passed <=> proc[p].passed /\ proc[p].hash = hash[proc[p].job])
  BY <1>2, <1>3, CallMoves, Zenon
<1>5. group' = [group EXCEPT !.state = IF proc[p].passed THEN "PASSED" ELSE "DISPUTED",
                             !.hash = proc[p].hash]
  BY Zenon DEF UpdateGroup
<1>6. group' \in Groups
  BY <1>1, <1>2, <1>5, Zenon DEF Groups
<1>7. QED
  BY <1>1, <1>4, <1>5, <1>6, Zenon DEF Groups

\* A decided call submits for a job it saw submitted, and otherwise only records.
LEMMA CheckMoves ==
  ASSUME TypeOK, NEW p \in Proc, Check(p)
  PROVE  \/ Ends(p)
         \/ /\ GoesOn(p, "submit") /\ proc[p].seen = 8
            /\ proc'[p].passed <=> proc[p].passed
         \/ /\ GoesOn(p, "record") /\ proc[p].seen # 8
            /\ proc'[p].passed <=> proc[p].passed
            /\ (proc[p].seen = 9) <=> proc[p].passed
<1>1. CASE record[proc[p].job] # None \/ Conflict(p)
  BY <1>1, CallMoves, Zenon DEF Check
<1>2. CASE record[proc[p].job] = None /\ ~Conflict(p) /\ proc[p].seen = 8
  <2>1. Goto(p, "submit")
    BY <1>2, Zenon DEF Check
  <2>2. QED
    BY <1>2, <2>1, CallMoves, Zenon DEF Places
<1>3. CASE record[proc[p].job] = None /\ ~Conflict(p) /\ proc[p].seen # 8
  <2>1. Goto(p, "record")
    BY <1>3, Zenon DEF Check
  <2>2. proc[p].passed \in BOOLEAN
    BY Zenon DEF TypeOK, Calls
  <2>3. (proc[p].seen = 9) <=> proc[p].passed
    BY <1>3, <2>2, Zenon DEF Conflict
  <2>4. QED
    BY <1>3, <2>1, <2>3, CallMoves, Zenon DEF Places
<1>4. QED
  BY <1>1, <1>2, <1>3, Zenon

\* A verdict is sent once, refused, or lost on its way and applied late.
LEMMA SubmitMoves ==
  ASSUME TypeOK, NEW p \in Proc, Submit(p)
  PROVE  \/ /\ GoesOn(p, "reconcile") /\ (proc'[p].passed <=> proc[p].passed)
            /\ Verified(proc[p].job, proc[p].passed) /\ UNCHANGED late
         \/ Ends(p) /\ UNCHANGED <<state, outcome, late>>
         \/ Ends(p) /\ UNCHANGED <<state, outcome>> /\ late' = late \cup {<<proc[p].job, proc[p].passed>>}
BY CallMoves, Zenon DEF Submit, Places

\* What submit_verification does to the chain's state.
LEMMA VerifiedMoves ==
  ASSUME TypeOK, NEW j \in Job, NEW b \in BOOLEAN, Verified(j, b)
  PROVE  /\ state' \in [Job -> States] /\ outcome' \in [Job -> Verdicts]
         /\ state[j] = 8 /\ state'[j] = IF b THEN 9 ELSE 12
         /\ outcome'[j] = Verdict(b)
         /\ \A k \in Job \ {j} : state'[k] = state[k] /\ outcome'[k] = outcome[k]
BY Zenon DEF TypeOK, Verified, States, Verdicts, Verdict
-------------------------------------------------------------------------------
(* The variables keep their types. *)

\* The calls have jobs.
CallsTyped == /\ proc' \in [Proc -> Calls]
              /\ \A q \in Proc : proc'[q].at # "idle" => proc'[q].job \in Job

\* A step of one call leaves the others and stays within a call's types.
LEMMA CallsStayTyped ==
  ASSUME TypeOK, NEW p \in Proc,
         \/ Ends(p)
         \/ proc[p].at # "idle" /\ \E at \in Places : GoesOn(p, at)
         \/ /\ proc' \in [Proc -> Calls] /\ OthersStay(p) /\ proc'[p].job \in Job
  PROVE  CallsTyped
<1>1. ASSUME NEW q \in Proc \ {p} PROVE proc'[q].at # "idle" => proc'[q].job \in Job
  <2>1. proc'[q] = proc[q]
    BY Zenon DEF Ends, GoesOn, OthersStay
  <2>2. QED
    BY <2>1, Zenon DEF TypeOK
<1>2. proc'[p].at # "idle" => proc'[p].job \in Job
  BY Zenon DEF Ends, GoesOn, TypeOK
<1>3. QED
  BY <1>1, <1>2, Zenon DEF CallsTyped, Ends, GoesOn

\* Every step of a call.
LEMMA StepsStayTyped ==
  ASSUME TypeOK, RowsSound, VerdictsSound, NEW p \in Proc, Step(p) \/ Crash(p)
  PROVE  CallsTyped
<1>0. {"check", "submit", "record", "replica", "quorum", "group", "reconcile"} \subseteq Places
  BY Zenon DEF Places
<1>1. CASE ReadJob(p)
  <2>1. proc[p].job \in Job
    BY <1>1, Zenon DEF ReadJob, TypeOK
  <2>2. QED
    BY <1>1, <2>1, ReadMoves, CallsStayTyped, Zenon
<1>2. CASE Decide(p)
  BY <1>0, <1>2, DecideMoves, CallsStayTyped, Zenon DEF Decide
<1>3. CASE UpdateReplica(p)
  BY <1>0, <1>3, ReplicaMoves, CallsStayTyped, Zenon DEF UpdateReplica
<1>4. CASE Quorum(p)
  BY <1>0, <1>4, QuorumMoves, CallsStayTyped, Zenon DEF Quorum
<1>5. CASE UpdateGroup(p)
  BY <1>0, <1>5, GroupMoves, CallsStayTyped, Zenon DEF UpdateGroup
<1>6. CASE Check(p)
  BY <1>0, <1>6, CheckMoves, CallsStayTyped, Zenon DEF Check
<1>7. CASE Submit(p)
  BY <1>0, <1>7, SubmitMoves, CallsStayTyped, Zenon DEF Submit
<1>8. CASE ReconcileChain(p)
  BY <1>0, <1>8, CallMoves, CallsStayTyped, Zenon DEF ReconcileChain
<1>9. CASE Record(p) \/ Crash(p)
  BY <1>9, CallMoves, CallsStayTyped, Zenon DEF Record, Crash
<1>10. QED
  BY <1>1, <1>2, <1>3, <1>4, <1>5, <1>6, <1>7, <1>8, <1>9, Zenon DEF Step

\* A fault is counted, up to the bound.
LEMMA FaultTyped ==
  ASSUME TypeOK, Fault \/ UNCHANGED faults
  PROVE  faults' \in 0..MaxFaults
BY VerifierAssumption DEF TypeOK, Fault

\* Every step keeps the types.
LEMMA TypeStep ==
  ASSUME TypeOK, RowsSound, VerdictsSound, CallsKnow, [Next]_vars
  PROVE  TypeOK'
<1> USE DEF TypeOK, chainVars, dbVars
<1>1. ASSUME NEW n \in 2..3, NEW m \in 2..3, CreateRedundant(n, m) PROVE TypeOK'
  <2>1. group' \in Groups
    BY <1>1 DEF CreateRedundant, Groups
  <2>2. QED
    BY <1>1, <2>1, Zenon DEF CreateRedundant
<1>2. ASSUME NEW j \in Job, SignCreate(j) PROVE TypeOK'
  <2>1. state' \in [Job -> States] /\ \A k \in Job : state[k] >= 8 => state'[k] >= 8
    BY <1>2 DEF SignCreate, States
  <2>2. QED
    BY <1>2, <2>1, Zenon DEF SignCreate
<1>3. ASSUME NEW j \in Job, NEW v \in Provider, AcceptBid(j, v) PROVE TypeOK'
  BY <1>3, Zenon DEF AcceptBid
<1>4. ASSUME NEW j \in Job, SignAccept(j) PROVE TypeOK'
  <2>1. state' \in [Job -> States] /\ \A k \in Job : state[k] >= 8 => state'[k] >= 8
    BY <1>4, SMTT(20) DEF SignAccept, States
  <2>2. QED
    BY <1>4, <2>1, Zenon DEF SignAccept
<1>5. ASSUME NEW j \in Job, NEW h \in Hash, NEW g \in BOOLEAN, Deliver(j, h, g) PROVE TypeOK'
  <2>1. state' \in [Job -> States] /\ \A k \in Job : state[k] >= 8 => state'[k] >= 8
    BY <1>5 DEF Deliver, States
  <2>2. good' \in [Job -> BOOLEAN] /\ hash' \in [Job -> Hash \cup {None}]
    BY <1>5, Zenon DEF Deliver
  <2>3. QED
    BY <1>5, <2>1, <2>2, Zenon DEF Deliver
<1>6. ASSUME NEW j \in Job, Result(j) PROVE TypeOK'
  <2>1. receipts' \in [Job -> BOOLEAN] /\ \A k \in Job : receipts'[k] => state[k] >= 8
    BY <1>6 DEF Result, storeReceipt
  <2>2. QED
    BY <1>6, <2>1, Zenon DEF Result
<1>7. ASSUME NEW j \in Job, Challenge(j) PROVE TypeOK'
  <2>1. challenge' \in [Job -> Verdicts \cup {"null"}] /\ missed' \subseteq Job
    BY <1>7 DEF Challenge, Verdicts
  <2>2. faults' \in 0..MaxFaults
    BY <1>7, FaultTyped, Zenon DEF Challenge
  <2>3. QED
    BY <1>7, <2>1, <2>2, Zenon DEF Challenge
<1>8. CASE Reconcile
  BY <1>8, Zenon DEF Reconcile
<1>9. CASE Poll
  <2>1. queue' \subseteq Job
    BY <1>9, Zenon DEF Poll, Page
  <2>2. QED
    BY <1>9, <2>1, Zenon DEF Poll
<1>10. CASE Take
  <2>1. PICK j \in queue : /\ queue' = queue \ {j}
                           /\ proc' = IF receipts[j]
                                      THEN [proc EXCEPT !["daemon"] = [Idle EXCEPT !.at = "read", !.job = j]]
                                      ELSE proc
    BY <1>10, Zenon DEF Take
  <2>2. CASE "daemon" \in Proc
    <3>1. CallsTyped
      <4>1. CASE receipts[j]
        <5>1. Begins("daemon", j)
          BY <2>1, <4>1, Zenon DEF Begins
        <5>2. /\ proc' \in [Proc -> Calls] /\ OthersStay("daemon")
              /\ proc'["daemon"].at = "read" /\ proc'["daemon"].job = j
          BY <2>2, <5>1, CallBegins, Zenon
        <5>3. QED
          BY <2>2, <5>2, CallsStayTyped, Zenon
      <4>2. CASE ~receipts[j]
        BY <2>1, <4>2, Zenon DEF CallsTyped
      <4>3. QED
        BY <4>1, <4>2, Zenon
    <3>2. QED
      BY <1>10, <2>1, <3>1, Zenon DEF Take, CallsTyped
  <2>3. CASE "daemon" \notin Proc
    <3>1. proc' = proc
      BY <2>1, <2>3
    <3>2. QED
      BY <1>10, <2>1, <3>1, Zenon DEF Take
  <2>4. QED
    BY <2>2, <2>3, Zenon
<1>11. ASSUME NEW p \in Proc, NEW j \in Job, Main(p, j) PROVE TypeOK'
  <2>1. CallsTyped
    <3>1. Begins(p, j)
      BY <1>11, Zenon DEF Main, Begins
    <3>2. proc' \in [Proc -> Calls] /\ OthersStay(p) /\ proc'[p].at = "read" /\ proc'[p].job = j
      BY <3>1, CallBegins, Zenon
    <3>3. QED
      BY <3>2, CallsStayTyped, Zenon
  <2>2. faults' \in 0..MaxFaults
    BY <1>11, FaultTyped, Zenon DEF Main
  <2>3. QED
    BY <1>11, <2>1, <2>2, Zenon DEF Main, CallsTyped
<1>12. ASSUME NEW p \in Proc, Step(p) PROVE TypeOK'
  <2>1. CallsTyped
    BY <1>12, StepsStayTyped, Zenon
  <2>2. CASE ReadJob(p) \/ Decide(p) \/ Quorum(p)
    BY <2>1, <2>2, ZenonT(60) DEF ReadJob, Decide, Quorum, CallsTyped
  <2>3. CASE UpdateReplica(p)
    <3>1. proc[p].job \in Job
      BY <2>3, Zenon DEF UpdateReplica
    <3>2. replica' \in [Job -> Provider \cup {None}]
      BY <2>3, <3>1, ReplicaMoves
    <3>3. QED
      BY <2>1, <2>3, <3>2, Zenon DEF UpdateReplica, CallsTyped
  <2>4. CASE UpdateGroup(p)
    <3>1. group' \in Groups
      BY <2>4, GroupMoves, Zenon
    <3>2. QED
      BY <2>1, <2>4, <3>1, Zenon DEF UpdateGroup, CallsTyped
  <2>5. CASE Check(p)
    <3>1. proc[p].job \in Job /\ state[proc[p].job] >= 8
      BY <2>5, Zenon DEF Check, CallsKnow
    <3>2. /\ idx' \in [Job -> States]
          /\ receipts' \in [Job -> BOOLEAN] /\ \A k \in Job : receipts'[k] => state[k] >= 8
      BY <2>5, <3>1, Zenon DEF Check, storeReceipt
    <3>3. QED
      BY <2>1, <2>5, <3>2, Zenon DEF Check, CallsTyped
  <2>6. CASE Submit(p)
    <3>1. proc[p].job \in Job /\ proc[p].passed \in BOOLEAN
      BY <2>6, Zenon DEF Submit, Calls
    <3>2. /\ state' \in [Job -> States] /\ outcome' \in [Job -> Verdicts]
          /\ \A k \in Job : state[k] >= 8 => state'[k] >= 8
      <4>1. CASE Verified(proc[p].job, proc[p].passed)
        BY <3>1, <4>1, VerifiedMoves, SMTT(30)
      <4>2. CASE UNCHANGED <<state, outcome>>
        BY <4>2, Zenon
      <4>3. QED
        BY <2>6, <4>1, <4>2, SubmitMoves, ZenonT(60)
    <3>3. late' \subseteq Job \X BOOLEAN
      BY <2>6, <3>1, SubmitMoves, SMTT(20)
    <3>4. faults' \in 0..MaxFaults
      BY <2>6, FaultTyped, Zenon DEF Submit
    <3>5. QED
      BY <2>1, <2>6, <3>2, <3>3, <3>4, Zenon DEF Submit, CallsTyped
  <2>7. CASE ReconcileChain(p)
    BY <2>1, <2>7, Zenon DEF ReconcileChain, CallsTyped
  <2>8. CASE Record(p)
    <3>1. record' \in [Job -> Verdicts]
      BY <2>8, Zenon DEF Record, Verdict, Verdicts
    <3>2. QED
      BY <2>1, <2>8, <3>1, Zenon DEF Record, CallsTyped
  <2>9. QED
    BY <1>12, <2>2, <2>3, <2>4, <2>5, <2>6, <2>7, <2>8, ZenonT(60) DEF Step
<1>13. ASSUME NEW p \in Proc, Crash(p) PROVE TypeOK'
  <2>1. CallsTyped
    BY <1>13, StepsStayTyped, Zenon
  <2>2. queue' \subseteq Job
    BY <1>13, Zenon DEF Crash
  <2>3. faults' \in 0..MaxFaults
    BY <1>13, FaultTyped, Zenon DEF Crash
  <2>4. QED
    BY <1>13, <2>1, <2>2, <2>3, Zenon DEF Crash, CallsTyped
<1>14. ASSUME NEW t \in late, Land(t) PROVE TypeOK'
  <2>1. t[1] \in Job /\ t[2] \in BOOLEAN
    BY Zenon
  <2>2. /\ state' \in [Job -> States] /\ outcome' \in [Job -> Verdicts]
        /\ \A k \in Job : state[k] >= 8 => state'[k] >= 8
    <3>1. CASE Verified(t[1], t[2])
      BY <2>1, <3>1, VerifiedMoves, SMTT(90)
    <3>2. CASE UNCHANGED <<state, outcome>>
      BY <3>2, Zenon
    <3>3. QED
      BY <1>14, <3>1, <3>2, Zenon DEF Land
  <2>3. QED
    BY <1>14, <2>2, Zenon DEF Land
<1>15. ASSUME NEW j \in Job, Revoke(j) PROVE TypeOK'
  <2>1. auth' \in [Job -> BOOLEAN]
    BY <1>15, Zenon DEF Revoke
  <2>2. faults' \in 0..MaxFaults
    BY <1>15, FaultTyped, Zenon DEF Revoke
  <2>3. QED
    BY <1>15, <2>1, <2>2, Zenon DEF Revoke
<1>16. ASSUME NEW j \in Job, MoveOn(j) PROVE TypeOK'
  <2>1. PICK m \in {<<8, 11>>, <<9, 13>>, <<13, 9>>, <<12, 14>>} :
           state[j] = m[1] /\ state' = [state EXCEPT ![j] = m[2]]
    BY <1>16, Zenon DEF MoveOn
  <2>2. state' \in [Job -> States] /\ \A k \in Job : state[k] >= 8 => state'[k] >= 8
    BY <2>1 DEF States
  <2>3. faults' \in 0..MaxFaults
    BY <1>16, FaultTyped, Zenon DEF MoveOn
  <2>4. QED
    BY <1>16, <2>2, <2>3, ZenonT(60) DEF MoveOn
<1>17. CASE UNCHANGED vars
  BY <1>17, Zenon DEF vars
<1> HIDE DEF TypeOK, chainVars, dbVars
<1>18. QED
  BY <1>1, <1>2, <1>3, <1>4, <1>5, <1>6, <1>7, <1>8, <1>9, <1>10, <1>11, <1>12, <1>13, <1>14,
     <1>15, <1>16, <1>17, Zenon DEF Next
-------------------------------------------------------------------------------
(* What no step takes back. *)

\* A job with a receipt keeps its evidence and its provider, and a decision made stays.
ChainSteady ==
  /\ policy' = policy
  /\ \A j \in Job :
       /\ state[j] >= 4 => state'[j] >= 4 /\ provider'[j] = provider[j]
       /\ state[j] >= 8 => state'[j] >= 8 /\ hash'[j] = hash[j] /\ (good'[j] <=> good[j])
       /\ outcome[j] # None => outcome'[j] = outcome[j]
       /\ auth'[j] => auth[j]

\* A row that is filled, and a wrong answer, stay.
RowsSteady ==
  /\ \A j \in Job : replica[j] # None => replica'[j] = replica[j]
  /\ missed \subseteq missed'

\* A group keeps its numbers, and its verdict once it has one.
GroupSteady ==
  /\ group.state # None => /\ group'.replicas = group.replicas /\ group'.required = group.required
                           /\ group'.state # None
  /\ group.state \in {"PASSED", "DISPUTED"} => group' = group

\* No step takes the chain back.
LEMMA ChainStep ==
  ASSUME TypeOK, StateTells, [Next]_vars
  PROVE  ChainSteady
<1> USE DEF ChainSteady, chainVars
<1>1. ASSUME NEW j \in Job, SignCreate(j) PROVE ChainSteady
  BY <1>1 DEF SignCreate, TypeOK
<1>2. ASSUME NEW j \in Job, SignAccept(j) PROVE ChainSteady
  BY <1>2 DEF SignAccept, TypeOK
<1>3. ASSUME NEW j \in Job, NEW h \in Hash, NEW g \in BOOLEAN, Deliver(j, h, g) PROVE ChainSteady
  BY <1>3, SMTT(20) DEF Deliver, TypeOK
<1>4. ASSUME NEW j \in Job, NEW b \in BOOLEAN, Verified(j, b), UNCHANGED <<policy, provider, auth, good, hash>>
      PROVE  ChainSteady
  <2>1. outcome[j] = None
    BY <1>4 DEF Verified, StateTells
  <2>2. QED
    BY <1>4, <2>1, VerifiedMoves
<1>5. ASSUME UNCHANGED <<policy, state, outcome, provider, auth, good, hash>> PROVE ChainSteady
  BY <1>5, Zenon
<1>6. ASSUME NEW p \in Proc, Submit(p) PROVE ChainSteady
  <2>1. proc[p].job \in Job /\ proc[p].passed \in BOOLEAN
    BY <1>6, Zenon DEF Submit, TypeOK, Calls
  <2>2. UNCHANGED <<policy, provider, auth, good, hash>>
    BY <1>6, Zenon DEF Submit
  <2>3. QED
    BY <1>4, <1>5, <1>6, <2>1, <2>2, SubmitMoves, Zenon
<1>7. ASSUME NEW t \in late, Land(t) PROVE ChainSteady
  <2>1. t[1] \in Job /\ t[2] \in BOOLEAN
    BY Zenon DEF TypeOK
  <2>2. QED
    BY <1>4, <1>5, <1>7, <2>1, Zenon DEF Land
<1>8. ASSUME NEW j \in Job, Revoke(j) PROVE ChainSteady
  BY <1>8, Zenon DEF Revoke, TypeOK
<1>9. ASSUME NEW j \in Job, MoveOn(j) PROVE ChainSteady
  <2>1. PICK m \in {<<8, 11>>, <<9, 13>>, <<13, 9>>, <<12, 14>>} :
           state[j] = m[1] /\ state' = [state EXCEPT ![j] = m[2]]
    BY <1>9, Zenon DEF MoveOn
  <2>2. \A k \in Job : /\ state[k] >= 8 => state'[k] >= 8
                       /\ state[k] >= 4 => state'[k] >= 4
    BY <2>1 DEF TypeOK
  <2>3. QED
    BY <1>9, <2>2, Zenon DEF MoveOn
<1>10. CASE Reconcile \/ Poll \/ Take
  BY <1>5, <1>10, Zenon DEF Reconcile, Poll, Take
<1>11. ASSUME NEW n \in 2..3, NEW m \in 2..3, CreateRedundant(n, m) PROVE ChainSteady
  BY <1>5, <1>11, Zenon DEF CreateRedundant
<1>12. ASSUME NEW j \in Job, NEW v \in Provider, AcceptBid(j, v) PROVE ChainSteady
  BY <1>5, <1>12, Zenon DEF AcceptBid
<1>13. ASSUME NEW j \in Job, Result(j) \/ Challenge(j) PROVE ChainSteady
  BY <1>5, <1>13, Zenon DEF Result, Challenge
<1>14. ASSUME NEW p \in Proc, NEW j \in Job, Main(p, j) PROVE ChainSteady
  BY <1>5, <1>14, Zenon DEF Main
<1>15. ASSUME NEW p \in Proc, Step(p) \/ Crash(p), ~Submit(p) PROVE ChainSteady
  <2>1. CASE ReadJob(p) \/ Decide(p) \/ UpdateReplica(p) \/ Quorum(p)
    BY <1>5, <2>1, Zenon DEF ReadJob, Decide, UpdateReplica, Quorum
  <2>2. CASE UpdateGroup(p) \/ Check(p) \/ ReconcileChain(p) \/ Record(p) \/ Crash(p)
    BY <1>5, <2>2, Zenon DEF UpdateGroup, Check, ReconcileChain, Record, Crash
  <2>3. QED
    BY <1>15, <2>1, <2>2, Zenon DEF Step
<1>16. CASE UNCHANGED vars
  BY <1>5, <1>16, Zenon DEF vars
<1> HIDE DEF ChainSteady, chainVars
<1>17. QED
  BY <1>1, <1>2, <1>3, <1>6, <1>7, <1>8, <1>9, <1>10, <1>11, <1>12, <1>13, <1>14, <1>15, <1>16, Zenon DEF Next

\* No step takes back a replica or forgets a missed one.
LEMMA RowStep ==
  ASSUME TypeOK, RowsSound, [Next]_vars
  PROVE  RowsSteady
<1>1. ASSUME UNCHANGED <<replica, missed>> PROVE RowsSteady
  BY <1>1, Zenon DEF RowsSteady
<1>2. ASSUME NEW p \in Proc, UpdateReplica(p) PROVE RowsSteady
  <2>1. proc[p].job \in Job /\ UNCHANGED missed
    BY <1>2, Zenon DEF UpdateReplica, TypeOK
  <2>2. CASE UNCHANGED replica
    BY <1>1, <2>1, <2>2, Zenon
  <2>3. CASE replica' = [replica EXCEPT ![proc[p].job] = provider[proc[p].job]]
    BY <2>1, <2>3, Zenon DEF RowsSteady, RowsSound, TypeOK
  <2>4. QED
    BY <1>2, <2>2, <2>3, ReplicaMoves, Zenon
<1>3. ASSUME NEW j \in Job, Challenge(j) PROVE RowsSteady
  BY <1>3, Zenon DEF Challenge, RowsSteady
<1>4. CASE Reconcile \/ Poll \/ Take
  BY <1>1, <1>4, Zenon DEF Reconcile, Poll, Take, dbVars
<1>5. ASSUME NEW n \in 2..3, NEW m \in 2..3, CreateRedundant(n, m) PROVE RowsSteady
  BY <1>1, <1>5, Zenon DEF CreateRedundant
<1>6. ASSUME NEW j \in Job, SignCreate(j) \/ SignAccept(j) \/ Result(j) \/ Revoke(j) \/ MoveOn(j) PROVE RowsSteady
  BY <1>1, <1>6, Zenon DEF SignCreate, SignAccept, Result, Revoke, MoveOn, dbVars
<1>7. ASSUME NEW j \in Job, NEW v \in Provider, AcceptBid(j, v) PROVE RowsSteady
  BY <1>1, <1>7, Zenon DEF AcceptBid, dbVars
<1>8. ASSUME NEW j \in Job, NEW h \in Hash, NEW g \in BOOLEAN, Deliver(j, h, g) PROVE RowsSteady
  BY <1>1, <1>8, Zenon DEF Deliver, dbVars
<1>9. ASSUME NEW p \in Proc, NEW j \in Job, Main(p, j) PROVE RowsSteady
  BY <1>1, <1>9, Zenon DEF Main, dbVars
<1>10. ASSUME NEW p \in Proc, Step(p) \/ Crash(p), ~UpdateReplica(p) PROVE RowsSteady
  BY <1>1, <1>10, Zenon DEF Step, Crash, ReadJob, Decide, Quorum, UpdateGroup, Check, Submit, ReconcileChain,
                     Record, dbVars
<1>11. ASSUME NEW t \in late, Land(t) PROVE RowsSteady
  BY <1>1, <1>11, Zenon DEF Land, dbVars
<1>12. CASE UNCHANGED vars
  BY <1>1, <1>12, Zenon DEF vars, dbVars
<1>13. QED
  BY <1>2, <1>3, <1>4, <1>5, <1>6, <1>7, <1>8, <1>9, <1>10, <1>11, <1>12, Zenon DEF Next
\* Two verdicts on a group are the same: its quorum is a majority, and a missing one is missing
\* for good.
LEMMA OneVerdict ==
  ASSUME TypeOK, RowsSound, group.state # None,
         NEW a \in BOOLEAN, NEW g \in Hash \cup {None}, Settles(a, g),
         NEW b \in BOOLEAN, NEW h \in Hash \cup {None}, Settles(b, h)
  PROVE  (a <=> b) /\ g = h
<1>1. group.required \in 2..3
  BY DEF RowsSound
<1>2. \A k : Votes(k) \in SUBSET Job /\ Cardinality(Votes(k)) \in Nat
  BY JobsCount, Zenon DEF Votes
<1>3. CASE a /\ b
  <2> SUFFICES ASSUME g # h PROVE FALSE
    BY <1>3, Zenon
  <2>1. Votes(g) \cap Votes(h) = {}
    BY DEF Votes
  <2>2. Cardinality(Votes(g)) + Cardinality(Votes(h)) <= Cardinality(Job)
    BY <1>2, <2>1, JobsApart, Zenon
  <2>3. Cardinality(Job) = 3
    BY JobCount, Zenon
  <2>4. Cardinality(Votes(g)) >= group.required /\ Cardinality(Votes(h)) >= group.required
    BY <1>3, Zenon DEF Settles
  <2>5. QED
    BY <1>1, <1>2, <2>2, <2>3, <2>4
<1>4. CASE a /\ ~b
  <2>1. Cardinality(Votes(g)) >= group.required /\ Cardinality(Votes(g)) < group.required
    BY <1>4, Zenon DEF Settles
  <2>2. QED
    BY <1>1, <1>2, <2>1
<1>5. CASE ~a /\ b
  <2>1. Cardinality(Votes(h)) >= group.required /\ Cardinality(Votes(h)) < group.required
    BY <1>5, Zenon DEF Settles
  <2>2. QED
    BY <1>1, <1>2, <2>1
<1>6. CASE ~a /\ ~b
  BY <1>6, Zenon DEF Settles
<1>7. QED
  BY <1>3, <1>4, <1>5, <1>6, Zenon

\* No step changes the terms of a group or its final verdict.
LEMMA GroupStep ==
  ASSUME TypeOK, RowsSound, VerdictsSound, [Next]_vars
  PROVE  GroupSteady
<1>1. ASSUME UNCHANGED group PROVE GroupSteady
  BY <1>1, Zenon DEF GroupSteady
<1>2. ASSUME NEW p \in Proc, UpdateGroup(p) PROVE GroupSteady
  <2>1. /\ group' \in Groups /\ group'.hash = proc[p].hash
        /\ group'.state = IF proc[p].passed THEN "PASSED" ELSE "DISPUTED"
        /\ group'.replicas = group.replicas /\ group'.required = group.required
    BY <1>2, GroupMoves, Zenon
  <2>2. ASSUME group.state \in {"PASSED", "DISPUTED"} PROVE group' = group
    <3>1. Settles(group.state = "PASSED", group.hash) /\ Settles(proc[p].passed, proc[p].hash)
      BY <1>2, <2>2, Zenon DEF VerdictsSound, UpdateGroup
    <3>2. group \in Groups /\ group.hash \in Hash \cup {None} /\ group.state # None
      BY <2>2, Zenon DEF TypeOK, Groups, None
    <3>3. proc[p].passed \in BOOLEAN /\ proc[p].hash \in Hash \cup {None}
      BY Zenon DEF TypeOK, Calls
    <3>4. (group.state = "PASSED" <=> proc[p].passed) /\ group.hash = proc[p].hash
      BY <3>1, <3>2, <3>3, OneVerdict, Zenon
    <3>5. group'.state = group.state /\ group'.hash = group.hash
      BY <2>1, <2>2, <3>4, Zenon
    <3>6. QED
      BY <2>1, <3>2, <3>5 DEF Groups
  <2>3. QED
    BY <2>1, <2>2, Zenon DEF GroupSteady, None
<1>3. ASSUME NEW n \in 2..3, NEW m \in 2..3, CreateRedundant(n, m) PROVE GroupSteady
  BY <1>3, Zenon DEF CreateRedundant, GroupSteady, None
<1>4. CASE Reconcile \/ Poll \/ Take
  BY <1>1, <1>4, Zenon DEF Reconcile, Poll, Take, dbVars
<1>5. ASSUME NEW j \in Job, \/ SignCreate(j) \/ SignAccept(j) \/ Result(j) \/ Challenge(j)
                            \/ Revoke(j) \/ MoveOn(j)
      PROVE  GroupSteady
  BY <1>1, <1>5, Zenon DEF SignCreate, SignAccept, Result, Challenge, Revoke, MoveOn, dbVars
<1>6. ASSUME NEW j \in Job, NEW v \in Provider, AcceptBid(j, v) PROVE GroupSteady
  BY <1>1, <1>6, Zenon DEF AcceptBid, dbVars
<1>7. ASSUME NEW j \in Job, NEW h \in Hash, NEW g \in BOOLEAN, Deliver(j, h, g) PROVE GroupSteady
  BY <1>1, <1>7, Zenon DEF Deliver, dbVars
<1>8. ASSUME NEW p \in Proc, NEW j \in Job, Main(p, j) PROVE GroupSteady
  BY <1>1, <1>8, Zenon DEF Main, dbVars
<1>9. ASSUME NEW p \in Proc, Step(p) \/ Crash(p), ~UpdateGroup(p) PROVE GroupSteady
  BY <1>1, <1>9, Zenon DEF Step, Crash, ReadJob, Decide, UpdateReplica, Quorum, Check, Submit,
                    ReconcileChain, Record, dbVars
<1>10. ASSUME NEW t \in late, Land(t) PROVE GroupSteady
  BY <1>1, <1>10, Zenon DEF Land, dbVars
<1>11. CASE UNCHANGED vars
  BY <1>1, <1>11, Zenon DEF vars, dbVars
<1>12. QED
  BY <1>2, <1>3, <1>4, <1>5, <1>6, <1>7, <1>8, <1>9, <1>10, <1>11, Zenon DEF Next

\* What the invariant's operators say after the step.
VotesNext(h) == {j \in Job : replica'[j] # None /\ hash'[j] = h}
SettlesNext(b, h) ==
  IF b THEN Cardinality(VotesNext(h)) >= group'.required
  ELSE /\ h = None /\ Cardinality(Completed') >= group'.replicas
       /\ \A g \in Hash \cup {None} : Cardinality(VotesNext(g)) < group'.required
InQuorumNext(j) == replica'[j] # None /\ Cardinality(VotesNext(hash'[j])) >= group'.required
CauseNext(j) ==
  \/ ~good'[j] \/ ~auth'[j]
  \/ j \in missed'
  \/ group'.state = "DISPUTED"
  \/ group'.state = "PASSED" /\ group'.hash # hash'[j]

Steady == ChainSteady /\ RowsSteady /\ GroupSteady

\* Votes are not lost.
LEMMA VotesStay ==
  ASSUME TypeOK, RowsSound, Steady
  PROVE  /\ Completed \subseteq Completed' /\ Completed' \in SUBSET Job
         /\ \A h : /\ Votes(h) \subseteq VotesNext(h) /\ VotesNext(h) \in SUBSET Job
                   /\ Cardinality(Votes(h)) \in Nat /\ Cardinality(VotesNext(h)) \in Nat
                   /\ Cardinality(Votes(h)) <= Cardinality(VotesNext(h))
<1>1. Completed \subseteq Completed' /\ Completed' \in SUBSET Job
  BY Zenon DEF Completed, Steady, RowsSteady
<1>2. ASSUME NEW h PROVE /\ Votes(h) \subseteq VotesNext(h) /\ VotesNext(h) \in SUBSET Job
  BY Zenon DEF Votes, VotesNext, Steady, RowsSteady, ChainSteady, RowsSound
<1>3. ASSUME NEW h PROVE /\ Cardinality(Votes(h)) \in Nat /\ Cardinality(VotesNext(h)) \in Nat
                         /\ Cardinality(Votes(h)) <= Cardinality(VotesNext(h))
  BY <1>2, JobsCount, Zenon
<1>4. QED
  BY <1>1, <1>2, <1>3, Zenon

\* A cause, a quorum and a verdict stay.
LEMMA CauseStays ==
  ASSUME TypeOK, Steady, NEW j \in Job, state[j] >= 8, Cause(j)
  PROVE  CauseNext(j)
BY Zenon DEF Steady, ChainSteady, RowsSteady, GroupSteady, Cause, CauseNext

\* A job in a quorum stays in it.
LEMMA QuorumStays ==
  ASSUME TypeOK, RowsSound, Steady, NEW j \in Job, InQuorum(j)
  PROVE  InQuorumNext(j)
<1>1. replica[j] # None /\ Cardinality(Votes(hash[j])) >= group.required
  BY Zenon DEF InQuorum
<1>2. group'.required = group.required /\ group.required \in Nat
  BY <1>1, RowHasGroup DEF Steady, GroupSteady, RowsSound
<1>3. replica'[j] # None /\ hash'[j] = hash[j]
  BY <1>1, Zenon DEF RowsSound, Steady, RowsSteady, ChainSteady
<1>4. /\ Cardinality(Votes(hash[j])) \in Nat /\ Cardinality(VotesNext(hash[j])) \in Nat
      /\ Cardinality(Votes(hash[j])) <= Cardinality(VotesNext(hash[j]))
  BY VotesStay, Zenon
<1>5. QED
  BY <1>1, <1>2, <1>3, <1>4, SMTT(20) DEF InQuorumNext

\* A group whose verdict is settled stays so.
LEMMA VerdictStays ==
  ASSUME TypeOK, RowsSound, RowsSound', Steady, group.state # None,
         NEW b \in BOOLEAN, NEW h \in Hash \cup {None}, Settles(b, h)
  PROVE  SettlesNext(b, h)
<1>1. /\ group'.required = group.required /\ group.required \in Nat
      /\ group'.replicas = group.replicas /\ group.replicas \in 2..3
  BY DEF Steady, GroupSteady, RowsSound
<1>2. CASE b
  <2>1. /\ Cardinality(Votes(h)) \in Nat /\ Cardinality(VotesNext(h)) \in Nat
        /\ Cardinality(Votes(h)) <= Cardinality(VotesNext(h))
    BY VotesStay, Zenon
  <2>2. QED
    BY <1>1, <1>2, <2>1 DEF Settles, SettlesNext
<1>3. CASE ~b
  <2>1. /\ h = None /\ Cardinality(Completed) >= group.replicas
        /\ \A g \in Hash \cup {None} : Cardinality(Votes(g)) < group.required
    BY <1>3, Zenon DEF Settles
  <2>2. PICK n \in Int : n = group.replicas
    BY <1>1
  <2>3. IsFiniteSet(1..n) /\ Cardinality(1..n) = IF 1 > n THEN 0 ELSE n - 1 + 1
    BY FS_Interval
  <2>4. Cardinality(1..n) = n /\ 1..n \in SUBSET Job
    BY <1>1, <2>2, <2>3, SMTT(20) DEF Job
  <2>5. Completed' \subseteq 1..n
    BY <1>1, <2>2 DEF Completed, RowsSound
  <2>6. Completed \subseteq Completed'
    BY VotesStay, Zenon
  <2>7. Completed = 1..n
    <3>1. Completed \in SUBSET (1..n)
      BY <2>5, <2>6, Zenon
    <3>2. Cardinality(Completed) \in Nat /\ Cardinality(Completed) <= n
          /\ (Cardinality(Completed) = n => Completed = 1..n)
      BY <2>4, <3>1, JobsCount, ZenonT(60)
    <3>3. QED
      BY <2>1, <2>2, <3>2
  <2>8. Completed' = Completed
    BY <2>5, <2>6, <2>7, Zenon
  <2>9. ASSUME NEW g PROVE VotesNext(g) = Votes(g)
    <3>1. \A j \in Job : replica'[j] # None <=> replica[j] # None
      BY <2>8, Zenon DEF Completed
    <3>2. \A j \in Job : replica[j] # None => hash'[j] = hash[j]
      BY Zenon DEF RowsSound, Steady, ChainSteady
    <3>3. QED
      BY <3>1, <3>2, Zenon DEF VotesNext, Votes
  <2>10. QED
    BY <1>1, <1>3, <2>1, <2>8, <2>9, Zenon DEF SettlesNext
<1>4. QED
  BY <1>2, <1>3, Zenon
-------------------------------------------------------------------------------
(* The rows of a group. *)

\* A step that fills no row, writes no group, and assigns no job.
RowsAside ==
  /\ UNCHANGED <<replica, group>>
  /\ \A j \in Job : (state'[j] # 0 => state[j] # 0) /\ (state'[j] >= 4 => state[j] >= 4)

\* Steps that leave the rows alone keep them sound.
LEMMA RowsKept ==
  ASSUME TypeOK, RowsSound, Steady, RowsAside
  PROVE  RowsSound'
<1>1. /\ group'.state # None => /\ group'.required \in 2..group'.replicas /\ group'.replicas \in 2..3
      /\ group'.state = None => group'.replicas = 0
  BY Zenon DEF RowsSound, RowsAside
<1>2. policy' = "REDUNDANT" => \A j \in Job : state'[j] # 0 => j \in 1..group'.replicas
  BY Zenon DEF RowsSound, RowsAside, Steady, ChainSteady
<1>3. \A j \in Job : state'[j] >= 4 => provider'[j] # None
  BY SMTT(20) DEF RowsSound, RowsAside, Steady, ChainSteady
<1>4. ASSUME NEW j \in Job, replica'[j] # None
      PROVE  /\ policy' = "REDUNDANT" /\ state'[j] >= 8 /\ good'[j] /\ replica'[j] = provider'[j]
             /\ \A i \in Job : replica'[i] = replica'[j] => i = j
  <2>1. /\ replica' = replica /\ policy = "REDUNDANT" /\ state[j] >= 8 /\ good[j]
        /\ replica[j] = provider[j] /\ \A i \in Job : replica[i] = replica[j] => i = j
    BY <1>4, Zenon DEF RowsSound, RowsAside
  <2>2. state[j] >= 4
    BY <2>1 DEF TypeOK, States
  <2>3. QED
    BY <2>1, <2>2, Zenon DEF Steady, ChainSteady
<1>5. QED
  BY <1>1, <1>2, <1>3, <1>4, Zenon DEF RowsSound

\* Only creation, signatures and the updates of the rows concern the rows.
LEMMA AsideStep ==
  ASSUME TypeOK, [Next]_vars
  PROVE  \/ RowsAside
         \/ \E n, m \in 2..3 : CreateRedundant(n, m)
         \/ \E j \in Job : SignCreate(j) \/ SignAccept(j)
         \/ \E p \in Proc : UpdateReplica(p) \/ UpdateGroup(p)
<1>1. ASSUME UNCHANGED <<replica, group, state>> PROVE RowsAside
  BY <1>1, Zenon DEF RowsAside
<1>2. ASSUME NEW j \in Job, NEW b \in BOOLEAN, Verified(j, b), UNCHANGED <<replica, group>> PROVE RowsAside
  BY <1>2, VerifiedMoves, SMTT(30) DEF RowsAside
<1>3. CASE Reconcile \/ Poll \/ Take
  BY <1>1, <1>3, Zenon DEF Reconcile, Poll, Take, dbVars, chainVars
<1>4. ASSUME NEW j \in Job, Result(j) \/ Challenge(j) \/ Revoke(j) PROVE RowsAside
  BY <1>1, <1>4, Zenon DEF Result, Challenge, Revoke, dbVars, chainVars
<1>5. ASSUME NEW j \in Job, MoveOn(j) PROVE RowsAside
  <2>1. PICK m \in {<<8, 11>>, <<9, 13>>, <<13, 9>>, <<12, 14>>} :
           state[j] = m[1] /\ state' = [state EXCEPT ![j] = m[2]]
    BY <1>5, Zenon DEF MoveOn
  <2>2. \A k \in Job : (state'[k] # 0 => state[k] # 0) /\ (state'[k] >= 4 => state[k] >= 4)
    BY <2>1, SMTT(20) DEF TypeOK
  <2>3. QED
    BY <1>5, <2>2, Zenon DEF MoveOn, RowsAside, dbVars
<1>6. ASSUME NEW j \in Job, NEW v \in Provider, AcceptBid(j, v) PROVE RowsAside
  BY <1>1, <1>6, Zenon DEF AcceptBid, dbVars, chainVars
<1>7. ASSUME NEW j \in Job, NEW h \in Hash, NEW g \in BOOLEAN, Deliver(j, h, g) PROVE RowsAside
  BY <1>7 DEF Deliver, RowsAside, dbVars, TypeOK
<1>8. ASSUME NEW p \in Proc, NEW j \in Job, Main(p, j) PROVE RowsAside
  BY <1>1, <1>8, Zenon DEF Main, dbVars, chainVars
<1>9. ASSUME NEW p \in Proc, Submit(p) PROVE RowsAside
  <2>1. proc[p].job \in Job /\ proc[p].passed \in BOOLEAN /\ UNCHANGED <<replica, group>>
    BY <1>9, Zenon DEF Submit, TypeOK, Calls, dbVars
  <2>2. QED
    BY <1>1, <1>2, <1>9, <2>1, SubmitMoves, Zenon
<1>10. ASSUME NEW p \in Proc, Step(p) \/ Crash(p), ~UpdateReplica(p), ~UpdateGroup(p), ~Submit(p)
       PROVE  RowsAside
  BY <1>1, <1>10, Zenon DEF Step, Crash, ReadJob, Decide, Quorum, Check, ReconcileChain, Record, dbVars, chainVars
<1>11. ASSUME NEW t \in late, Land(t) PROVE RowsAside
  <2>1. t[1] \in Job /\ t[2] \in BOOLEAN
    BY Zenon DEF TypeOK
  <2>2. QED
    BY <1>1, <1>2, <1>11, <2>1, Zenon DEF Land, dbVars
<1>12. CASE UNCHANGED vars
  BY <1>1, <1>12, Zenon DEF vars, dbVars, chainVars
<1>13. QED
  BY <1>3, <1>4, <1>5, <1>6, <1>7, <1>8, <1>9, <1>10, <1>11, <1>12, Zenon DEF Next

\* Every step keeps the rows sound.
LEMMA RowsStep ==
  ASSUME TypeOK, RowsSound, VerdictsSound, CallsKnow, Steady, [Next]_vars
  PROVE  RowsSound'
<1> DEFINE Numbers == /\ group'.state # None => /\ group'.required \in 2..group'.replicas
                                                /\ group'.replicas \in 2..3
                      /\ group'.state = None => group'.replicas = 0
           Jobs == /\ policy' = "REDUNDANT" => \A j \in Job : state'[j] # 0 => j \in 1..group'.replicas
                   /\ \A j \in Job : state'[j] >= 4 => provider'[j] # None
           Rows == \A j \in Job : replica'[j] # None =>
                     /\ policy' = "REDUNDANT" /\ state'[j] >= 8 /\ good'[j] /\ replica'[j] = provider'[j]
                     /\ \A i \in Job : replica'[i] = replica'[j] => i = j
<1>0. Numbers /\ Jobs /\ Rows => RowsSound'
  BY Zenon DEF RowsSound
<1>a. ASSUME UNCHANGED replica PROVE Rows
  <2> SUFFICES ASSUME NEW j \in Job, replica'[j] # None
               PROVE  /\ policy' = "REDUNDANT" /\ state'[j] >= 8 /\ good'[j] /\ replica'[j] = provider'[j]
                      /\ \A i \in Job : replica'[i] = replica'[j] => i = j
    BY SMTT(20)
  <2>1. /\ replica' = replica /\ policy = "REDUNDANT" /\ state[j] >= 8 /\ good[j]
        /\ replica[j] = provider[j] /\ \A i \in Job : replica[i] = replica[j] => i = j
    BY <1>a, SMTT(20) DEF RowsSound
  <2>2. state[j] >= 4
    BY <2>1, SMTT(20) DEF TypeOK, States
  <2>3. QED
    BY <2>1, <2>2, Zenon DEF Steady, ChainSteady
<1>1. ASSUME NEW n \in 2..3, NEW m \in 2..3, CreateRedundant(n, m) PROVE RowsSound'
  <2>1. Numbers
    BY <1>1, SMTT(20) DEF CreateRedundant, None
  <2>2. \A j \in Job : state[j] = 0
    BY <1>1, SMTT(20) DEF CreateRedundant, RowsSound, Job
  <2>3. Jobs
    BY <1>1, <2>2, SMTT(30) DEF CreateRedundant, chainVars, TypeOK
  <2>4. QED
    BY <1>0, <1>a, <1>1, <2>1, <2>3, Zenon DEF CreateRedundant
<1>2. ASSUME NEW j \in Job, SignCreate(j) PROVE RowsSound'
  <2>1. Numbers /\ UNCHANGED replica
    BY <1>2, ZenonT(60) DEF SignCreate, dbVars, RowsSound
  <2>2. policy = "REDUNDANT" => j \in 1..group.replicas
    BY <1>2, SMTT(20) DEF SignCreate, TypeOK, Groups, Job
  <2>3. Jobs
    BY <1>2, <2>2, SMTT(30) DEF SignCreate, dbVars, RowsSound, TypeOK
  <2>4. QED
    BY <1>0, <1>a, <2>1, <2>3, Zenon
<1>3. ASSUME NEW j \in Job, SignAccept(j) PROVE RowsSound'
  <2>1. Numbers /\ UNCHANGED replica
    BY <1>3, Zenon DEF SignAccept, dbVars, RowsSound
  <2>2. Jobs
    BY <1>3 DEF SignAccept, dbVars, RowsSound, TypeOK
  <2>3. QED
    BY <1>0, <1>a, <2>1, <2>2, Zenon
<1>4. ASSUME NEW p \in Proc, UpdateReplica(p) PROVE RowsSound'
  <2>1. UNCHANGED <<chainVars, group>>
    BY <1>4, Zenon DEF UpdateReplica
  <2>2. Numbers /\ Jobs
    BY <2>1, Zenon DEF chainVars, RowsSound
  <2>3. PICK j \in Job : j = proc[p].job
    BY <1>4, Zenon DEF UpdateReplica, TypeOK
  <2>4. policy = "REDUNDANT" /\ good[j] /\ state[j] >= 8
    BY <1>4, <2>3, Zenon DEF UpdateReplica, VerdictsSound, CallsKnow
  <2>5. CASE UNCHANGED replica
    BY <1>0, <1>a, <2>2, <2>5, Zenon
  <2>6. CASE /\ replica' = [replica EXCEPT ![j] = provider[j]]
             /\ \A s \in Job \ {j} : replica[s] # provider[j]
    <3>1. Rows
      BY <2>1, <2>4, <2>6, SMTT(30) DEF chainVars, RowsSound, TypeOK
    <3>2. QED
      BY <1>0, <2>2, <3>1, ZenonT(60)
  <2>7. QED
    BY <1>4, <2>3, <2>5, <2>6, ReplicaMoves, Zenon
<1>5. ASSUME NEW p \in Proc, UpdateGroup(p) PROVE RowsSound'
  <2>1. proc[p].job \in Job /\ replica[proc[p].job] # None
    BY <1>5, Zenon DEF UpdateGroup, VerdictsSound, TypeOK
  <2>2. group.state # None
    BY <2>1, RowHasGroup, Zenon
  <2>3. Numbers
    BY <2>2, Zenon DEF Steady, GroupSteady, RowsSound
  <2>4. Jobs
    BY <1>5, <2>2, Zenon DEF UpdateGroup, chainVars, Steady, GroupSteady, RowsSound
  <2>5. QED
    BY <1>0, <1>a, <1>5, <2>3, <2>4, Zenon DEF UpdateGroup
<1>6. CASE RowsAside
  BY <1>6, RowsKept, Zenon
<1>7. QED
  BY <1>1, <1>2, <1>3, <1>4, <1>5, <1>6, AsideStep, Zenon
-------------------------------------------------------------------------------
(* The calls. *)

\* What a call saw of its job is still so; what it decided has a cause or a quorum.
SawNext(p) ==
  /\ proc'[p].at \notin {"idle", "read"} => state'[proc'[p].job] >= 8
  /\ proc'[p].at \notin {"idle", "read"} /\ proc'[p].seen # 8 =>
       outcome'[proc'[p].job] = Verdict(proc'[p].seen = 9)
MadeNext(p) ==
  proc'[p].at \in {"reconcile", "record"} => outcome'[proc'[p].job] = Verdict(proc'[p].passed)
FailsNext(p) ==
  proc'[p].at \in {"check", "submit"} /\ ~proc'[p].passed => CauseNext(proc'[p].job)
ComparesNext(p) ==
  /\ proc'[p].at \in {"replica", "quorum", "group"} => policy' = "REDUNDANT"
  /\ proc'[p].at = "replica" => good'[proc'[p].job]
  /\ proc'[p].at \in {"quorum", "group"} => replica'[proc'[p].job] # None
  /\ proc'[p].at = "group" => SettlesNext(proc'[p].passed, proc'[p].hash)
PassesNext(p) ==
  policy' = "REDUNDANT" /\ proc'[p].at \in {"check", "submit"} /\ proc'[p].passed =>
    InQuorumNext(proc'[p].job)
CallNext(p) == SawNext(p) /\ MadeNext(p) /\ FailsNext(p) /\ ComparesNext(p) /\ PassesNext(p)

CallInv == TypeOK /\ StateTells /\ CallsKnow /\ FailuresHaveCause /\ RowsSound /\ VerdictsSound /\ PassesSound

\* A call that is over, or begins, claims nothing.
LEMMA CallFresh ==
  ASSUME NEW p \in Proc, proc'[p].at \in {"idle", "read"}
  PROVE  CallNext(p)
BY Zenon DEF CallNext, SawNext, MadeNext, FailsNext, ComparesNext, PassesNext

\* What a call saw of its job stays true while it is under way.
LEMMA SawStays ==
  ASSUME CallInv, Steady, NEW p \in Proc, proc[p].at \notin {"idle", "read"},
         proc'[p].job = proc[p].job, proc'[p].seen = proc[p].seen
  PROVE  SawNext(p)
<1>1. proc[p].job \in Job
  BY Zenon DEF CallInv, TypeOK
<1>2. /\ state[proc[p].job] >= 8
      /\ proc[p].seen # 8 => outcome[proc[p].job] = Verdict(proc[p].seen = 9)
  BY Zenon DEF CallInv, CallsKnow
<1>3. state'[proc[p].job] >= 8
  BY <1>1, <1>2, Zenon DEF Steady, ChainSteady
<1>4. proc[p].seen # 8 => outcome'[proc[p].job] = outcome[proc[p].job]
  BY <1>1, <1>2, Zenon DEF Steady, ChainSteady, Verdict, None
<1>5. QED
  BY <1>2, <1>3, <1>4, Zenon DEF SawNext, Verdict

\* What a call decided stays, also when it moves on with the decision.
LEMMA MadeStays ==
  ASSUME CallInv, Steady, NEW p \in Proc, proc[p].at \in {"reconcile", "record"},
         proc'[p].job = proc[p].job, proc'[p].passed <=> proc[p].passed
  PROVE  MadeNext(p)
<1>1. proc[p].job \in Job
  BY Zenon DEF CallInv, TypeOK
<1>2. outcome[proc[p].job] = Verdict(proc[p].passed)
  BY Zenon DEF CallInv, CallsKnow
<1>3. outcome'[proc[p].job] = outcome[proc[p].job]
  BY <1>1, <1>2, Zenon DEF Steady, ChainSteady, Verdict, None
<1>4. QED
  BY <1>2, <1>3, Zenon DEF MadeNext, Verdict

\* The grounds of a decision stay true until it is sent.
LEMMA DecisionStays ==
  ASSUME CallInv, Steady, NEW p \in Proc, proc[p].at \in {"check", "submit"},
         proc'[p].job = proc[p].job, proc'[p].passed <=> proc[p].passed
  PROVE  FailsNext(p) /\ PassesNext(p)
<1>1. proc[p].job \in Job /\ state[proc[p].job] >= 8
  BY Zenon DEF CallInv, TypeOK, CallsKnow
<1>2. FailsNext(p)
  <2>1. ~proc[p].passed => Cause(proc[p].job)
    BY Zenon DEF CallInv, FailuresHaveCause
  <2>2. QED
    BY <1>1, <2>1, CauseStays, Zenon DEF FailsNext, CallInv
<1>3. PassesNext(p)
  <2>1. policy = "REDUNDANT" /\ proc[p].passed => InQuorum(proc[p].job)
    BY Zenon DEF CallInv, PassesSound
  <2>2. QED
    BY <1>1, <2>1, QuorumStays, Zenon DEF PassesNext, CallInv, Steady, ChainSteady
<1>4. QED
  BY <1>2, <1>3, Zenon

\* A call that does not move.
LEMMA CallStays ==
  ASSUME CallInv, Steady, RowsSound', NEW p \in Proc, proc'[p] = proc[p]
  PROVE  CallNext(p)
<1>1. CASE proc[p].at \in {"idle", "read"}
  BY <1>1, CallFresh, Zenon
<1>2. CASE proc[p].at \notin {"idle", "read"}
  <2>0. proc[p].job \in Job /\ proc[p] \in Calls /\ state[proc[p].job] >= 8
    BY <1>2, Zenon DEF CallInv, TypeOK, CallsKnow
  <2>1. SawNext(p)
    BY <1>2, SawStays, Zenon
  <2>2. MadeNext(p)
    <3>1. CASE proc[p].at \in {"reconcile", "record"}
      BY <3>1, MadeStays, Zenon
    <3>2. CASE proc[p].at \notin {"reconcile", "record"}
      BY <3>2, Zenon DEF MadeNext
    <3>3. QED
      BY <3>1, <3>2, Zenon
  <2>3. FailsNext(p) /\ PassesNext(p)
    <3>1. CASE proc[p].at \in {"check", "submit"}
      BY <3>1, DecisionStays, Zenon
    <3>2. CASE proc[p].at \notin {"check", "submit"}
      BY <3>2, Zenon DEF FailsNext, PassesNext
    <3>3. QED
      BY <3>1, <3>2, Zenon
  <2>4. ComparesNext(p)
    <3>1. proc[p].at \in {"replica", "quorum", "group"} => policy' = "REDUNDANT"
      BY Zenon DEF CallInv, VerdictsSound, Steady, ChainSteady
    <3>2. proc[p].at = "replica" => good'[proc[p].job]
      BY <2>0, Zenon DEF CallInv, VerdictsSound, Steady, ChainSteady
    <3>3. proc[p].at \in {"quorum", "group"} => replica'[proc[p].job] # None
      BY <2>0, Zenon DEF CallInv, VerdictsSound, Steady, RowsSteady
    <3>4. proc[p].at = "group" => SettlesNext(proc[p].passed, proc[p].hash)
      <4> SUFFICES ASSUME proc[p].at = "group" PROVE SettlesNext(proc[p].passed, proc[p].hash)
        BY Zenon
      <4>1. replica[proc[p].job] # None /\ Settles(proc[p].passed, proc[p].hash)
        BY Zenon DEF CallInv, VerdictsSound
      <4>2. group.state # None
        BY <2>0, <4>1, RowHasGroup, Zenon DEF CallInv
      <4>3. proc[p].passed \in BOOLEAN /\ proc[p].hash \in Hash \cup {None}
        BY <2>0, Zenon DEF Calls
      <4>4. QED
        BY <4>1, <4>2, <4>3, VerdictStays, Zenon DEF CallInv
    <3>5. QED
      BY <3>1, <3>2, <3>3, <3>4, Zenon DEF ComparesNext
  <2>5. QED
    BY <2>1, <2>2, <2>3, <2>4, Zenon DEF CallNext
<1>3. QED
  BY <1>1, <1>2, Zenon

\* The call that takes a step.
LEMMA CallSteps ==
  ASSUME CallInv, Steady, RowsSound', NEW p \in Proc, Step(p) \/ Crash(p)
  PROVE  CallNext(p)
<1>0. TypeOK /\ StateTells /\ CallsKnow /\ FailuresHaveCause /\ RowsSound /\ VerdictsSound /\ PassesSound
  BY Zenon DEF CallInv
<1>a. ASSUME Ends(p) PROVE CallNext(p)
  BY <1>a, CallFresh, Zenon DEF Ends
<1>b. proc[p].at # "idle" => proc[p].job \in Job
  BY <1>0, Zenon DEF TypeOK
<1>c. ASSUME NEW at, GoesOn(p, at), proc[p].at \notin {"idle", "read"} PROVE SawNext(p)
  BY <1>c, SawStays, Zenon DEF GoesOn
<1>1. CASE ReadJob(p)
  <2>1. CASE /\ proc'[p].at = "decide" /\ proc'[p].job = proc[p].job
             /\ proc'[p].seen = state[proc[p].job] /\ proc'[p].seen \in {8, 9, 12}
    <3>1. proc[p].job \in Job /\ state' = state /\ outcome' = outcome
      BY <1>1, <1>b, Zenon DEF ReadJob, chainVars
    <3>2. SawNext(p)
      BY <1>0, <2>1, <3>1 DEF SawNext, StateTells, Verdict
    <3>3. QED
      BY <2>1, <3>2, Zenon DEF CallNext, MadeNext, FailsNext, ComparesNext, PassesNext
  <2>2. QED
    BY <1>0, <1>1, <1>a, <2>1, ReadMoves, Zenon
<1>2. CASE Decide(p)
  <2>0. proc[p].at = "decide" /\ proc[p].job \in Job /\ state[proc[p].job] >= 8
    BY <1>0, <1>2, <1>b, Zenon DEF Decide, CallsKnow
  <2>u. UNCHANGED <<chainVars, dbVars>>
    BY <1>2, Zenon DEF Decide
  <2>1. CASE GoesOn(p, "replica") /\ good[proc[p].job] /\ policy = "REDUNDANT"
    <3>1. SawNext(p)
      BY <1>c, <2>0, <2>1, Zenon
    <3>2. ComparesNext(p)
      BY <2>1, <2>u, Zenon DEF ComparesNext, GoesOn, chainVars
    <3>3. QED
      BY <2>1, <3>1, <3>2, Zenon DEF CallNext, MadeNext, FailsNext, PassesNext, GoesOn
  <2>2. CASE /\ GoesOn(p, "check")
             /\ proc'[p].passed => policy # "REDUNDANT"
             /\ ~proc'[p].passed => \/ ~good[proc[p].job] \/ ~auth[proc[p].job]
                                    \/ challenge[proc[p].job] = "failed"
    <3>1. SawNext(p)
      BY <1>c, <2>0, <2>2, Zenon
    <3>2. FailsNext(p)
      BY <1>0, <2>0, <2>2, <2>u, Zenon DEF FailsNext, CauseNext, FailuresHaveCause, GoesOn, chainVars, dbVars
    <3>3. PassesNext(p)
      BY <2>2, <2>u, Zenon DEF PassesNext, chainVars
    <3>4. QED
      BY <2>2, <3>1, <3>2, <3>3, Zenon DEF CallNext, MadeNext, ComparesNext, GoesOn
  <2>3. QED
    BY <1>0, <1>2, <1>a, <2>1, <2>2, DecideMoves, Zenon
<1>3. CASE UpdateReplica(p)
  <2>0. proc[p].at = "replica" /\ proc[p].job \in Job
    BY <1>3, <1>b, Zenon DEF UpdateReplica
  <2>1. CASE GoesOn(p, "quorum") /\ replica' = [replica EXCEPT ![proc[p].job] = provider[proc[p].job]]
    <3>1. SawNext(p)
      BY <1>c, <2>0, <2>1, Zenon
    <3>2. state[proc[p].job] >= 8 /\ policy = "REDUNDANT" /\ policy' = policy
      BY <1>0, <2>0, ZenonT(60) DEF CallsKnow, VerdictsSound, Steady, ChainSteady
    <3>3. provider[proc[p].job] # None
      BY <1>0, <2>0, <3>2, SMTT(30) DEF RowsSound, TypeOK, States
    <3>4. replica'[proc[p].job] # None
      BY <1>0, <2>0, <2>1, <3>3, ZenonT(60) DEF TypeOK
    <3>5. ComparesNext(p)
      BY <2>1, <3>2, <3>4, Zenon DEF ComparesNext, GoesOn
    <3>6. QED
      BY <2>1, <3>1, <3>5, Zenon DEF CallNext, MadeNext, FailsNext, PassesNext, GoesOn
  <2>2. QED
    BY <1>0, <1>3, <1>a, <2>1, ReplicaMoves, Zenon
<1>4. CASE Quorum(p)
  <2>0. proc[p].at = "quorum" /\ proc[p].job \in Job /\ replica[proc[p].job] # None /\ policy = "REDUNDANT"
    BY <1>0, <1>4, <1>b, Zenon DEF Quorum, VerdictsSound
  <2>1. CASE GoesOn(p, "group") /\ Settles(proc'[p].passed, proc'[p].hash)
    <3>1. SawNext(p)
      BY <1>c, <2>0, <2>1, Zenon
    <3>2. group.state # None
      BY <1>0, <2>0, RowHasGroup, Zenon
    <3>3. proc'[p].passed \in BOOLEAN /\ proc'[p].hash \in Hash \cup {None}
      BY <2>1, Zenon DEF GoesOn, Calls
    <3>4. SettlesNext(proc'[p].passed, proc'[p].hash)
      BY <1>0, <2>1, <3>2, <3>3, VerdictStays, Zenon
    <3>5. ComparesNext(p)
      BY <2>0, <2>1, <3>4, Zenon DEF ComparesNext, GoesOn, Steady, ChainSteady, RowsSteady
    <3>6. QED
      BY <2>1, <3>1, <3>5, Zenon DEF CallNext, MadeNext, FailsNext, PassesNext, GoesOn
  <2>2. QED
    BY <1>0, <1>4, <1>a, <2>1, QuorumMoves, Zenon
<1>5. CASE UpdateGroup(p)
  <2>0. /\ proc[p].at = "group" /\ proc[p].job \in Job /\ replica[proc[p].job] # None
        /\ Settles(proc[p].passed, proc[p].hash)
    BY <1>0, <1>5, <1>b, Zenon DEF UpdateGroup, VerdictsSound
  <2>1. /\ GoesOn(p, "check")
        /\ proc'[p].passed <=> proc[p].passed /\ proc[p].hash = hash[proc[p].job]
        /\ group'.hash = proc[p].hash
        /\ group'.state = IF proc[p].passed THEN "PASSED" ELSE "DISPUTED"
    BY <1>0, <1>5, GroupMoves, Zenon
  <2>2. SawNext(p)
    BY <1>c, <2>0, <2>1, Zenon
  <2>3. FailsNext(p)
    BY <1>5, <2>1, Zenon DEF FailsNext, CauseNext, GoesOn, UpdateGroup, chainVars
  <2>4. PassesNext(p)
    <3>1. proc'[p].passed => InQuorum(proc[p].job)
      BY <2>0, <2>1, Zenon DEF InQuorum, Settles
    <3>2. QED
      BY <1>0, <2>0, <2>1, <3>1, QuorumStays, Zenon DEF PassesNext, GoesOn
  <2>5. QED
    BY <2>1, <2>2, <2>3, <2>4, Zenon DEF CallNext, MadeNext, ComparesNext, GoesOn
<1>6. CASE Check(p)
  <2>0. proc[p].at = "check" /\ proc[p].job \in Job
    BY <1>6, <1>b, Zenon DEF Check
  <2>1. CASE GoesOn(p, "submit") /\ (proc'[p].passed <=> proc[p].passed)
    <3>1. SawNext(p)
      BY <1>c, <2>0, <2>1, Zenon
    <3>2. FailsNext(p) /\ PassesNext(p)
      BY <2>0, <2>1, DecisionStays, Zenon DEF GoesOn
    <3>3. QED
      BY <2>1, <3>1, <3>2, Zenon DEF CallNext, MadeNext, ComparesNext, GoesOn
  <2>2. CASE /\ GoesOn(p, "record") /\ proc[p].seen # 8
             /\ proc'[p].passed <=> proc[p].passed
             /\ (proc[p].seen = 9) <=> proc[p].passed
    <3>1. SawNext(p)
      BY <1>c, <2>0, <2>2, Zenon
    <3>2. MadeNext(p)
      BY <2>2, <3>1, Zenon DEF SawNext, MadeNext, GoesOn, Verdict
    <3>3. QED
      BY <2>2, <3>1, <3>2, Zenon DEF CallNext, FailsNext, PassesNext, ComparesNext, GoesOn
  <2>3. QED
    BY <1>0, <1>6, <1>a, <2>1, <2>2, CheckMoves, Zenon
<1>7. CASE Submit(p)
  <2>0. proc[p].at = "submit" /\ proc[p].job \in Job /\ proc[p].passed \in BOOLEAN
    BY <1>0, <1>7, <1>b, ZenonT(60) DEF Submit, TypeOK, Calls
  <2>1. CASE /\ GoesOn(p, "reconcile") /\ (proc'[p].passed <=> proc[p].passed)
             /\ Verified(proc[p].job, proc[p].passed)
    <3>1. SawNext(p)
      BY <1>c, <2>0, <2>1, Zenon
    <3>2. outcome'[proc[p].job] = Verdict(proc[p].passed)
      BY <1>0, <2>0, <2>1, VerifiedMoves, ZenonT(40)
    <3>3. MadeNext(p)
      BY <2>1, <3>2, Zenon DEF MadeNext, GoesOn, Verdict
    <3>4. QED
      BY <2>1, <3>1, <3>3, Zenon DEF CallNext, FailsNext, PassesNext, ComparesNext, GoesOn
  <2>2. QED
    BY <1>0, <1>7, <1>a, <2>1, SubmitMoves, Zenon
<1>8. CASE ReconcileChain(p)
  <2>0. proc[p].at = "reconcile" /\ Goto(p, "record")
    BY <1>8, Zenon DEF ReconcileChain
  <2>1. GoesOn(p, "record") /\ (proc'[p].passed <=> proc[p].passed)
    BY <1>0, <2>0, CallMoves, Zenon DEF Places
  <2>2. SawNext(p) /\ MadeNext(p)
    BY <1>c, <2>0, <2>1, MadeStays, Zenon DEF GoesOn
  <2>3. QED
    BY <2>1, <2>2, Zenon DEF CallNext, FailsNext, PassesNext, ComparesNext, GoesOn
<1>9. CASE Record(p) \/ Crash(p)
  BY <1>0, <1>9, <1>a, CallMoves, Zenon DEF Record, Crash
<1>10. QED
  BY <1>1, <1>2, <1>3, <1>4, <1>5, <1>6, <1>7, <1>8, <1>9, Zenon DEF Step

\* A step of one call leaves the other calls alone.
LEMMA OthersStayPut ==
  ASSUME CallInv, NEW p \in Proc, Step(p) \/ Crash(p)
  PROVE  OthersStay(p)
<1>0. TypeOK /\ RowsSound /\ VerdictsSound
  BY Zenon DEF CallInv
<1>1. CASE ReadJob(p)
  BY <1>0, <1>1, ReadMoves, Zenon DEF Ends
<1>2. CASE Decide(p) \/ UpdateReplica(p) \/ Quorum(p)
  BY <1>0, <1>2, DecideMoves, ReplicaMoves, QuorumMoves, Zenon DEF Ends, GoesOn
<1>3. CASE UpdateGroup(p) \/ Check(p) \/ Submit(p)
  BY <1>0, <1>3, GroupMoves, CheckMoves, SubmitMoves, Zenon DEF Ends, GoesOn
<1>4. CASE ReconcileChain(p) \/ Record(p) \/ Crash(p)
  BY <1>0, <1>4, CallMoves, Zenon DEF Ends, GoesOn, ReconcileChain, Record, Crash, Places
<1>5. QED
  BY <1>1, <1>2, <1>3, <1>4, Zenon DEF Step

\* Every step keeps what every call knows.
LEMMA CallsStep ==
  ASSUME CallInv, Steady, RowsSound', [Next]_vars
  PROVE  \A p \in Proc : CallNext(p)
<1>0. TypeOK
  BY Zenon DEF CallInv
<1>1. ASSUME UNCHANGED proc PROVE \A p \in Proc : CallNext(p)
  BY <1>1, CallStays, Zenon
<1>2. ASSUME NEW p \in Proc, NEW j \in Job, Begins(p, j) PROVE \A q \in Proc : CallNext(q)
  <2>1. OthersStay(p) /\ proc'[p].at = "read"
    BY <1>0, <1>2, CallBegins, Zenon
  <2>2. QED
    BY <2>1, CallFresh, CallStays, Zenon DEF OthersStay
<1>3. ASSUME NEW p \in Proc, Step(p) \/ Crash(p) PROVE \A q \in Proc : CallNext(q)
  <2>1. OthersStay(p) /\ CallNext(p)
    BY <1>3, OthersStayPut, CallSteps, Zenon
  <2>2. QED
    BY <2>1, CallStays, Zenon DEF OthersStay
<1>4. CASE Take
  <2>1. PICK j \in queue : proc' = IF receipts[j]
                                   THEN [proc EXCEPT !["daemon"] = [Idle EXCEPT !.at = "read", !.job = j]]
                                   ELSE proc
    BY <1>4, Zenon DEF Take
  <2>2. CASE receipts[j] /\ "daemon" \in Proc
    <3>1. Begins("daemon", j) /\ j \in Job
      BY <1>0, <2>1, <2>2, Zenon DEF Begins, TypeOK
    <3>2. QED
      BY <1>2, <2>2, <3>1, Zenon
  <2>3. CASE ~(receipts[j] /\ "daemon" \in Proc)
    <3>1. proc' = proc
      BY <1>0, <2>1, <2>3, Zenon DEF TypeOK
    <3>2. QED
      BY <1>1, <3>1, Zenon
  <2>4. QED
    BY <2>2, <2>3, Zenon
<1>5. ASSUME NEW p \in Proc, NEW j \in Job, Main(p, j) PROVE \A q \in Proc : CallNext(q)
  <2>1. Begins(p, j)
    BY <1>5, Zenon DEF Main, Begins
  <2>2. QED
    BY <1>2, <2>1, Zenon
<1>6. CASE Reconcile \/ Poll
  BY <1>1, <1>6, Zenon DEF Reconcile, Poll
<1>7. ASSUME NEW n \in 2..3, NEW m \in 2..3, CreateRedundant(n, m) PROVE UNCHANGED proc
  BY <1>7, Zenon DEF CreateRedundant
<1>8. ASSUME NEW j \in Job, \/ SignCreate(j) \/ SignAccept(j) \/ Result(j) \/ Challenge(j)
                            \/ Revoke(j) \/ MoveOn(j)
      PROVE  UNCHANGED proc
  BY <1>8, Zenon DEF SignCreate, SignAccept, Result, Challenge, Revoke, MoveOn
<1>9. ASSUME NEW j \in Job, NEW v \in Provider, AcceptBid(j, v) PROVE UNCHANGED proc
  BY <1>9, Zenon DEF AcceptBid
<1>10. ASSUME NEW j \in Job, NEW h \in Hash, NEW g \in BOOLEAN, Deliver(j, h, g) PROVE UNCHANGED proc
  BY <1>10, Zenon DEF Deliver
<1>11. ASSUME NEW t \in late, Land(t) PROVE UNCHANGED proc
  BY <1>11, Zenon DEF Land
<1>12. CASE UNCHANGED vars
  BY <1>1, <1>12, Zenon DEF vars
<1>13. QED
  BY <1>1, <1>3, <1>4, <1>5, <1>6, <1>7, <1>8, <1>9, <1>10, <1>11, <1>12, Zenon DEF Next

-------------------------------------------------------------------------------
(* The decisions on the chain, on their way there, and in the database. *)

\* A decision has its reason.
Backed(j, b) == IF b THEN policy = "REDUNDANT" => InQuorum(j) ELSE Cause(j)

\* The reason of a decision that a call submits, or that was sent.
LEMMA SentIsBacked ==
  ASSUME CallInv
  PROVE  /\ \A p \in Proc : proc[p].at = "submit" =>
              /\ proc[p].job \in Job /\ proc[p].passed \in BOOLEAN /\ state[proc[p].job] >= 8
              /\ Backed(proc[p].job, proc[p].passed)
         /\ \A t \in late : /\ t[1] \in Job /\ t[2] \in BOOLEAN
                            /\ Backed(t[1], t[2])
<1>1. ASSUME NEW p \in Proc, proc[p].at = "submit"
      PROVE  /\ proc[p].job \in Job /\ proc[p].passed \in BOOLEAN /\ state[proc[p].job] >= 8
             /\ Backed(proc[p].job, proc[p].passed)
  <2>1. proc[p].job \in Job /\ proc[p].passed \in BOOLEAN /\ state[proc[p].job] >= 8
    BY <1>1, Zenon DEF CallInv, TypeOK, Calls, CallsKnow
  <2>2. ~proc[p].passed => Cause(proc[p].job)
    BY <1>1, Zenon DEF CallInv, FailuresHaveCause
  <2>3. policy = "REDUNDANT" /\ proc[p].passed => InQuorum(proc[p].job)
    BY <1>1, Zenon DEF CallInv, PassesSound
  <2>4. QED
    BY <2>1, <2>2, <2>3, Zenon DEF Backed
<1>2. ASSUME NEW t \in late
      PROVE  t[1] \in Job /\ t[2] \in BOOLEAN /\ Backed(t[1], t[2])
  <2>1. t[1] \in Job /\ t[2] \in BOOLEAN /\ t = <<t[1], t[2]>>
    BY DEF CallInv, TypeOK
  <2>2. PICK j \in Job : j = t[1]
    BY <2>1, Zenon
  <2>3. CASE t[2]
    <3>1. <<j, TRUE>> \in late
      BY <2>1, <2>2, <2>3, Zenon
    <3>2. policy = "REDUNDANT" => InQuorum(j)
      BY <3>1, Zenon DEF CallInv, PassesSound
    <3>3. QED
      BY <2>1, <2>2, <2>3, <3>2, Zenon DEF Backed
  <2>4. CASE ~t[2]
    <3>1. <<j, FALSE>> \in late
      BY <2>1, <2>2, <2>4, Zenon
    <3>2. Cause(j)
      BY <3>1, Zenon DEF CallInv, FailuresHaveCause
    <3>3. QED
      BY <2>1, <2>2, <2>4, <3>2, Zenon DEF Backed
  <2>5. QED
    BY <2>1, <2>3, <2>4, Zenon
<1>3. QED
  BY <1>1, <1>2, Zenon

\* What a step may do to the decisions: none is made, or one for its reason; none is sent, or
\* one for its reason.
Decides(j, b) == Verified(j, b) /\ Backed(j, b)
Sends(j, b) == state[j] >= 8 /\ Backed(j, b)
DecisionsNext ==
  /\ outcome' = outcome \/ \E j \in Job, b \in BOOLEAN : Decides(j, b)
  /\ \A j \in Job, b \in BOOLEAN : <<j, b>> \in late' => <<j, b>> \in late \/ Sends(j, b)

\* A verdict reaches the chain only from a call that decided it.
LEMMA DecisionsStep ==
  ASSUME CallInv, [Next]_vars
  PROVE  DecisionsNext
<1>0. TypeOK
  BY Zenon DEF CallInv
<1>1. ASSUME UNCHANGED <<outcome, late>> PROVE DecisionsNext
  BY <1>1, Zenon DEF DecisionsNext
<1>2. ASSUME NEW p \in Proc, Submit(p) PROVE DecisionsNext
  <2>1. /\ proc[p].job \in Job /\ proc[p].passed \in BOOLEAN /\ state[proc[p].job] >= 8
        /\ Backed(proc[p].job, proc[p].passed)
    BY <1>2, SentIsBacked, Zenon DEF Submit
  <2>2. CASE Verified(proc[p].job, proc[p].passed) /\ UNCHANGED late
    <3>1. Decides(proc[p].job, proc[p].passed)
      BY <2>1, <2>2, Zenon DEF Decides
    <3>2. QED
      BY <2>1, <2>2, <3>1, Zenon DEF DecisionsNext
  <2>3. CASE UNCHANGED outcome /\ UNCHANGED late
    BY <2>3, Zenon DEF DecisionsNext
  <2>4. CASE UNCHANGED outcome /\ late' = late \cup {<<proc[p].job, proc[p].passed>>}
    <3>1. Sends(proc[p].job, proc[p].passed)
      BY <2>1, Zenon DEF Sends
    <3>2. QED
      BY <2>1, <2>4, <3>1, Zenon DEF DecisionsNext
  <2>5. QED
    BY <1>0, <1>2, <2>2, <2>3, <2>4, SubmitMoves, Zenon
<1>3. ASSUME NEW t \in late, Land(t) PROVE DecisionsNext
  <2>1. t[1] \in Job /\ t[2] \in BOOLEAN /\ Backed(t[1], t[2])
    BY SentIsBacked, Zenon
  <2>2. CASE Verified(t[1], t[2])
    <3>1. Decides(t[1], t[2])
      BY <2>1, <2>2, Zenon DEF Decides
    <3>2. QED
      BY <1>3, <2>1, <3>1, Zenon DEF Land, DecisionsNext
  <2>3. CASE UNCHANGED <<state, outcome>>
    BY <1>3, <2>3, Zenon DEF Land, DecisionsNext
  <2>4. QED
    BY <1>3, <2>2, <2>3, Zenon DEF Land
<1>4. CASE Reconcile \/ Poll \/ Take
  BY <1>1, <1>4, Zenon DEF Reconcile, Poll, Take, chainVars
<1>5. ASSUME NEW n \in 2..3, NEW m \in 2..3, CreateRedundant(n, m) PROVE DecisionsNext
  BY <1>1, <1>5, Zenon DEF CreateRedundant, chainVars
<1>6. ASSUME NEW j \in Job, \/ SignCreate(j) \/ SignAccept(j) \/ Result(j) \/ Challenge(j)
                            \/ Revoke(j) \/ MoveOn(j)
      PROVE  DecisionsNext
  BY <1>1, <1>6, Zenon DEF SignCreate, SignAccept, Result, Challenge, Revoke, MoveOn, chainVars
<1>7. ASSUME NEW j \in Job, NEW v \in Provider, AcceptBid(j, v) PROVE DecisionsNext
  BY <1>1, <1>7, Zenon DEF AcceptBid, chainVars
<1>8. ASSUME NEW j \in Job, NEW h \in Hash, NEW g \in BOOLEAN, Deliver(j, h, g) PROVE DecisionsNext
  BY <1>1, <1>8, Zenon DEF Deliver, chainVars
<1>9. ASSUME NEW p \in Proc, NEW j \in Job, Main(p, j) PROVE DecisionsNext
  BY <1>1, <1>9, Zenon DEF Main, chainVars
<1>10. ASSUME NEW p \in Proc, Step(p) \/ Crash(p), ~Submit(p) PROVE DecisionsNext
  BY <1>1, <1>10, Zenon DEF Step, Crash, ReadJob, Decide, UpdateReplica, Quorum, UpdateGroup, Check,
                     ReconcileChain, Record, chainVars
<1>11. CASE UNCHANGED vars
  BY <1>1, <1>11, Zenon DEF vars, chainVars
<1>12. QED
  BY <1>2, <1>3, <1>4, <1>5, <1>6, <1>7, <1>8, <1>9, <1>10, <1>11, Zenon DEF Next
\* The chain's state tells what submit_verification said.
LEMMA StateTellsStep ==
  ASSUME TypeOK, StateTells, [Next]_vars
  PROVE  StateTells'
<1>1. ASSUME UNCHANGED <<state, outcome>> PROVE StateTells'
  BY <1>1, Zenon DEF StateTells
<1>2. ASSUME NEW j \in Job, NEW b \in BOOLEAN, Verified(j, b) PROVE StateTells'
  BY <1>2, VerifiedMoves, SMTT(20) DEF StateTells, Verdict
<1>3. ASSUME NEW j \in Job, SignCreate(j) \/ SignAccept(j) PROVE StateTells'
  BY <1>3, SMTT(20) DEF SignCreate, SignAccept, StateTells, TypeOK
<1>4. ASSUME NEW j \in Job, NEW h \in Hash, NEW g \in BOOLEAN, Deliver(j, h, g) PROVE StateTells'
  BY <1>4, SMTT(20) DEF Deliver, StateTells, TypeOK
<1>5. ASSUME NEW j \in Job, MoveOn(j) PROVE StateTells'
  <2>1. PICK m \in {<<8, 11>>, <<9, 13>>, <<13, 9>>, <<12, 14>>} :
           state[j] = m[1] /\ state' = [state EXCEPT ![j] = m[2]]
    BY <1>5, Zenon DEF MoveOn
  <2>2. outcome' = outcome
    BY <1>5, Zenon DEF MoveOn
  <2>3. QED
    BY <2>1, <2>2, SMTT(30) DEF StateTells, TypeOK
<1>6. CASE Reconcile \/ Poll \/ Take
  BY <1>1, <1>6, Zenon DEF Reconcile, Poll, Take, chainVars
<1>7. ASSUME NEW n \in 2..3, NEW m \in 2..3, CreateRedundant(n, m) PROVE StateTells'
  BY <1>1, <1>7, Zenon DEF CreateRedundant, chainVars
<1>8. ASSUME NEW j \in Job, Result(j) \/ Challenge(j) \/ Revoke(j) PROVE StateTells'
  BY <1>1, <1>8, Zenon DEF Result, Challenge, Revoke, chainVars
<1>9. ASSUME NEW j \in Job, NEW v \in Provider, AcceptBid(j, v) PROVE StateTells'
  BY <1>1, <1>9, Zenon DEF AcceptBid, chainVars
<1>10. ASSUME NEW p \in Proc, NEW j \in Job, Main(p, j) PROVE StateTells'
  BY <1>1, <1>10, Zenon DEF Main, chainVars
<1>11. ASSUME NEW p \in Proc, Submit(p) PROVE StateTells'
  <2>1. proc[p].job \in Job /\ proc[p].passed \in BOOLEAN
    BY <1>11, Zenon DEF Submit, TypeOK, Calls
  <2>2. QED
    BY <1>1, <1>2, <1>11, <2>1, SubmitMoves, ZenonT(60)
<1>12. ASSUME NEW p \in Proc, Step(p) \/ Crash(p), ~Submit(p) PROVE StateTells'
  BY <1>1, <1>12, Zenon DEF Step, Crash, ReadJob, Decide, UpdateReplica, Quorum, UpdateGroup, Check,
                     ReconcileChain, Record, chainVars
<1>13. ASSUME NEW t \in late, Land(t) PROVE StateTells'
  <2>1. t[1] \in Job /\ t[2] \in BOOLEAN
    BY Zenon DEF TypeOK
  <2>2. QED
    BY <1>1, <1>2, <1>13, <2>1, Zenon DEF Land
<1>14. CASE UNCHANGED vars
  BY <1>1, <1>14, Zenon DEF vars, chainVars
<1>15. QED
  BY <1>3, <1>4, <1>5, <1>6, <1>7, <1>8, <1>9, <1>10, <1>11, <1>12, <1>13, <1>14, Zenon DEF Next

\* A decision is recorded only when it is the chain's.
LEMMA RecordStep ==
  ASSUME CallInv, RecordMatchesChain, Steady, [Next]_vars
  PROVE  RecordMatchesChain'
<1>1. ASSUME UNCHANGED record PROVE RecordMatchesChain'
  BY <1>1, Zenon DEF RecordMatchesChain, Steady, ChainSteady
<1>2. ASSUME NEW p \in Proc, Record(p) PROVE RecordMatchesChain'
  <2>1. proc[p].job \in Job /\ outcome[proc[p].job] = Verdict(proc[p].passed)
    BY <1>2, Zenon DEF Record, CallInv, TypeOK, CallsKnow
  <2>2. record' = [record EXCEPT ![proc[p].job] = outcome[proc[p].job]] /\ outcome' = outcome
    BY <1>2, <2>1, Zenon DEF Record, chainVars
  <2>3. record \in [Job -> Verdicts]
    BY Zenon DEF CallInv, TypeOK
  <2>4. QED
    BY <2>1, <2>2, <2>3, Zenon DEF RecordMatchesChain
<1>3. CASE Reconcile \/ Poll \/ Take
  BY <1>1, <1>3, Zenon DEF Reconcile, Poll, Take, dbVars
<1>4. ASSUME NEW n \in 2..3, NEW m \in 2..3, CreateRedundant(n, m) PROVE RecordMatchesChain'
  BY <1>1, <1>4, Zenon DEF CreateRedundant
<1>5. ASSUME NEW j \in Job, \/ SignCreate(j) \/ SignAccept(j) \/ Result(j) \/ Challenge(j)
                            \/ Revoke(j) \/ MoveOn(j)
      PROVE  RecordMatchesChain'
  BY <1>1, <1>5, Zenon DEF SignCreate, SignAccept, Result, Challenge, Revoke, MoveOn, dbVars
<1>6. ASSUME NEW j \in Job, NEW v \in Provider, AcceptBid(j, v) PROVE RecordMatchesChain'
  BY <1>1, <1>6, Zenon DEF AcceptBid, dbVars
<1>7. ASSUME NEW j \in Job, NEW h \in Hash, NEW g \in BOOLEAN, Deliver(j, h, g) PROVE RecordMatchesChain'
  BY <1>1, <1>7, Zenon DEF Deliver, dbVars
<1>8. ASSUME NEW p \in Proc, NEW j \in Job, Main(p, j) PROVE RecordMatchesChain'
  BY <1>1, <1>8, Zenon DEF Main, dbVars
<1>9. ASSUME NEW p \in Proc, Step(p) \/ Crash(p), ~Record(p) PROVE RecordMatchesChain'
  BY <1>1, <1>9, Zenon DEF Step, Crash, ReadJob, Decide, UpdateReplica, Quorum, UpdateGroup, Check, Submit,
                    ReconcileChain, dbVars
<1>10. ASSUME NEW t \in late, Land(t) PROVE RecordMatchesChain'
  BY <1>1, <1>10, Zenon DEF Land, dbVars
<1>11. CASE UNCHANGED vars
  BY <1>1, <1>11, Zenon DEF vars, dbVars
<1>12. QED
  BY <1>2, <1>3, <1>4, <1>5, <1>6, <1>7, <1>8, <1>9, <1>10, <1>11, Zenon DEF Next

\* A wrong answer is remembered.
LEMMA AnswerStep ==
  ASSUME CallInv, RowsSteady, [Next]_vars
  PROVE  \A j \in Job : challenge'[j] = "failed" => j \in missed'
<1> DEFINE Remembered == \A j \in Job : challenge'[j] = "failed" => j \in missed'
<1>1. ASSUME UNCHANGED challenge PROVE Remembered
  BY <1>1, Zenon DEF RowsSteady, CallInv, FailuresHaveCause
<1>2. ASSUME NEW j \in Job, Challenge(j) PROVE Remembered
  BY <1>2, ZenonT(60) DEF Challenge, CallInv, FailuresHaveCause, TypeOK
<1>3. ASSUME Reconcile \/ Poll \/ Take PROVE Remembered
  BY <1>1, <1>3, Zenon DEF Reconcile, Poll, Take, dbVars
<1>4. ASSUME NEW n \in 2..3, NEW m \in 2..3, CreateRedundant(n, m) PROVE Remembered
  BY <1>1, <1>4, Zenon DEF CreateRedundant
<1>5. ASSUME NEW j \in Job, SignCreate(j) \/ SignAccept(j) \/ Result(j) \/ Revoke(j) \/ MoveOn(j)
      PROVE  Remembered
  BY <1>1, <1>5, Zenon DEF SignCreate, SignAccept, Result, Revoke, MoveOn, dbVars
<1>6. ASSUME NEW j \in Job, NEW v \in Provider, AcceptBid(j, v) PROVE Remembered
  BY <1>1, <1>6, Zenon DEF AcceptBid, dbVars
<1>7. ASSUME NEW j \in Job, NEW h \in Hash, NEW g \in BOOLEAN, Deliver(j, h, g) PROVE Remembered
  BY <1>1, <1>7, Zenon DEF Deliver, dbVars
<1>8. ASSUME NEW p \in Proc, NEW j \in Job, Main(p, j) PROVE Remembered
  BY <1>1, <1>8, Zenon DEF Main, dbVars
<1>9. ASSUME NEW p \in Proc, Step(p) \/ Crash(p) PROVE Remembered
  BY <1>1, <1>9, Zenon DEF Step, Crash, ReadJob, Decide, UpdateReplica, Quorum, UpdateGroup, Check, Submit,
                    ReconcileChain, Record, dbVars
<1>10. ASSUME NEW t \in late, Land(t) PROVE Remembered
  BY <1>1, <1>10, Zenon DEF Land, dbVars
<1>11. ASSUME UNCHANGED vars PROVE Remembered
  BY <1>1, <1>11, Zenon DEF vars, dbVars
<1> HIDE DEF Remembered
<1>12. Remembered
  BY <1>2, <1>3, <1>4, <1>5, <1>6, <1>7, <1>8, <1>9, <1>10, <1>11, Zenon DEF Next
<1>13. QED
  BY <1>12, Zenon DEF Remembered

\* Decisions keep their reasons.
BackedNext(j, b) == IF b THEN policy' = "REDUNDANT" => InQuorumNext(j) ELSE CauseNext(j)

\* A decision that is backed stays backed.
LEMMA BackedStays ==
  ASSUME CallInv, Steady, NEW j \in Job, NEW b \in BOOLEAN, Backed(j, b), ~b => state[j] >= 8
  PROVE  BackedNext(j, b)
<1>1. CASE b
  BY <1>1, QuorumStays, Zenon DEF Backed, BackedNext, CallInv, Steady, ChainSteady
<1>2. CASE ~b
  BY <1>2, CauseStays, Zenon DEF Backed, BackedNext, CallInv
<1>3. QED
  BY <1>1, <1>2, Zenon

\* Verdicts on the chain and on their way stay backed.
LEMMA ReasonsStep ==
  ASSUME CallInv, FailureHasCause, Steady, [Next]_vars
  PROVE  /\ \A j \in Job : /\ outcome'[j] = "failed" => CauseNext(j)
                           /\ outcome'[j] = "passed" => BackedNext(j, TRUE)
         /\ \A j \in Job, b \in BOOLEAN : <<j, b>> \in late' => BackedNext(j, b) /\ (~b => state'[j] >= 8)
<1>0. TypeOK /\ DecisionsNext
  BY DecisionsStep, Zenon DEF CallInv
<1>1. ASSUME NEW j \in Job, outcome[j] # None
      PROVE  /\ outcome[j] = "failed" => CauseNext(j)
             /\ outcome[j] = "passed" => BackedNext(j, TRUE)
  <2>1. outcome[j] = "failed" => state[j] >= 8 /\ Cause(j)
    BY <1>1 DEF CallInv, StateTells, FailureHasCause, None
  <2>2. outcome[j] = "passed" => Backed(j, TRUE)
    BY Zenon DEF CallInv, PassesSound, Backed
  <2>3. QED
    BY <1>0, <2>1, <2>2, CauseStays, BackedStays, Zenon
<1>2. ASSUME NEW j \in Job
      PROVE  /\ outcome'[j] = "failed" => CauseNext(j)
             /\ outcome'[j] = "passed" => BackedNext(j, TRUE)
  <2>1. CASE outcome'[j] = outcome[j]
    BY <1>1, <2>1, Zenon DEF None
  <2>2. CASE outcome'[j] # outcome[j]
    <3>1. PICK k \in Job, b \in BOOLEAN : Decides(k, b)
      BY <1>0, <2>2, Zenon DEF DecisionsNext
    <3>2. j = k /\ state[j] = 8 /\ outcome'[j] = Verdict(b)
      BY <1>0, <2>2, <3>1, VerifiedMoves, ZenonT(60) DEF Decides
    <3>3. Backed(j, b)
      BY <3>1, <3>2, Zenon DEF Decides
    <3>4. BackedNext(j, b)
      BY <3>2, <3>3, BackedStays
    <3>5. QED
      BY <3>2, <3>4, Zenon DEF BackedNext, Verdict
  <2>3. QED
    BY <2>1, <2>2, Zenon
<1>3. ASSUME NEW j \in Job, NEW b \in BOOLEAN, <<j, b>> \in late'
      PROVE  BackedNext(j, b) /\ (~b => state'[j] >= 8)
  <2>1. Backed(j, b) /\ (~b => state[j] >= 8)
    <3>1. CASE <<j, b>> \in late
      <4>1. CASE b
        <5>1. <<j, TRUE>> \in late
          BY <3>1, <4>1, Zenon
        <5>2. QED
          BY <4>1, <5>1, Zenon DEF CallInv, PassesSound, Backed
      <4>2. CASE ~b
        <5>1. <<j, FALSE>> \in late
          BY <3>1, <4>2, Zenon
        <5>2. QED
          BY <4>2, <5>1, Zenon DEF CallInv, FailuresHaveCause, Backed
      <4>3. QED
        BY <4>1, <4>2, Zenon
    <3>2. CASE Sends(j, b)
      BY <3>2, Zenon DEF Sends
    <3>3. QED
      BY <1>0, <1>3, <3>1, <3>2, Zenon DEF DecisionsNext
  <2>2. QED
    BY <2>1, BackedStays, Zenon DEF Steady, ChainSteady
<1>4. QED
  BY <1>2, <1>3, Zenon

-------------------------------------------------------------------------------
(* The invariant, and what it shows. *)

\* Everything holds before the first job.
LEMMA VerifierInit == Init => VerifierInv
<1> SUFFICES ASSUME Init PROVE VerifierInv
  BY Zenon
<1>1. TypeOK
  <2>1. Idle \in Calls
    BY Zenon DEF Idle, Calls, Places
  <2>2. proc \in [Proc -> Calls] /\ \A p \in Proc : proc[p].at = "idle"
    BY <2>1, Zenon DEF Init, Idle
  <2>3. group \in Groups
    BY Zenon DEF Init, Groups
  <2>4. faults \in 0..MaxFaults
    BY VerifierAssumption, SMTT(20) DEF Init
  <2>5. QED
    BY <2>2, <2>3, <2>4, Zenon DEF Init, TypeOK, States, Verdicts
<1>2. /\ \A j \in Job : state[j] = 0 /\ outcome[j] = None /\ record[j] = None /\ replica[j] = None
      /\ \A j \in Job : challenge[j] = None
      /\ late = {} /\ group.state = None /\ group.replicas = 0
      /\ \A p \in Proc : proc[p].at = "idle"
  BY Zenon DEF Init, Idle
<1>3. RecordsSound /\ FailureHasCause /\ StateTells
  BY <1>1, <1>2, SMTT(20) DEF RecordsSound, RecordMatchesChain, FailureHasCause, StateTells, None
<1>4. CallsKnow /\ FailuresHaveCause
  BY <1>2, Zenon DEF CallsKnow, FailuresHaveCause, None
<1>5. RowsSound /\ VerdictsSound /\ PassesSound
  BY <1>2, SMTT(30) DEF RowsSound, VerdictsSound, PassesSound, None
<1>6. QED
  BY <1>3, <1>4, <1>5, Zenon DEF VerifierInv

\* The invariant gives what every step leaves in place.
LEMMA VerifierSteady ==
  ASSUME VerifierInv, [Next]_vars
  PROVE  CallInv /\ Steady
<1>1. CallInv
  BY Zenon DEF VerifierInv, RecordsSound, CallInv
<1>2. Steady
  BY <1>1, ChainStep, RowStep, GroupStep, Zenon DEF CallInv, Steady
<1>3. QED
  BY <1>1, <1>2, Zenon

\* Every step of the verifier, the chain and the faults keeps the invariant.
LEMMA VerifierStep ==
  ASSUME VerifierInv, [Next]_vars
  PROVE  VerifierInv'
<1>0. CallInv /\ Steady /\ RecordMatchesChain /\ FailureHasCause
  BY VerifierSteady, Zenon DEF VerifierInv, RecordsSound
<1>1. TypeOK' /\ RowsSound'
  BY <1>0, TypeStep, RowsStep, Zenon DEF CallInv
<1>2. StateTells' /\ RecordMatchesChain'
  BY <1>0, StateTellsStep, RecordStep, Zenon DEF CallInv
<1>3. \A p \in Proc : CallNext(p)
  BY <1>0, <1>1, CallsStep, Zenon
<1>4. /\ \A j \in Job : /\ outcome'[j] = "failed" => CauseNext(j)
                        /\ outcome'[j] = "passed" => BackedNext(j, TRUE)
      /\ \A j \in Job, b \in BOOLEAN : <<j, b>> \in late' => BackedNext(j, b) /\ (~b => state'[j] >= 8)
  BY <1>0, ReasonsStep, Zenon
<1>5. CallsKnow'
  BY <1>3, Zenon DEF CallsKnow, CallNext, SawNext, MadeNext
<1>6. FailureHasCause'
  BY <1>4, Zenon DEF FailureHasCause, Cause, CauseNext
<1>7. FailuresHaveCause'
  <2>1. \A p \in Proc : FailsNext(p)
    BY <1>3, Zenon DEF CallNext
  <2>2. \A j \in Job : <<j, FALSE>> \in late' => state'[j] >= 8 /\ CauseNext(j)
    BY <1>4, Zenon DEF BackedNext
  <2>3. \A j \in Job : challenge'[j] = "failed" => j \in missed'
    BY <1>0, AnswerStep, Zenon DEF Steady
  <2>4. QED
    BY <2>1, <2>2, <2>3, Zenon DEF FailuresHaveCause, FailsNext, Cause, CauseNext
<1>8. VerdictsSound'
  <2>1. \A p \in Proc : ComparesNext(p)
    BY <1>3, Zenon DEF CallNext
  <2>2. group'.state \in {"PASSED", "DISPUTED"} => SettlesNext(group'.state = "PASSED", group'.hash)
    <3> SUFFICES ASSUME group'.state \in {"PASSED", "DISPUTED"}
                 PROVE  SettlesNext(group'.state = "PASSED", group'.hash)
      BY Zenon
    <3>1. CASE group.state \in {"PASSED", "DISPUTED"}
      <4>1. group' = group /\ Settles(group.state = "PASSED", group.hash)
        BY <1>0, <3>1, Zenon DEF Steady, GroupSteady, CallInv, VerdictsSound
      <4>2. group.state # None /\ group.hash \in Hash \cup {None}
        BY <1>0, <3>1, Zenon DEF CallInv, TypeOK, Groups, None
      <4>3. SettlesNext(group.state = "PASSED", group.hash)
        BY <1>0, <1>1, <4>1, <4>2, VerdictStays, Zenon DEF CallInv
      <4>4. QED
        BY <4>1, <4>3, Zenon
    <3>2. CASE group.state \notin {"PASSED", "DISPUTED"}
      <4>1. PICK p \in Proc : UpdateGroup(p)
        BY <1>0, <3>2, AsideStep DEF CallInv, RowsAside, CreateRedundant, SignCreate, SignAccept,
                                    UpdateReplica, dbVars
      <4>2. /\ proc[p].job \in Job /\ replica[proc[p].job] # None
            /\ Settles(proc[p].passed, proc[p].hash)
        BY <1>0, <4>1, Zenon DEF CallInv, VerdictsSound, UpdateGroup, TypeOK
      <4>3. group.state # None /\ proc[p].passed \in BOOLEAN /\ proc[p].hash \in Hash \cup {None}
        BY <1>0, <4>2, RowHasGroup, Zenon DEF CallInv, TypeOK, Calls
      <4>4. SettlesNext(proc[p].passed, proc[p].hash)
        BY <1>0, <1>1, <4>2, <4>3, VerdictStays, Zenon DEF CallInv
      <4>5. group'.hash = proc[p].hash /\ (group'.state = "PASSED" <=> proc[p].passed)
        BY <1>0, <4>1, <4>3, GroupMoves, Zenon DEF CallInv
      <4>6. QED
        BY <4>4, <4>5, Zenon DEF SettlesNext
    <3>3. QED
      BY <3>1, <3>2, Zenon
  <2>3. QED
    BY <2>1, <2>2, Zenon DEF VerdictsSound, ComparesNext, Settles, SettlesNext, Votes, VotesNext
<1>9. PassesSound'
  <2>1. \A p \in Proc : PassesNext(p)
    BY <1>3, Zenon DEF CallNext
  <2>2. \A j \in Job : outcome'[j] = "passed" \/ <<j, TRUE>> \in late' =>
                         (policy' = "REDUNDANT" => InQuorumNext(j))
    BY <1>4, Zenon DEF BackedNext
  <2>3. QED
    BY <2>1, <2>2, Zenon DEF PassesSound, PassesNext, InQuorum, InQuorumNext, Votes, VotesNext
<1>10. QED
  BY <1>1, <1>2, <1>5, <1>6, <1>7, <1>8, <1>9, Zenon DEF VerifierInv, RecordsSound

\* The inductive invariant of the verifier holds in every state that the daemon, the command
\* line, the API, the indexer and the chain reach.
THEOREM VerifierInvariant == Spec => []VerifierInv
<1>1. Init => VerifierInv
  BY VerifierInit, Zenon
<1>2. VerifierInv /\ [Next]_vars => VerifierInv'
  BY VerifierStep, Zenon
<1>3. QED
  BY <1>1, <1>2, PTL DEF Spec

\* The database's decision is the one on the chain, however the calls of verify.ts interleave and
\* wherever one of them stops (verify.ts:223).
THEOREM RecordsAreSound == Spec => []RecordsSound
<1>1. VerifierInv => RecordsSound
  BY Zenon DEF VerifierInv
<1>2. QED
  BY <1>1, VerifierInvariant, PTL

\* No job fails without a cause: the verifier neither looks too early nor takes a challenge that
\* is being replaced for a failed one (verify.ts:71, verify.ts:137).
THEOREM FailuresAreCaused == Spec => []FailureHasCause
<1>1. VerifierInv => FailureHasCause
  BY Zenon DEF VerifierInv
<1>2. QED
  BY <1>1, VerifierInvariant, PTL

\* Behind every replica that passed is a quorum of replicas of different providers with the same
\* result (redundancy.ts:27).
THEOREM PassesHaveQuorum == Spec => []QuorumBehindPass
<1>1. VerifierInv => QuorumBehindPass
  <2> SUFFICES ASSUME VerifierInv, policy = "REDUNDANT", NEW j \in Job, outcome[j] = "passed"
               PROVE  \E q \in SUBSET Job :
                        /\ j \in q /\ Cardinality(q) >= group.required
                        /\ \A s \in q : hash[s] = hash[j] /\ good[s]
                        /\ \A s, t \in q : s # t => provider[s] # provider[t]
    BY Zenon DEF QuorumBehindPass
  <2> DEFINE q == Votes(hash[j])
  <2>1. replica[j] # None /\ Cardinality(q) >= group.required
    BY Zenon DEF VerifierInv, PassesSound, InQuorum
  <2>2. q \in SUBSET Job /\ j \in q /\ \A s \in q : hash[s] = hash[j] /\ replica[s] # None
    BY <2>1, Zenon DEF Votes
  <2> HIDE DEF q
  <2>3. \A s \in q : good[s] /\ replica[s] = provider[s]
    BY <2>2, ZenonT(60) DEF VerifierInv, RowsSound
  <2>4. \A s, t \in q : s # t => provider[s] # provider[t]
    BY <2>2, <2>3 DEF VerifierInv, RowsSound
  <2>5. QED
    BY <2>1, <2>2, <2>3, <2>4, Zenon
<1>2. QED
  BY <1>1, VerifierInvariant, PTL

\* A group's verdict is final, also when two processes decide on rows they read at different
\* times (verify.ts:136).
THEOREM VerdictsAreFinal == Spec => GroupVerdictFinal
<1>1. VerifierInv /\ [Next]_vars => [group.state \in {"PASSED", "DISPUTED"} => group' = group]_vars
  BY VerifierSteady, Zenon DEF Steady, GroupSteady
<1>2. QED
  BY <1>1, VerifierInvariant, PTL DEF Spec, GroupVerdictFinal
===============================================================================
