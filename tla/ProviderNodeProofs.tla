------------------------- MODULE ProviderNodeProofs -------------------------
(***************************************************************************)
(* The workload of a job is started at most once, and chain, evidence file *)
(* and API agree on the bundle, for any number of processes and faults and *)
(* every choice of executors.                                              *)
(***************************************************************************)
EXTENDS ProviderNode, TLAPS

\* Whatever an executor's operation does, the container is in one of its states.
LEMMA OutcomesTyped ==
  ASSUME NEW b \in Backends, NEW c \in Containers, NEW a \in BOOLEAN
  PROVE  /\ \A r \in prepare(b, c, a) \cup start(b, c) \cup recover(b, c, a) \cup collectResult(b, c) :
              r.container \in Containers
         /\ cleanup(b, c) \in Containers
<1>1. b \in {"docker", "vllm", "ray"}
  BY NodeAssumption
<1> USE <1>1 DEF Ok, Throws, Containers, Ended
<1>2. \A r \in prepare(b, c, a) : r.container \in Containers
  BY DEF prepare, DockerPrepare, DockerCreate, VllmPrepare, VllmCreate, RayPrepare
<1>3. \A r \in start(b, c) : r.container \in Containers
  BY DEF start, DockerStart, VllmStart, RayStart
<1>4. \A r \in recover(b, c, a) : r.container \in Containers
  BY DEF recover, DockerRecover, VllmRecover
<1>5. \A r \in collectResult(b, c) : r.container \in Containers
  BY DEF collectResult, DockerCollect, VllmCollect, RayCollect
<1>6. cleanup(b, c) \in Containers
  BY DEF cleanup, DockerCleanup, VllmCleanup, RayCleanup
<1>7. QED
  BY <1>2, <1>3, <1>4, <1>5, <1>6

\* What a process may write of itself.
LEMMA ProcessTyped ==
  ASSUME NEW n, NEW p \in Processes(n), NEW at \in Places, NEW seen \in {0, 4, 6, 8},
         NEW bundle \in 0..n
  PROVE  /\ [p EXCEPT !.at = at, !.seen = seen] \in Processes(n)
         /\ [p EXCEPT !.at = at, !.bundle = bundle] \in Processes(n)
         /\ [p EXCEPT !.bundle = bundle, !.at = at] \in Processes(n)
BY Zenon DEF Processes

\* The processes but one stay as they are.
OthersStay(k) == \A i \in Child \ {k} : child'[i] = child[i]

\* A process that ends is nobody's child any more.
LEMMA ExitMoves ==
  ASSUME TypeOK, NEW k \in Child, Exit(k)
  PROVE  /\ child' \in [Child -> Processes(made)] /\ daemon' \in Daemons
         /\ child'[k].at = "idle" /\ OthersStay(k)
         /\ daemon'.at = daemon.at
         /\ daemon'.active = IF daemon.active = k THEN nobody ELSE daemon.active
<1>1. NoChild \in Processes(made) /\ NoChild.at = "idle"
  BY DEF TypeOK, NoChild, Processes, Places
<1>2. child' \in [Child -> Processes(made)] /\ child'[k] = NoChild /\ OthersStay(k)
  BY <1>1 DEF TypeOK, Exit, OthersStay
<1>3. /\ daemon' \in Daemons /\ daemon'.at = daemon.at
      /\ daemon'.active = IF daemon.active = k THEN nobody ELSE daemon.active
  BY DEF TypeOK, Exit, Daemons
<1>4. QED
  BY <1>1, <1>2, <1>3

\* A process that goes on keeps what it has learnt.
LEMMA GotoMoves ==
  ASSUME TypeOK, NEW k \in Child, NEW at \in Places, Goto(k, at)
  PROVE  /\ child' \in [Child -> Processes(made)] /\ daemon' = daemon
         /\ child'[k].at = at /\ child'[k].seen = child[k].seen /\ child'[k].cmd = child[k].cmd
         /\ child'[k].bundle = child[k].bundle /\ OthersStay(k)
<1>1. [child[k] EXCEPT !.at = at] \in Processes(made)
  BY DEF TypeOK, Processes
<1>2. QED
  BY <1>1 DEF TypeOK, Goto, OthersStay, Processes

\* Every step keeps chain, files, processes and daemon well typed.
LEMMA TypeStep == TypeOK /\ Commanded /\ [Next]_vars => TypeOK'
<1> SUFFICES ASSUME TypeOK, Commanded, [Next]_vars PROVE TypeOK'
  OBVIOUS
<1>0. /\ MaxFaults \in Nat /\ nobody \notin Child /\ backend \in Backends /\ container \in Containers
      /\ admits \in BOOLEAN /\ "FAILED" \in Journals /\ "PREPARING" \in Journals
      /\ "RUNNING" \in Journals /\ "EVIDENCE_READY" \in Journals /\ "RECEIPT_COMMITTED" \in Journals
  BY NodeAssumption DEF TypeOK, nobody, Child, Journals
<1> USE DEF specVars, chainVars, fileVars, runVars
<1>1. ASSUME UNCHANGED <<specVars, chainVars, evidence, runs, made, stored, faults>>,
             container' \in Containers, journal' \in Journals,
             child' \in [Child -> Processes(made)], daemon' \in Daemons
      PROVE  TypeOK'
  BY <1>1 DEF TypeOK
<1>2. IdleDaemon \in Daemons /\ NoChild \in Processes(made)
  BY DEF TypeOK, IdleDaemon, Daemons, NoChild, Processes, Places
<1>3. CASE Tick
  <2>1. daemon' \in Daemons
    BY <1>3, Zenon DEF Tick, TypeOK, Daemons
  <2>2. QED
    BY <1>3, <2>1 DEF Tick, TypeOK
<1>4. ASSUME NEW k \in Child, Spawn(k) PROVE TypeOK'
  <2>1. daemon' \in Daemons
    BY <1>4, Zenon DEF Spawn, TypeOK, Daemons
  <2>2. [NoChild EXCEPT !.at = "read", !.cmd = Command(daemon.seen)] \in Processes(made)
    BY <1>2, Zenon DEF Processes, Places, Command
  <2>3. child' \in [Child -> Processes(made)]
    BY <1>4, <2>2 DEF Spawn, TypeOK
  <2>4. QED
    BY <1>4, <2>1, <2>3 DEF Spawn, TypeOK
<1>5. ASSUME NEW k \in Child, ReadJob(k) PROVE TypeOK'
  <2>1. [child[k] EXCEPT !.at = "begin", !.seen = state] \in Processes(made)
    BY ProcessTyped, Zenon DEF TypeOK, Places
  <2>2. child' \in [Child -> Processes(made)]
    BY <1>5, <2>1 DEF ReadJob, TypeOK
  <2>3. QED
    BY <1>5, <2>2 DEF ReadJob, TypeOK
<1>6. ASSUME NEW k \in Child, Begin(k) PROVE TypeOK'
  <2>1. CASE Exit(k) /\ UNCHANGED journal
    BY <1>0, <1>1, <1>6, <2>1, ExitMoves, Zenon DEF Begin, TypeOK
  <2>2. CASE Fail(k)
    BY <1>0, <1>1, <1>6, <2>2, ExitMoves, Zenon DEF Begin, Fail
  <2>3. ASSUME NEW at, child' = [child EXCEPT ![k].bundle = evidence, ![k].at = at],
               at \in {"upload", "clean", "prepare", "reattach", "submit"},
               journal' \in {journal, "PREPARING"}, UNCHANGED daemon
        PROVE  TypeOK'
    <3>1. [child[k] EXCEPT !.bundle = evidence, !.at = at] \in Processes(made)
      BY <2>3, ProcessTyped, Zenon DEF TypeOK, Places
    <3>2. child' \in [Child -> Processes(made)]
      BY <2>3, <3>1 DEF TypeOK
    <3>3. journal' \in Journals
      BY <1>0, <2>3 DEF TypeOK
    <3>4. QED
      BY <1>1, <1>6, <2>3, <3>2, <3>3, Zenon DEF Begin, TypeOK
  <2>4. child[k].seen \in {0, 4, 6, 8} /\ child[k].cmd \in {"none", "execute", "recover"}
    BY DEF TypeOK, Processes
  <2>5. child[k].cmd # "none"
    BY <1>6, Zenon DEF Begin, Commanded
  <2>6. QED
    <3> DEFINE p == child[k]
               at == CASE p.seen = 8 -> "upload"
                       [] p.seen = 4 /\ p.cmd = "recover" -> "clean"
                       [] p.seen = 4 /\ p.cmd = "execute" -> "prepare"
                       [] p.seen = 6 /\ evidence = 0 -> "reattach"
                       [] p.seen = 6 /\ evidence # 0 -> "submit"
    <3>1. p.seen # 0 => at \in {"upload", "clean", "prepare", "reattach", "submit"}
      BY <2>4, <2>5
    <3>2. \/ Exit(k) /\ UNCHANGED journal
          \/ Fail(k)
          \/ /\ p.seen # 0 /\ child' = [child EXCEPT ![k].bundle = evidence, ![k].at = at]
             /\ journal' \in {journal, "PREPARING"} /\ UNCHANGED daemon
      BY <1>6, Zenon DEF Begin
    <3> HIDE DEF at
    <3>3. QED
      BY <2>1, <2>2, <2>3, <3>1, <3>2, Zenon
<1>7. ASSUME NEW k \in Child, NEW at \in Places, Goto(k, at) \/ Fail(k),
             UNCHANGED <<specVars, chainVars, evidence, runs, made, stored, faults>>,
             container' \in Containers, journal' \in Journals
      PROVE  TypeOK'
  BY <1>1, <1>7, ExitMoves, GotoMoves DEF Fail, TypeOK
<1>8. \A at \in {"prepare", "startJob", "start", "collect", "write", "upload", "challenge", "commit"} :
        at \in Places
  BY DEF Places
<1>9. journal \in Journals
  BY Zenon DEF TypeOK
<1>10. ASSUME NEW k \in Child, Clean(k) PROVE TypeOK'
  BY <1>0, <1>7, <1>8, <1>10, OutcomesTyped DEF Clean
<1>11. ASSUME NEW k \in Child, Prepare(k) PROVE TypeOK'
  BY <1>0, <1>7, <1>8, <1>9, <1>11, OutcomesTyped DEF Prepare, Fail
<1>12. ASSUME NEW k \in Child, StartJob(k) PROVE TypeOK'
  <2>1. CASE Goto(k, "start") /\ UNCHANGED journal
    BY <1>8, <1>12, <2>1, GotoMoves DEF StartJob, TypeOK
  <2>2. CASE Fail(k) /\ UNCHANGED state
    BY <1>0, <1>12, <2>2, ExitMoves, Zenon DEF StartJob, TypeOK, Fail
  <2>3. QED
    BY <1>12, <2>1, <2>2 DEF StartJob
<1>13. ASSUME NEW k \in Child, Start(k) PROVE TypeOK'
  <2>1. container' \in Containers
    BY <1>0, <1>13, OutcomesTyped, Zenon DEF Start
  <2>2. CASE runs' = runs + 1 /\ journal' = "RUNNING" /\ Goto(k, "collect")
    BY <1>0, <1>8, <1>13, <2>1, <2>2, GotoMoves DEF Start, TypeOK
  <2>3. CASE Fail(k) /\ UNCHANGED runs
    BY <1>0, <1>13, <2>1, <2>3, ExitMoves, Zenon DEF Start, TypeOK, Fail
  <2>4. QED
    BY <1>13, <2>2, <2>3, Zenon DEF Start
<1>14. ASSUME NEW k \in Child, Reattach(k) PROVE TypeOK'
  BY <1>0, <1>7, <1>8, <1>14 DEF Reattach, Fail
<1>15. ASSUME NEW k \in Child, Collect(k) PROVE TypeOK'
  BY <1>0, <1>7, <1>8, <1>9, <1>15, OutcomesTyped DEF Collect, Fail
<1>16. ASSUME NEW k \in Child, WriteEvidence(k) PROVE TypeOK'
  <2>1. made \in Nat /\ made' = made + 1 /\ \A n \in 0..made : n \in 0..made'
    BY <1>16 DEF WriteEvidence, TypeOK
  <2>2. \A p \in Processes(made) : p \in Processes(made')
    BY <2>1 DEF Processes
  <2>3. [child[k] EXCEPT !.at = "submit", !.bundle = made'] \in Processes(made')
    <3>1. child[k] \in Processes(made') /\ "submit" \in Places /\ made' \in 0..made'
      BY <2>1, <2>2 DEF TypeOK, Places
    <3>2. QED
      BY <3>1, Zenon DEF Processes
  <2>4. child' \in [Child -> Processes(made')]
    BY <1>16, <2>2, <2>3 DEF WriteEvidence, TypeOK
  <2>5. late' \subseteq {"startJob", "submit"} \X (0..made')
    BY <1>16, <2>1 DEF WriteEvidence, TypeOK
  <2>6. receipt' \in 0..made' /\ evidence' \in 0..made' /\ stored' \in 0..made'
    BY <1>16, <2>1 DEF WriteEvidence, TypeOK
  <2>7. QED
    BY <1>0, <1>16, <2>1, <2>4, <2>5, <2>6 DEF WriteEvidence, TypeOK
<1>17. ASSUME NEW k \in Child, SubmitReceipt(k) PROVE TypeOK'
  <2>1. child[k].bundle \in 0..made
    BY DEF TypeOK, Processes
  <2>2. CASE Goto(k, "upload") /\ UNCHANGED journal /\ state' = 8 /\ receipt' = child[k].bundle
    BY <1>8, <1>17, <2>1, <2>2, GotoMoves, Zenon DEF SubmitReceipt, TypeOK
  <2>3. CASE Fail(k) /\ UNCHANGED <<state, receipt>>
    BY <1>0, <1>17, <2>3, ExitMoves, Zenon DEF SubmitReceipt, TypeOK, Fail
  <2>4. QED
    BY <1>17, <2>2, <2>3, Zenon DEF SubmitReceipt
<1>18. ASSUME NEW k \in Child, Upload(k) PROVE TypeOK'
  <2>1. child[k].bundle \in 0..made
    BY DEF TypeOK, Processes
  <2>2. CASE /\ Goto(k, IF Challenged THEN "challenge" ELSE "commit") /\ UNCHANGED journal
             /\ stored' = child[k].bundle
    BY <1>8, <1>18, <2>1, <2>2, GotoMoves, Zenon DEF Upload, TypeOK
  <2>3. CASE Fail(k) /\ UNCHANGED stored
    BY <1>0, <1>18, <2>3, ExitMoves, Zenon DEF Upload, TypeOK, Fail
  <2>4. QED
    BY <1>18, <2>2, <2>3 DEF Upload
<1>19. ASSUME NEW k \in Child, CompleteChallenge(k) PROVE TypeOK'
  BY <1>0, <1>7, <1>8, <1>9, <1>19, Zenon DEF CompleteChallenge, Fail
<1>20. ASSUME NEW k \in Child, Commit(k) PROVE TypeOK'
  BY <1>0, <1>1, <1>20, OutcomesTyped, ExitMoves, Zenon DEF Commit
<1>21. ASSUME NEW k \in Child, Reject(k) PROVE TypeOK'
  <2>1. child[k].bundle \in 0..made /\ faults' \in 0..MaxFaults
    BY <1>0, <1>21 DEF TypeOK, Processes, Reject, Fault
  <2>2. container' \in Containers /\ runs' \in Nat
    BY <1>0, <1>21, OutcomesTyped DEF Reject, TypeOK, Containers, Ended
  <2>3. late' \subseteq {"startJob", "submit"} \X (0..made)
    BY <1>21, <2>1 DEF Reject, TypeOK
  <2>4. QED
    BY <1>0, <1>21, <2>1, <2>2, <2>3, ExitMoves, Zenon DEF Reject, Fail, TypeOK
<1>22. ASSUME NEW k \in Child, CrashChild(k) PROVE TypeOK'
  BY <1>0, <1>22, ExitMoves, SMTT(20) DEF CrashChild, Fault, TypeOK
<1>23. ASSUME NEW tx \in late, Land(tx) PROVE TypeOK'
  <2>1. tx[2] \in 0..made
    BY Zenon DEF TypeOK
  <2>2. QED
    BY <1>23, <2>1, Zenon DEF Land, TypeOK
<1>24. CASE RestartDaemon \/ RestartHost
  <2>1. child' \in [Child -> Processes(made)]
    BY <1>2, <1>24 DEF RestartDaemon, RestartHost, TypeOK
  <2>2. container' \in Containers
    BY <1>24, Zenon DEF RestartDaemon, RestartHost, TypeOK, Containers, Ended
  <2>3. QED
    BY <1>0, <1>2, <1>24, <2>1, <2>2 DEF RestartDaemon, RestartHost, Fault, TypeOK
<1>25. CASE SkipTick
  BY <1>0, <1>2, <1>25 DEF SkipTick, Fault, TypeOK
<1>26. CASE Finish \/ EndJob \/ Revoke \/ UNCHANGED vars
  BY <1>26, Zenon DEF Finish, EndJob, Revoke, vars, TypeOK, Containers, Ended
<1>27. QED
  BY <1>3, <1>4, <1>5, <1>6, <1>10, <1>11, <1>12, <1>13, <1>14, <1>15, <1>16, <1>17, <1>18, <1>19,
     <1>20, <1>21, <1>22, <1>23, <1>24, <1>25, <1>26 DEF Next, Step

-----------------------------------------------------------------------------
(* What holds beside the types.                                            *)

Guards == /\ Commanded /\ StartsGuarded /\ OneChild /\ EvidenceGuarded /\ ReceiptHasEvidence
          /\ StoredGuarded /\ StoredIsReceipt

\* Chain, evidence, starts and what is stored stay as they are.
Quiet == UNCHANGED <<orphans, state, receipt, late, evidence, runs, stored>>

\* A process ends.
LEMMA GuardsAtExit ==
  ASSUME NodeInv, NEW k \in Child, Exit(k), Quiet
  PROVE  Guards'
<1>0. TypeOK /\ Guards /\ nobody \notin Child
  BY DEF NodeInv, EvidenceKept, Guards, nobody, Child
<1>1. /\ child'[k].at = "idle" /\ OthersStay(k) /\ daemon'.at = daemon.at
      /\ daemon'.active = IF daemon.active = k THEN nobody ELSE daemon.active
  BY <1>0, ExitMoves, Zenon
<1> USE <1>0, <1>1 DEF Guards, Quiet, OthersStay
<1>2. Commanded'
  BY DEF Commanded
<1>3. StartsGuarded'
  BY DEF StartsGuarded
<1>4. OneChild'
  BY Zenon DEF OneChild
<1>5. EvidenceGuarded'
  BY DEF EvidenceGuarded, Knows
<1>6. ReceiptHasEvidence' /\ StoredGuarded' /\ StoredIsReceipt'
  BY Zenon DEF ReceiptHasEvidence, StoredGuarded, StoredIsReceipt
<1>7. QED
  BY <1>2, <1>3, <1>4, <1>5, <1>6, Zenon

\* A process goes on, not to the start of the workload, and knows what it has to.
LEMMA GuardsAtMove ==
  ASSUME NodeInv, NEW k \in Child, OthersStay(k), daemon' = daemon, Quiet,
         child[k].at # "idle", child'[k].at # "start", child'[k].cmd = child[k].cmd,
         ~orphans => Knows(k)'
  PROVE  Guards'
<1>0. Guards
  BY DEF NodeInv, EvidenceKept, Guards
<1> USE <1>0 DEF Guards, Quiet, OthersStay
<1>1. Commanded'
  BY DEF Commanded
<1>2. StartsGuarded'
  BY DEF StartsGuarded
<1>3. OneChild'
  BY Zenon DEF OneChild
<1>4. EvidenceGuarded'
  BY DEF EvidenceGuarded, Knows
<1>5. ReceiptHasEvidence' /\ StoredGuarded' /\ StoredIsReceipt'
  BY Zenon DEF ReceiptHasEvidence, StoredGuarded, StoredIsReceipt
<1>6. QED
  BY <1>1, <1>2, <1>3, <1>4, <1>5, Zenon

\* No process moves, and the chain stays as it is.
LEMMA GuardsAtRest ==
  ASSUME NodeInv, Quiet, UNCHANGED child,
         daemon' = daemon \/ (daemon.active = nobody /\ daemon'.active = nobody)
  PROVE  Guards'
BY DEF NodeInv, EvidenceKept, Guards, Quiet, Commanded, StartsGuarded, OneChild, EvidenceGuarded,
   Knows, ReceiptHasEvidence, StoredGuarded, StoredIsReceipt

\* Every step keeps the guards.
LEMMA GuardsStep == NodeInv /\ [Next]_vars => Guards'
<1> SUFFICES ASSUME NodeInv, [Next]_vars PROVE Guards'
  OBVIOUS
<1>0. /\ TypeOK /\ Guards /\ nobody \notin Child /\ child \in [Child -> Processes(made)]
      /\ daemon \in Daemons
  BY DEF NodeInv, EvidenceKept, Guards, nobody, Child, TypeOK
<1>p. \A at \in {"prepare", "startJob", "start", "collect", "write", "upload", "challenge", "commit"} :
        at \in Places
  BY DEF Places
<1> USE DEF specVars, chainVars, fileVars, runVars
<1>1. CASE Finish \/ Revoke \/ UNCHANGED vars
  BY <1>1, GuardsAtRest DEF Finish, Revoke, vars, Quiet
<1>2. CASE Tick
  <2>1. daemon.active = nobody /\ daemon'.active = nobody
    BY <1>0, <1>2 DEF Tick, Daemons
  <2>2. QED
    BY <1>2, <2>1, GuardsAtRest DEF Tick, Quiet
<1>3. CASE SkipTick
  <2>1. daemon.active = nobody /\ daemon'.active = nobody
    BY <1>0, <1>3, Zenon DEF SkipTick, IdleDaemon, Guards, OneChild
  <2>2. QED
    BY <1>3, <2>1, GuardsAtRest DEF SkipTick, Quiet
<1>4. CASE EndJob
  BY <1>0, <1>4 DEF EndJob, Guards, Commanded, StartsGuarded, OneChild, EvidenceGuarded, Knows,
     ReceiptHasEvidence, StoredGuarded, StoredIsReceipt
<1>5. ASSUME NEW k \in Child, Spawn(k) PROVE Guards'
  <2>1. /\ child[k].at = "idle" /\ child'[k].at = "read" /\ child'[k].cmd \in {"execute", "recover"}
        /\ OthersStay(k)
    BY <1>0, <1>5 DEF Spawn, NoChild, Command, OthersStay
  <2>2. daemon.active = nobody /\ daemon'.active = k /\ daemon'.at = "idle"
    BY <1>0, <1>5 DEF Spawn, Daemons, Guards, OneChild
  <2>3. Quiet
    BY <1>5, Zenon DEF Spawn, Quiet
  <2> USE <1>0, <2>1, <2>2, <2>3 DEF Guards, Quiet, OthersStay
  <2>4. Commanded' /\ StartsGuarded'
    BY DEF Commanded, StartsGuarded
  <2>5. OneChild'
    BY DEF OneChild
  <2>6. EvidenceGuarded'
    BY DEF EvidenceGuarded, Knows
  <2>7. ReceiptHasEvidence' /\ StoredGuarded' /\ StoredIsReceipt'
    BY DEF ReceiptHasEvidence, StoredGuarded, StoredIsReceipt
  <2>8. QED
    BY <2>4, <2>5, <2>6, <2>7
<1>6. ASSUME NEW k \in Child, ReadJob(k) PROVE Guards'
  <2>1. /\ child[k].at = "read" /\ child'[k].at = "begin" /\ child'[k].seen = state
        /\ child'[k].cmd = child[k].cmd /\ OthersStay(k)
    BY <1>0, <1>6 DEF ReadJob, OthersStay, Processes
  <2>2. ~orphans => Knows(k)'
    BY <1>0, <1>6, <2>1 DEF ReadJob, Guards, EvidenceGuarded, Knows
  <2>3. QED
    BY <1>6, <2>1, <2>2, GuardsAtMove, Zenon DEF ReadJob, Quiet
<1>7. ASSUME NEW k \in Child, Begin(k) PROVE Guards'
  <2> DEFINE p == child[k]
             at == CASE p.seen = 8 -> "upload"
                     [] p.seen = 4 /\ p.cmd = "recover" -> "clean"
                     [] p.seen = 4 /\ p.cmd = "execute" -> "prepare"
                     [] p.seen = 6 /\ evidence = 0 -> "reattach"
                     [] p.seen = 6 /\ evidence # 0 -> "submit"
  <2>1. /\ p.seen \in {0, 4, 6, 8} /\ p.cmd \in {"execute", "recover"} /\ p.at = "begin"
    BY <1>0, <1>7, Zenon DEF Begin, Processes, Guards, Commanded
  <2>2. p.seen # 0 => \/ at = "upload"
                      \/ at \in {"clean", "prepare"} /\ p.seen = 4
                      \/ at = "reattach" /\ evidence = 0 /\ p.seen = 6
                      \/ at = "submit" /\ evidence # 0
    BY <2>1
  <2>3. \/ Exit(k)
        \/ p.seen # 0 /\ child' = [child EXCEPT ![k].bundle = evidence, ![k].at = at] /\ daemon' = daemon
    BY <1>7, Zenon DEF Begin, Fail
  <2>4. Quiet
    BY <1>7, Zenon DEF Begin, Quiet
  <2> HIDE DEF at
  <2>5. CASE Exit(k)
    BY <2>4, <2>5, GuardsAtExit
  <2>6. CASE p.seen # 0 /\ child' = [child EXCEPT ![k].bundle = evidence, ![k].at = at] /\ daemon' = daemon
    <3>1. /\ child'[k].at = at /\ child'[k].bundle = evidence /\ child'[k].seen = p.seen
          /\ child'[k].cmd = p.cmd /\ OthersStay(k)
      BY <1>0, <2>6 DEF Processes, OthersStay
    <3>2. ~orphans => Knows(k)'
      BY <1>0, <2>1, <2>2, <2>4, <2>6, <3>1 DEF Guards, EvidenceGuarded, Knows, Quiet
    <3>3. QED
      BY <2>1, <2>2, <2>4, <2>6, <3>1, <3>2, GuardsAtMove, Zenon
  <2>7. QED
    BY <2>3, <2>5, <2>6
<1>8. ASSUME NEW k \in Child, NEW from, NEW to \in {"prepare", "startJob", "collect", "write", "commit"},
             child[k].at = from, Goto(k, to) \/ Fail(k), Quiet,
             \/ from \in {"clean", "prepare"} /\ to \in {"prepare", "startJob"}
             \/ from \in {"reattach", "collect"} /\ to \in {"collect", "write"}
             \/ from = "challenge" /\ to = "commit"
      PROVE  Guards'
  <2>1. CASE Fail(k)
    BY <1>8, <2>1, GuardsAtExit, Zenon DEF Fail
  <2>2. CASE Goto(k, to)
    <3>1. /\ daemon' = daemon /\ child'[k].at = to /\ child'[k].cmd = child[k].cmd /\ OthersStay(k)
          /\ child'[k].seen = child[k].seen
      BY <1>0, <1>p, <1>8, <2>2, GotoMoves
    <3>2. ~orphans => Knows(k)'
      BY <1>0, <1>8, <3>1, Zenon DEF Guards, EvidenceGuarded, Knows, Quiet
    <3>3. QED
      BY <1>8, <3>1, <3>2, GuardsAtMove, Zenon
  <2>3. QED
    BY <1>8, <2>1, <2>2
<1>9. ASSUME NEW k \in Child,
             Clean(k) \/ Prepare(k) \/ Reattach(k) \/ Collect(k) \/ CompleteChallenge(k)
      PROVE  Guards'
  BY <1>8, <1>9, Zenon DEF Clean, Prepare, Reattach, Collect, CompleteChallenge, Quiet
<1>10. ASSUME NEW k \in Child, Commit(k) \/ CrashChild(k) PROVE Guards'
  BY <1>10, GuardsAtExit, Zenon DEF Commit, CrashChild, Quiet
<1>11. ASSUME NEW k \in Child, StartJob(k) PROVE Guards'
  <2>1. CASE Fail(k) /\ UNCHANGED state
    BY <1>11, <2>1, GuardsAtExit, Zenon DEF StartJob, Fail, Quiet
  <2>2. CASE state = 4 /\ state' = 6 /\ Goto(k, "start")
    <3>1. /\ daemon' = daemon /\ child'[k].at = "start" /\ child'[k].cmd = child[k].cmd
          /\ child[k].at = "startJob" /\ OthersStay(k)
      BY <1>0, <1>p, <1>11, <2>2, GotoMoves DEF StartJob
    <3>2. UNCHANGED <<orphans, receipt, late, evidence, runs, stored>>
      BY <1>11, Zenon DEF StartJob
    <3> USE <1>0, <2>2, <3>1, <3>2 DEF Guards, OthersStay
    <3>3. Commanded' /\ OneChild'
      BY Zenon DEF Commanded, OneChild
    <3>4. StartsGuarded'
      BY DEF StartsGuarded
    <3>5. EvidenceGuarded'
      BY DEF EvidenceGuarded, Knows
    <3>6. ReceiptHasEvidence' /\ StoredGuarded' /\ StoredIsReceipt'
      BY Zenon DEF ReceiptHasEvidence, StoredGuarded, StoredIsReceipt
    <3>7. QED
      BY <3>3, <3>4, <3>5, <3>6, Zenon
  <2>3. QED
    BY <1>11, <2>1, <2>2, Zenon DEF StartJob
<1>12. ASSUME NEW k \in Child, Start(k) PROVE Guards'
  <2>1. CASE Fail(k) /\ UNCHANGED runs
    BY <1>12, <2>1, GuardsAtExit, Zenon DEF Start, Fail, Quiet
  <2>2. CASE runs' = runs + 1 /\ Goto(k, "collect")
    <3>1. /\ daemon' = daemon /\ child'[k].at = "collect" /\ child'[k].cmd = child[k].cmd
          /\ child[k].at = "start" /\ OthersStay(k)
      BY <1>0, <1>p, <1>12, <2>2, GotoMoves, Zenon DEF Start
    <3>2. UNCHANGED <<orphans, state, receipt, late, evidence, stored>>
      BY <1>12, Zenon DEF Start
    <3> USE <1>0, <2>2, <3>1, <3>2 DEF Guards, OthersStay
    <3>3. Commanded' /\ OneChild'
      BY DEF Commanded, OneChild
    <3>4. StartsGuarded'
      BY DEF StartsGuarded
    <3>5. EvidenceGuarded'
      BY DEF EvidenceGuarded, Knows
    <3>6. ReceiptHasEvidence' /\ StoredGuarded' /\ StoredIsReceipt'
      BY Zenon DEF ReceiptHasEvidence, StoredGuarded, StoredIsReceipt
    <3>7. QED
      BY <3>3, <3>4, <3>5, <3>6, Zenon
  <2>3. QED
    BY <1>12, <2>1, <2>2, Zenon DEF Start
<1>13. ASSUME NEW k \in Child, WriteEvidence(k) PROVE Guards'
  <2>1. /\ child[k].at = "write" /\ child'[k].at = "submit" /\ child'[k].bundle = evidence'
        /\ child'[k].cmd = child[k].cmd /\ OthersStay(k) /\ evidence' # 0
        /\ daemon' = daemon /\ UNCHANGED <<orphans, state, receipt, late, runs, stored>>
    BY <1>0, <1>13 DEF WriteEvidence, Processes, OthersStay, TypeOK
  <2>2. ~orphans => /\ evidence = 0 /\ state # 4
                    /\ \A i \in Child \ {k} : child[i].at = "idle"
                    /\ \A tx \in late : tx[1] # "submit"
    BY <1>0, <2>1, Zenon DEF Guards, EvidenceGuarded, Knows, OneChild
  <2> USE <1>0, <2>1, <2>2 DEF Guards, OthersStay
  <2>3. Commanded' /\ OneChild'
    BY DEF Commanded, OneChild
  <2>4. StartsGuarded'
    BY Zenon DEF StartsGuarded
  <2>5. EvidenceGuarded'
    BY Zenon DEF EvidenceGuarded, Knows
  <2>6. ReceiptHasEvidence' /\ StoredGuarded' /\ StoredIsReceipt'
    BY Zenon DEF ReceiptHasEvidence, StoredGuarded, StoredIsReceipt
  <2>7. QED
    BY <2>3, <2>4, <2>5, <2>6
<1>14. ASSUME NEW k \in Child, SubmitReceipt(k) PROVE Guards'
  <2>1. CASE Fail(k) /\ UNCHANGED <<state, receipt>>
    BY <1>14, <2>1, GuardsAtExit, Zenon DEF SubmitReceipt, Fail, Quiet
  <2>2. CASE state = 6 /\ state' = 8 /\ receipt' = child[k].bundle /\ Goto(k, "upload")
    <3>1. /\ daemon' = daemon /\ child'[k].at = "upload" /\ child'[k].cmd = child[k].cmd
          /\ child[k].at = "submit" /\ OthersStay(k)
      BY <1>0, <1>p, <1>14, <2>2, GotoMoves, Zenon DEF SubmitReceipt
    <3>2. UNCHANGED <<orphans, late, evidence, runs, stored>>
      BY <1>14, Zenon DEF SubmitReceipt
    <3> USE <1>0, <2>2, <3>1, <3>2 DEF Guards, OthersStay
    <3>3. Commanded' /\ OneChild'
      BY Zenon DEF Commanded, OneChild
    <3>4. StartsGuarded'
      BY DEF StartsGuarded
    <3>5. EvidenceGuarded'
      BY DEF EvidenceGuarded, Knows
    <3>6. ReceiptHasEvidence' /\ StoredGuarded' /\ StoredIsReceipt'
      BY Zenon DEF ReceiptHasEvidence, StoredGuarded, StoredIsReceipt, EvidenceGuarded, Knows
    <3>7. QED
      BY <3>3, <3>4, <3>5, <3>6, Zenon
  <2>3. QED
    BY <1>14, <2>1, <2>2, Zenon DEF SubmitReceipt
<1>15. ASSUME NEW k \in Child, Upload(k) PROVE Guards'
  <2>1. CASE Fail(k) /\ UNCHANGED stored
    BY <1>15, <2>1, GuardsAtExit, Zenon DEF Upload, Fail, Quiet
  <2>2. CASE /\ Accepts(child[k].bundle) /\ stored' = child[k].bundle
             /\ Goto(k, IF Challenged THEN "challenge" ELSE "commit")
    <3>1. /\ daemon' = daemon /\ child'[k].at \in {"challenge", "commit"}
          /\ child'[k].cmd = child[k].cmd /\ child[k].at = "upload" /\ OthersStay(k)
      BY <1>0, <1>p, <1>15, <2>2, GotoMoves, Zenon DEF Upload
    <3>2. /\ state = 8 /\ stored' = receipt
          /\ UNCHANGED <<orphans, state, receipt, late, evidence, runs>>
      BY <1>15, <2>2, Zenon DEF Upload, Accepts
    <3> USE <1>0, <3>1, <3>2 DEF Guards, OthersStay
    <3>3. Commanded' /\ OneChild'
      BY DEF Commanded, OneChild
    <3>4. StartsGuarded'
      BY DEF StartsGuarded
    <3>5. EvidenceGuarded'
      BY DEF EvidenceGuarded, Knows
    <3>6. ReceiptHasEvidence' /\ StoredGuarded' /\ StoredIsReceipt'
      BY DEF ReceiptHasEvidence, StoredGuarded, StoredIsReceipt
    <3>7. QED
      BY <3>3, <3>4, <3>5, <3>6, Zenon
  <2>3. QED
    BY <1>15, <2>1, <2>2, Zenon DEF Upload
<1>16. ASSUME NEW k \in Child, Reject(k) PROVE Guards'
  <2>1. /\ child'[k].at = "idle" /\ OthersStay(k) /\ daemon'.at = daemon.at
        /\ daemon'.active = IF daemon.active = k THEN nobody ELSE daemon.active
    BY <1>0, <1>16, ExitMoves, Zenon DEF Reject, Fail
  <2>2. /\ runs' = runs \/ (child[k].at = "start" /\ runs' = runs + 1)
        /\ \A tx \in late' : \/ tx \in late
                             \/ tx[1] = "startJob"
                             \/ child[k].at = "submit" /\ tx[2] = child[k].bundle
        /\ UNCHANGED <<orphans, state, receipt, evidence, stored>>
    BY <1>16, SMTT(20) DEF Reject
  <2> USE <1>0, <2>1, <2>2 DEF Guards, OthersStay
  <2>3. Commanded' /\ OneChild'
    BY Zenon DEF Commanded, OneChild
  <2>4. StartsGuarded'
    BY DEF StartsGuarded
  <2>5. EvidenceGuarded'
    BY DEF EvidenceGuarded, Knows
  <2>6. ReceiptHasEvidence' /\ StoredGuarded' /\ StoredIsReceipt'
    BY DEF ReceiptHasEvidence, StoredGuarded, StoredIsReceipt
  <2>7. QED
    BY <2>3, <2>4, <2>5, <2>6, Zenon
<1>17. ASSUME NEW tx \in late, Land(tx) PROVE Guards'
  <2>1. /\ \/ state = 4 /\ state' = 6 /\ receipt' = receipt
           \/ tx[1] = "submit" /\ state = 6 /\ state' = 8 /\ receipt' = tx[2]
        /\ late' \subseteq late
        /\ UNCHANGED <<orphans, evidence, runs, child, daemon, stored>>
    BY <1>17, Zenon DEF Land
  <2> USE <1>0, <2>1 DEF Guards
  <2>2. Commanded' /\ OneChild' /\ StartsGuarded'
    BY DEF Commanded, OneChild, StartsGuarded
  <2>3. EvidenceGuarded'
    BY DEF EvidenceGuarded, Knows
  <2>4. ReceiptHasEvidence' /\ StoredGuarded' /\ StoredIsReceipt'
    BY Zenon DEF ReceiptHasEvidence, StoredGuarded, StoredIsReceipt, EvidenceGuarded
  <2>5. QED
    BY <2>2, <2>3, <2>4
<1>18. CASE RestartDaemon \/ RestartHost
  <2>1. /\ daemon'.active = nobody /\ daemon'.at = "idle" /\ Quiet
        /\ \A i \in Child : child'[i] = child[i] \/ child'[i].at = "idle"
    BY <1>0, <1>18 DEF RestartDaemon, RestartHost, IdleDaemon, NoChild, Quiet
  <2>2. ~orphans => \A i \in Child : child'[i].at = "idle"
    <3>1. CASE RestartHost
      BY <3>1, Zenon DEF RestartHost, NoChild
    <3>2. CASE RestartDaemon
      BY <1>0, <3>2, Zenon DEF RestartDaemon, NoChild, Guards, OneChild, Daemons
    <3>3. QED
      BY <1>18, <3>1, <3>2, Zenon
  <2> USE <1>0, <2>1, <2>2 DEF Guards, Quiet
  <2>3. Commanded' /\ OneChild'
    BY Zenon DEF Commanded, OneChild
  <2>4. StartsGuarded'
    BY Zenon DEF StartsGuarded
  <2>5. EvidenceGuarded'
    BY Zenon DEF EvidenceGuarded, Knows
  <2>6. ReceiptHasEvidence' /\ StoredGuarded' /\ StoredIsReceipt'
    BY DEF ReceiptHasEvidence, StoredGuarded, StoredIsReceipt
  <2>7. QED
    BY <2>3, <2>4, <2>5, <2>6, Zenon
<1>19. QED
  BY <1>1, <1>2, <1>3, <1>4, <1>5, <1>6, <1>7, <1>9, <1>10, <1>11, <1>12, <1>13, <1>14, <1>15, <1>16,
     <1>17, <1>18 DEF Next, Step

\* For any number of processes and any sequence of kills, restarts, rejected and late calls.
LEMMA NodeInvariant == Spec => []NodeInv
<1>1. Init => NodeInv
  <2> SUFFICES ASSUME Init PROVE NodeInv
    BY Zenon
  <2>1. \A k \in Child : child[k].at = "idle"
    BY Zenon DEF Init, NoChild
  <2>2. TypeOK
    BY NodeAssumption DEF Init, TypeOK, NoChild, IdleDaemon, Processes, Daemons, Places, Journals,
       Containers
  <2>3. Guards
    BY <2>1 DEF Init, Guards, IdleDaemon, Commanded, OneChild, StartsGuarded, EvidenceGuarded, Knows,
       ReceiptHasEvidence, StoredGuarded, StoredIsReceipt
  <2>4. QED
    BY <2>2, <2>3 DEF NodeInv, EvidenceKept, Guards
<1>2. NodeInv /\ [Next]_vars => NodeInv'
  BY TypeStep, GuardsStep DEF NodeInv, EvidenceKept, Guards
<1>3. QED
  BY <1>1, <1>2, PTL DEF Spec

\* cli.ts starts the container only after start_job was confirmed, which the chain does once:
\* the workload of a job is started at most once, and not before the chain says so.
THEOREM StartedOnce == Spec => []ExecutedOnce
<1>1. NodeInv => ExecutedOnce
  BY DEF NodeInv, StartsGuarded, ExecutedOnce
<1>2. QED
  BY <1>1, NodeInvariant, PTL

\* execute and recover write the evidence before they send its hash, and the API takes the
\* bundle the chain committed to: the file, the chain and the API agree.
THEOREM EvidenceStays == Spec => []EvidenceKept
<1>1. NodeInv => EvidenceKept
  BY DEF NodeInv
<1>2. QED
  BY <1>1, NodeInvariant, PTL
=============================================================================
