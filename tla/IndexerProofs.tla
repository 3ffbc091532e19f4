---------------------------- MODULE IndexerProofs ----------------------------
(***************************************************************************)
(* The tables are sound and implement Projection, and the history has no   *)
(* gap below its watermark, for any accounts, processes, page sizes and    *)
(* faults.                                                                 *)
(***************************************************************************)
EXTENDS Indexer, TLAPS, FiniteSetTheorems

\* A version is a number, and that of an account in a slot is the chain's.
LEMMA VersionTyped ==
  ASSUME TypeOK, NEW s \in 0..slot, NEW a \in Account
  PROVE  Version(s, a) \in Nat /\ (s # 0 => Version(s, a) = chain[s][a])
BY DEF TypeOK, Version, slot

\* A transaction adds one slot and leaves the earlier ones alone.
Extends(a, closes) ==
  /\ slot' = slot + 1 /\ \A s \in 1..slot : chain'[s] = chain[s]
  /\ \A b \in Account \ {a} : chain'[slot + 1][b] = Version(slot, b)
  /\ chain'[slot + 1][a] = IF closes THEN 0 ELSE slot + 1

\* A transaction is one more slot of the chain and leaves the earlier ones.
LEMMA ChainExtends ==
  ASSUME TypeOK, NEW a \in Account, NEW c \in BOOLEAN, Transact(a, c)
  PROVE  Extends(a, c) /\ chain' \in Seq([Account -> Nat]) /\ slot' <= MaxSlot /\ slot \in Nat
<1> DEFINE new == [b \in Account |-> IF b # a THEN Version(slot, b) ELSE IF c THEN 0 ELSE slot + 1]
<1>1. slot \in Nat /\ chain \in Seq([Account -> Nat])
  BY DEF TypeOK, slot
<1>2. new \in [Account -> Nat]
  BY <1>1, VersionTyped
<1>3. chain' = Append(chain, new) /\ slot < MaxSlot
  BY Zenon DEF Transact
<1>4. /\ new[a] = IF c THEN 0 ELSE slot + 1
      /\ \A b \in Account \ {a} : new[b] = Version(slot, b)
  BY Zenon
<1> HIDE DEF new
<1>5. /\ Len(chain') = Len(chain) + 1 /\ chain' \in Seq([Account -> Nat])
      /\ \A s \in 1..Len(chain) : chain'[s] = chain[s]
      /\ chain'[Len(chain) + 1] = new
  BY <1>1, <1>2, <1>3
<1>6. QED
  BY <1>1, <1>3, <1>4, <1>5, IndexerAssumption DEF Extends, slot

\* The passes but one stay as they are; the backfills but one do.
PassesStay(i) == \A k \in Indexers \ {i} : pass'[k] = pass[k]
PollsStay(i) == \A k \in Pollers \ {i} : poll'[k] = poll[k]

\* A call of reconcile() changes nothing but the caller's pass, which does not apply rows yet.
LEMMA ReconcileMoves ==
  ASSUME TypeOK, NEW i \in Indexers, NEW who \in Causes, Reconcile(i, who)
  PROVE  /\ pass' \in [Indexers -> Passes(slot)] /\ dirty' \in [Indexers -> BOOLEAN]
         /\ PassesStay(i)
         /\ pass[i].at # "idle" => pass'[i] = pass[i]
         /\ pass[i].at = "idle" => pass'[i].at = "snap" /\ pass'[i].who = who
<1>1. dirty' \in [Indexers -> BOOLEAN]
  BY Zenon DEF TypeOK, Reconcile
<1>2. slot \in Nat
  BY DEF TypeOK, slot
<1>3. [NoPass EXCEPT !.at = "snap", !.who = who] \in Passes(slot)
  <2>1. NoPass \in Passes(slot)
    BY <1>2 DEF NoPass, Passes, Causes
  <2>2. QED
    BY <2>1, Zenon DEF Passes
<1>4. pass' \in [Indexers -> Passes(slot)] /\ PassesStay(i)
  BY <1>3, Zenon DEF TypeOK, Reconcile, PassesStay
<1>5. pass[i].at # "idle" => pass'[i] = pass[i]
  BY Zenon DEF TypeOK, Reconcile
<1>6. pass[i].at = "idle" => pass'[i].at = "snap" /\ pass'[i].who = who
  BY ZenonT(60) DEF TypeOK, Reconcile, NoPass
<1>7. QED
  BY <1>1, <1>4, <1>5, <1>6, Zenon

\* A pass that ends on an exception takes the backfill that waits for it with it.
LEMMA AbortMoves ==
  ASSUME TypeOK, NEW i \in Indexers, Abort(i)
  PROVE  /\ pass' \in [Indexers -> Passes(slot)] /\ poll' \in [Pollers -> Polls(slot)]
         /\ PassesStay(i) /\ pass'[i] = NoPass /\ PollsStay(i)
         /\ i \in Pollers => poll'[i] = IF pass[i].who = "poll" THEN NoPoll ELSE poll[i]
<1>1. slot \in Nat /\ NoPass \in Passes(slot) /\ NoPoll \in Polls(slot)
  <2>1. slot \in Nat
    BY DEF TypeOK, slot
  <2>2. QED
    BY <2>1 DEF NoPass, Passes, Causes, NoPoll, Polls, Places
<1>2. pass' \in [Indexers -> Passes(slot)] /\ PassesStay(i) /\ pass'[i] = NoPass
  BY <1>1, Zenon DEF TypeOK, Abort, PassesStay
<1>3. /\ poll' \in [Pollers -> Polls(slot)] /\ PollsStay(i)
      /\ i \in Pollers => poll'[i] = IF pass[i].who = "poll" THEN NoPoll ELSE poll[i]
  BY <1>1, Zenon DEF TypeOK, Abort, PollsStay
<1>4. QED
  BY <1>2, <1>3, Zenon

\* A page is full unless there are fewer signatures than it holds.
LEMMA PageSize ==
  ASSUME NEW top \in Nat
  PROVE  Cardinality({s \in 1..top : s + PageLimit > top}) < PageLimit <=> top < PageLimit
<1> DEFINE batch == {s \in 1..top : s + PageLimit > top}
<1>0. PageLimit \in Nat /\ PageLimit > 0
  BY IndexerAssumption
<1>1. CASE top < PageLimit
  <2>1. batch = 1..top
    BY <1>0, <1>1
  <2>2. Cardinality(1..top) = top
    <3>1. Cardinality(1..top) = IF 1 > top THEN 0 ELSE top - 1 + 1
      BY FS_Interval
    <3>2. QED
      BY <3>1
  <2>3. Cardinality(batch) = top
    BY <2>1, <2>2, Zenon
  <2>4. QED
    BY <1>1, <2>3, Zenon
<1>2. CASE ~(top < PageLimit)
  <2>1. batch = (top - PageLimit + 1)..top /\ top - PageLimit + 1 \in Int
    BY <1>0, <1>2
  <2>2. Cardinality((top - PageLimit + 1)..top) = PageLimit
    <3>1. Cardinality((top - PageLimit + 1)..top)
            = IF top - PageLimit + 1 > top THEN 0 ELSE top - (top - PageLimit + 1) + 1
      BY <2>1, FS_Interval
    <3>2. QED
      BY <1>0, <3>1
  <2>3. Cardinality(batch) = PageLimit
    BY <2>1, <2>2, Zenon
  <2>4. QED
    BY <1>0, <1>2, <2>3
<1>3. QED
  BY <1>1, <1>2, Zenon

\* A signature that is stored stays stored.
EventsStay == \A s \in 1..MaxSlot : events[s] # "none" => events'[s] # "none"

\* The page that is read is stored afterwards, and with it everything between the signatures
\* it stops at and the first one of the backfill.
LEMMA PageStored ==
  ASSUME TypeOK, PollsCover, NEW i \in Pollers, FetchPage(i)
  PROVE  /\ events' \in [1..MaxSlot -> {"none", "pending", "done"}] /\ EventsStay
         /\ poll' \in [Pollers -> Polls(slot)] /\ PollsStay(i)
         /\ poll'[i].cursor = poll[i].cursor /\ poll'[i].at \in {"page", "reconcile"}
         /\ poll'[i].at = "page" /\ poll'[i].newest # 0 =>
              poll'[i].before > 0 /\ \A s \in poll'[i].before..poll'[i].newest : events'[s] # "none"
         /\ poll'[i].at = "reconcile" => \A s \in 1..poll'[i].newest : events'[s] # "none"
<1>0. /\ PageLimit \in Nat /\ PageLimit > 0 /\ MaxSlot \in Nat /\ slot \in Nat /\ slot <= MaxSlot
      /\ served \in 0..slot /\ poll[i] \in Polls(slot) /\ poll[i].at = "page"
  <2>1. PageLimit \in Nat /\ PageLimit > 0 /\ MaxSlot \in Nat
    BY IndexerAssumption
  <2>2. slot \in Nat
    BY DEF TypeOK, slot
  <2>3. QED
    BY <2>1, <2>2, Zenon DEF TypeOK, FetchPage
<1>1. /\ poll[i].cursor \in 0..slot /\ poll[i].newest \in 0..slot /\ poll[i].before \in 0..slot
      /\ \A s \in 1..poll[i].cursor : events[s] # "none"
      /\ poll[i].newest # 0 => /\ poll[i].before > 0
                               /\ \A s \in poll[i].before..poll[i].newest : events[s] # "none"
  BY <1>0, Zenon DEF Polls, PollsCover, Stored
<1>2. PICK top \in (IF poll[i].newest = 0 THEN served..slot ELSE {poll[i].before - 1}) :
         LET batch   == {s \in 1..top : s + PageLimit > top}
             reached == poll[i].cursor \in batch
             missing == {s \in batch : reached => s > poll[i].cursor}
             last    == LastPage(batch, reached)
         IN /\ events' = [s \in 1..MaxSlot |->
                  IF s \in missing /\ events[s] = "none"
                  THEN IF Decoded(s) THEN "done" ELSE "pending"
                  ELSE events[s]]
            /\ poll' = [poll EXCEPT ![i].at = IF last THEN "reconcile" ELSE "page",
                          ![i].newest = IF @ = 0 THEN top ELSE @,
                          ![i].before = IF last THEN 0 ELSE top - PageLimit + 1]
  BY Zenon DEF FetchPage
<1> DEFINE batch == {s \in 1..top : s + PageLimit > top}
           reached == poll[i].cursor \in batch
           last == reached \/ top < PageLimit
           newest == IF poll[i].newest = 0 THEN top ELSE poll[i].newest
           before == IF last THEN 0 ELSE top - PageLimit + 1
           at == IF last THEN "reconcile" ELSE "page"
<1>3. top \in 0..slot /\ (poll[i].newest # 0 => top + 1 = poll[i].before)
  BY <1>0, <1>1
<1>4. LastPage(batch, reached) <=> last
  BY <1>3, PageSize DEF LastPage
<1>5. /\ \A s \in 1..MaxSlot : s \in batch /\ (reached => s > poll[i].cursor) => events'[s] # "none"
      /\ events' \in [1..MaxSlot -> {"none", "pending", "done"}] /\ EventsStay
  BY <1>2, Zenon DEF TypeOK, EventsStay
<1>6. at \in Places /\ newest \in 0..slot /\ before \in 0..slot
  BY <1>0, <1>1, <1>3 DEF Places
<1>7. poll' = [poll EXCEPT ![i].at = at, ![i].newest = newest, ![i].before = before]
  BY <1>2, <1>4, Zenon
<1>8. \A s \in batch : events'[s] # "none"
  BY <1>0, <1>1, <1>3, <1>5, SMTT(30) DEF EventsStay
<1>9. \A s \in 1..newest : s > top => events'[s] # "none"
  BY <1>0, <1>1, <1>3, <1>5, SMTT(30) DEF EventsStay
<1>10. last => \A s \in 1..newest : events'[s] # "none"
  BY <1>0, <1>1, <1>3, <1>5, <1>8, <1>9, SMTT(30) DEF EventsStay
<1>11. ~last => before > 0 /\ \A s \in before..newest : events'[s] # "none"
  BY <1>0, <1>1, <1>3, <1>8, <1>9
<1> HIDE DEF batch, reached, last, newest, before, at
<1>12. [poll[i] EXCEPT !.at = at, !.newest = newest, !.before = before] \in Polls(slot)
  BY <1>0, <1>6, Zenon DEF Polls
<1>13. poll' \in [Pollers -> Polls(slot)] /\ PollsStay(i)
  BY <1>7, <1>12, Zenon DEF TypeOK, PollsStay
<1>14. /\ poll'[i].cursor = poll[i].cursor /\ poll'[i].at = at /\ poll'[i].newest = newest
       /\ poll'[i].before = before
  BY <1>0, <1>7, Zenon DEF TypeOK, Polls
<1>15. QED
  BY <1>5, <1>10, <1>11, <1>13, <1>14, Zenon DEF at

\* The accounts of one slot are read.
LEMMA SnapshotMoves ==
  ASSUME TypeOK, NEW i \in Indexers, Snapshot(i)
  PROVE  /\ pass' \in [Indexers -> Passes(slot)] /\ PassesStay(i)
         /\ pass'[i].at = "rows" /\ pass'[i].who = pass[i].who /\ pass'[i].slot \in 0..slot
         /\ \A a \in Account : a \in pass'[i].todo <=> Version(pass'[i].slot, a) # 0
<1>1. PICK s \in served..slot :
        pass' = [pass EXCEPT ![i].at = "rows", ![i].slot = s,
                   ![i].todo = {a \in Account : Version(s, a) # 0}]
  BY Zenon DEF Snapshot
<1> DEFINE T == {a \in Account : Version(s, a) # 0}
<1>2. s \in 0..slot /\ pass[i] \in Passes(slot)
  <2>1. slot \in Nat
    BY DEF TypeOK, slot
  <2>2. QED
    BY <2>1 DEF TypeOK
<1>3. T \in SUBSET Account /\ \A a \in Account : a \in T <=> Version(s, a) # 0
  BY Zenon
<1>4. pass' = [pass EXCEPT ![i].at = "rows", ![i].slot = s, ![i].todo = T]
  BY <1>1, Zenon
<1> HIDE DEF T
<1>5. [pass[i] EXCEPT !.at = "rows", !.slot = s, !.todo = T] \in Passes(slot)
  BY <1>2, <1>3, Zenon DEF Passes
<1>6. pass' \in [Indexers -> Passes(slot)] /\ PassesStay(i)
  BY <1>4, <1>5, Zenon DEF TypeOK, PassesStay
<1>7. /\ pass'[i].at = "rows" /\ pass'[i].who = pass[i].who /\ pass'[i].slot = s
      /\ pass'[i].todo = T
  BY <1>2, <1>4, Zenon DEF TypeOK, Passes
<1>8. QED
  BY <1>2, <1>3, <1>6, <1>7, Zenon

\* A row is stored, unless the stored one was read in a later slot.
LEMMA ApplyRowMoves ==
  ASSUME TypeOK, NEW i \in Indexers, NEW a \in Account, ApplyRow(i, a)
  PROVE  /\ pass' \in [Indexers -> Passes(slot)] /\ PassesStay(i)
         /\ pass'[i].at = "rows" /\ pass'[i].who = pass[i].who /\ pass'[i].slot = pass[i].slot
         /\ pass'[i].todo = pass[i].todo \ {a}
         /\ rows' \in [Account -> [ver : Nat, slot : 0..slot]]
         /\ \A b \in Account \ {a} : rows'[b] = rows[b]
         /\ rows[a].slot <= pass[i].slot => /\ rows'[a].ver = Version(pass[i].slot, a)
                                            /\ rows'[a].slot = pass[i].slot
         /\ ~(rows[a].slot <= pass[i].slot) => rows'[a] = rows[a]
<1>1. /\ pass' = [pass EXCEPT ![i].todo = @ \ {a}] /\ pass[i].at = "rows"
      /\ rows' = IF rows[a].slot <= pass[i].slot
                 THEN [rows EXCEPT ![a] = project(a, pass[i].slot)] ELSE rows
  BY Zenon DEF ApplyRow
<1>2. pass[i] \in Passes(slot) /\ pass[i].slot \in 0..slot
  BY Zenon DEF TypeOK, Passes
<1>3. [pass[i] EXCEPT !.todo = @ \ {a}] \in Passes(slot)
  BY <1>2, Zenon DEF Passes
<1>4. pass' \in [Indexers -> Passes(slot)] /\ PassesStay(i)
  BY <1>1, <1>3, Zenon DEF TypeOK, PassesStay
<1>5. /\ pass'[i].at = "rows" /\ pass'[i].who = pass[i].who /\ pass'[i].slot = pass[i].slot
      /\ pass'[i].todo = pass[i].todo \ {a}
  BY <1>1, <1>2, Zenon DEF TypeOK, Passes
<1>6. /\ project(a, pass[i].slot) \in [ver : Nat, slot : 0..slot]
      /\ project(a, pass[i].slot).ver = Version(pass[i].slot, a)
      /\ project(a, pass[i].slot).slot = pass[i].slot
  BY <1>2, VersionTyped, Zenon DEF project
<1>7. /\ rows' \in [Account -> [ver : Nat, slot : 0..slot]]
      /\ \A b \in Account \ {a} : rows'[b] = rows[b]
      /\ rows[a].slot <= pass[i].slot => rows'[a] = project(a, pass[i].slot)
      /\ ~(rows[a].slot <= pass[i].slot) => rows'[a] = rows[a]
  BY <1>1, <1>6, Zenon DEF TypeOK
<1>8. QED
  BY <1>4, <1>5, <1>6, <1>7, Zenon

\* The pass is over, or begins again with another snapshot; a backfill that waited goes on.
LEMMA FinishMoves ==
  ASSUME TypeOK, NEW i \in Indexers, FinishPass(i)
  PROVE  /\ pass' \in [Indexers -> Passes(slot)] /\ dirty' \in [Indexers -> BOOLEAN]
         /\ poll' \in [Pollers -> Polls(slot)] /\ recon' \in 0..slot
         /\ PassesStay(i) /\ PollsStay(i) /\ pass'[i].at # "rows"
         /\ \/ pass'[i].who = pass[i].who /\ poll' = poll
            \/ pass'[i].who = "none" /\ pass[i].who # "poll" /\ poll' = poll
            \/ /\ pass'[i].who = "none" /\ pass[i].who = "poll"
               /\ i \in Pollers => /\ poll'[i].at = "pending" /\ poll'[i].cursor = poll[i].cursor
                                   /\ poll'[i].newest = poll[i].newest
<1>1. dirty' \in [Indexers -> BOOLEAN]
  BY Zenon DEF TypeOK, FinishPass
<1>2. slot \in Nat /\ pass[i] \in Passes(slot)
  <2>1. slot \in Nat
    BY DEF TypeOK, slot
  <2>2. QED
    BY <2>1, Zenon DEF TypeOK
<1>3. recon' \in 0..slot /\ pass[i].who \in Causes
  BY <1>2, Zenon DEF FinishPass, Passes
<1>4. NoPass \in Passes(slot) /\ NoPass.at = "idle" /\ NoPass.who = "none"
  BY <1>2 DEF NoPass, Passes, Causes
<1>5. CASE Again(i)
  <2>1. /\ pass' = [pass EXCEPT ![i] = [NoPass EXCEPT !.at = "snap", !.who = pass[i].who]]
        /\ poll' = poll
    BY <1>5, Zenon DEF FinishPass
  <2>2. [NoPass EXCEPT !.at = "snap", !.who = pass[i].who] \in Passes(slot)
    BY <1>3, <1>4, Zenon DEF Passes
  <2>3. /\ [NoPass EXCEPT !.at = "snap", !.who = pass[i].who].at = "snap"
        /\ [NoPass EXCEPT !.at = "snap", !.who = pass[i].who].who = pass[i].who
    BY Zenon DEF NoPass
  <2>4. /\ pass' \in [Indexers -> Passes(slot)] /\ PassesStay(i)
        /\ pass'[i] = [NoPass EXCEPT !.at = "snap", !.who = pass[i].who]
    BY <2>1, <2>2, Zenon DEF TypeOK, PassesStay
  <2>5. poll' \in [Pollers -> Polls(slot)] /\ PollsStay(i)
    BY <2>1, Zenon DEF TypeOK, PollsStay
  <2>6. QED
    BY <1>1, <1>3, <2>1, <2>3, <2>4, <2>5, Zenon
<1>6. CASE ~Again(i)
  <2>1. /\ pass' = [pass EXCEPT ![i] = NoPass]
        /\ poll' = IF pass[i].who = "poll" THEN [poll EXCEPT ![i].at = "pending"] ELSE poll
    BY <1>6, Zenon DEF FinishPass
  <2>2. pass' \in [Indexers -> Passes(slot)] /\ PassesStay(i) /\ pass'[i] = NoPass
    BY <1>4, <2>1, Zenon DEF TypeOK, PassesStay
  <2>3. CASE pass[i].who # "poll"
    <3>1. poll' = poll /\ poll' \in [Pollers -> Polls(slot)] /\ PollsStay(i)
      BY <2>1, <2>3, Zenon DEF TypeOK, PollsStay
    <3>2. QED
      BY <1>1, <1>3, <1>4, <2>2, <2>3, <3>1, Zenon
  <2>4. CASE pass[i].who = "poll"
    <3>1. poll' = [poll EXCEPT ![i].at = "pending"]
      BY <2>1, <2>4, Zenon
    <3>2. \A k \in Pollers : [poll[k] EXCEPT !.at = "pending"] \in Polls(slot)
      <4> TAKE k \in Pollers
      <4>1. poll[k] \in Polls(slot)
        BY Zenon DEF TypeOK
      <4>2. QED
        BY <4>1, Zenon DEF Polls, Places
    <3>3. poll' \in [Pollers -> Polls(slot)] /\ PollsStay(i)
      BY <3>1, <3>2, Zenon DEF TypeOK, PollsStay
    <3>4. i \in Pollers => /\ poll'[i].at = "pending" /\ poll'[i].cursor = poll[i].cursor
                           /\ poll'[i].newest = poll[i].newest
      BY <3>1, ZenonT(60) DEF TypeOK, Polls
    <3>5. QED
      BY <1>1, <1>3, <1>4, <2>2, <2>4, <3>3, <3>4, Zenon
  <2>5. QED
    BY <2>3, <2>4, Zenon
<1>7. QED
  BY <1>5, <1>6, Zenon

\* A backfill goes on to another place, with its cursor and its first signature.
GoesOn(i) ==
  /\ poll' \in [Pollers -> Polls(slot)] /\ PollsStay(i)
  /\ poll'[i].cursor = poll[i].cursor /\ poll'[i].newest = poll[i].newest
  /\ poll[i].at \notin {"idle", "page"} /\ poll'[i].at \notin {"idle", "page"}

\* Where each step of a poll continues (indexer/index.ts).
LEMMA PollMoves ==
  ASSUME TypeOK, NEW i \in Pollers
  PROVE  /\ PollReconcile(i) => GoesOn(i) /\ (poll'[i].at = "wait" <=> pass[i].at = "idle")
         /\ ReadPending(i) => GoesOn(i) /\ poll[i].at = "pending" /\ poll'[i].at = "repair"
         /\ \A s \in 1..MaxSlot :
              Decode(i, s) \/ Repair(i, s) =>
                GoesOn(i) /\ poll[i].at \in {"repair", "write"} /\ poll'[i].at \in {"repair", "write"}
<1>0. slot \in Nat /\ poll[i] \in Polls(slot)
  <2>1. slot \in Nat
    BY DEF TypeOK, slot
  <2>2. QED
    BY <2>1, Zenon DEF TypeOK
<1>1. ASSUME PollReconcile(i)
      PROVE  GoesOn(i) /\ (poll'[i].at = "wait" <=> pass[i].at = "idle")
  <2> DEFINE at == IF pass[i].at = "idle" THEN "wait" ELSE "pending"
  <2>1. poll' = [poll EXCEPT ![i].at = at] /\ poll[i].at = "reconcile"
    BY <1>1, Zenon DEF PollReconcile
  <2>2. at \in Places /\ at \notin {"idle", "page"} /\ (at = "wait" <=> pass[i].at = "idle")
    BY Zenon DEF Places
  <2> HIDE DEF at
  <2>3. [poll[i] EXCEPT !.at = at] \in Polls(slot)
    BY <1>0, <2>2, Zenon DEF Polls
  <2>4. poll' \in [Pollers -> Polls(slot)] /\ PollsStay(i)
    BY <2>1, <2>3, Zenon DEF TypeOK, PollsStay
  <2>5. poll'[i].cursor = poll[i].cursor /\ poll'[i].newest = poll[i].newest /\ poll'[i].at = at
    BY <1>0, <2>1, Zenon DEF TypeOK, Polls
  <2>6. QED
    BY <2>1, <2>2, <2>4, <2>5, Zenon DEF GoesOn
<1>2. ASSUME ReadPending(i)
      PROVE  GoesOn(i) /\ poll[i].at = "pending" /\ poll'[i].at = "repair"
  <2> DEFINE T == {s \in Pending(i) : Cardinality({t \in Pending(i) : t < s}) < PendingLimit}
  <2>1. poll' = [poll EXCEPT ![i].at = "repair", ![i].todo = T] /\ poll[i].at = "pending"
    BY <1>2, Zenon DEF ReadPending
  <2>2. T \in SUBSET (1..MaxSlot)
    BY Zenon DEF Pending
  <2> HIDE DEF T
  <2>3. [poll[i] EXCEPT !.at = "repair", !.todo = T] \in Polls(slot)
    BY <1>0, <2>2, Zenon DEF Polls, Places
  <2>4. poll' \in [Pollers -> Polls(slot)] /\ PollsStay(i)
    BY <2>1, <2>3, Zenon DEF TypeOK, PollsStay
  <2>5. /\ poll'[i].cursor = poll[i].cursor /\ poll'[i].newest = poll[i].newest
        /\ poll'[i].at = "repair"
    BY <1>0, <2>1, Zenon DEF TypeOK, Polls
  <2>6. QED
    BY <2>1, <2>4, <2>5, Zenon DEF GoesOn
<1>3. ASSUME NEW s \in 1..MaxSlot, Decode(i, s)
      PROVE  GoesOn(i) /\ poll[i].at \in {"repair", "write"} /\ poll'[i].at \in {"repair", "write"}
  <2>1. poll' = [poll EXCEPT ![i].at = "write", ![i].got = Decoded(s)] /\ poll[i].at = "repair"
    BY <1>3, Zenon DEF Decode
  <2>2. Decoded(s) \in BOOLEAN
    BY DEF Decoded
  <2>3. [poll[i] EXCEPT !.at = "write", !.got = Decoded(s)] \in Polls(slot)
    BY <1>0, <2>2, Zenon DEF Polls, Places
  <2>4. poll' \in [Pollers -> Polls(slot)] /\ PollsStay(i)
    BY <2>1, <2>3, Zenon DEF TypeOK, PollsStay
  <2>5. /\ poll'[i].cursor = poll[i].cursor /\ poll'[i].newest = poll[i].newest
        /\ poll'[i].at = "write"
    BY <1>0, <2>1, Zenon DEF TypeOK, Polls
  <2>6. QED
    BY <2>1, <2>4, <2>5, Zenon DEF GoesOn
<1>4. ASSUME NEW s \in 1..MaxSlot, Repair(i, s)
      PROVE  GoesOn(i) /\ poll[i].at \in {"repair", "write"} /\ poll'[i].at \in {"repair", "write"}
  <2>1. /\ poll' = [poll EXCEPT ![i].at = "repair", ![i].todo = @ \ {s}, ![i].got = FALSE]
        /\ poll[i].at = "write"
    BY <1>4, Zenon DEF Repair
  <2>3. [poll[i] EXCEPT !.at = "repair", !.todo = @ \ {s}, !.got = FALSE] \in Polls(slot)
    BY <1>0, Zenon DEF Polls, Places
  <2>4. poll' \in [Pollers -> Polls(slot)] /\ PollsStay(i)
    BY <2>1, <2>3, Zenon DEF TypeOK, PollsStay
  <2>5. /\ poll'[i].cursor = poll[i].cursor /\ poll'[i].newest = poll[i].newest
        /\ poll'[i].at = "repair"
    BY <1>0, <2>1, Zenon DEF TypeOK, Polls
  <2>6. QED
    BY <2>1, <2>4, <2>5, Zenon DEF GoesOn
<1>5. QED
  BY <1>1, <1>2, <1>3, <1>4, Zenon

\* A backfill begins with the watermark as its cursor, or ends.
LEMMA PollEnds ==
  ASSUME TypeOK, NEW i \in Pollers
  PROVE  /\ StartPoll(i) => /\ poll' \in [Pollers -> Polls(slot)] /\ PollsStay(i)
                            /\ poll'[i].at = "page" /\ poll'[i].cursor = history
                            /\ poll'[i].newest = 0 /\ poll[i].at = "idle"
         /\ poll' = [poll EXCEPT ![i] = NoPoll] => /\ poll' \in [Pollers -> Polls(slot)]
                                                   /\ PollsStay(i) /\ poll'[i] = NoPoll
<1>1. slot \in Nat /\ history \in 0..slot
  <2>1. slot \in Nat
    BY DEF TypeOK, slot
  <2>2. QED
    BY <2>1, Zenon DEF TypeOK
<1>2. NoPoll \in Polls(slot)
  BY <1>1 DEF NoPoll, Polls, Places
<1>3. [NoPoll EXCEPT !.at = "page", !.cursor = history] \in Polls(slot)
  BY <1>1, <1>2, Zenon DEF Polls, Places
<1>4. /\ [NoPoll EXCEPT !.at = "page", !.cursor = history].at = "page"
      /\ [NoPoll EXCEPT !.at = "page", !.cursor = history].cursor = history
      /\ [NoPoll EXCEPT !.at = "page", !.cursor = history].newest = 0
  BY Zenon DEF NoPoll
<1>5. ASSUME StartPoll(i)
      PROVE  /\ poll' \in [Pollers -> Polls(slot)] /\ PollsStay(i) /\ poll[i].at = "idle"
             /\ poll'[i] = [NoPoll EXCEPT !.at = "page", !.cursor = history]
  BY <1>3, <1>5, Zenon DEF TypeOK, StartPoll, PollsStay
<1>6. ASSUME poll' = [poll EXCEPT ![i] = NoPoll]
      PROVE  poll' \in [Pollers -> Polls(slot)] /\ PollsStay(i) /\ poll'[i] = NoPoll
  BY <1>2, <1>6, Zenon DEF TypeOK, PollsStay
<1>7. QED
  BY <1>4, <1>5, <1>6, Zenon

\* Every step keeps chain, tables and processes well typed.
LEMMA TypeStep == TypeOK /\ PollsCover /\ [Next]_vars => TypeOK'
<1> SUFFICES ASSUME TypeOK, PollsCover, [Next]_vars PROVE TypeOK'
  BY Zenon
<1>0. /\ MaxSlot \in Nat /\ MaxFaults \in Nat /\ slot \in Nat
      /\ chain' = chain => slot' = slot
  <2>1. MaxSlot \in Nat /\ MaxFaults \in Nat
    BY IndexerAssumption, Zenon
  <2>2. QED
    BY <2>1 DEF TypeOK, slot
<1> USE DEF chainVars, dbVars, procVars
<1>1. ASSUME NEW a \in Account, NEW c \in BOOLEAN, Transact(a, c) PROVE TypeOK'
  <2>1. slot' = slot + 1 /\ chain' \in Seq([Account -> Nat]) /\ slot' <= MaxSlot
    BY <1>1, ChainExtends, Zenon DEF Extends
  <2>2. /\ served' \in 0..slot' /\ avail' \subseteq 1..slot' /\ recon' \in 0..slot'
        /\ history' \in 0..slot' /\ rows' \in [Account -> [ver : Nat, slot : 0..slot']]
        /\ events' \in [1..MaxSlot -> {"none", "pending", "done"}] /\ faults' \in 0..MaxFaults
    BY <1>0, <1>1, <2>1, SMTT(20) DEF TypeOK, Transact
  <2>3. pass' \in [Indexers -> Passes(slot')]
    <3>1. Passes(slot) \subseteq Passes(slot')
      BY <1>0, <2>1 DEF Passes
    <3>2. QED
      BY <1>1, <3>1, Zenon DEF TypeOK, Transact
  <2>4. poll' \in [Pollers -> Polls(slot')]
    <3>1. Polls(slot) \subseteq Polls(slot')
      BY <1>0, <2>1 DEF Polls
    <3>2. QED
      BY <1>1, <3>1, Zenon DEF TypeOK, Transact
  <2>5. note' \in [Pollers -> BOOLEAN] /\ live' \in [Pollers -> BOOLEAN] /\ dirty' \in [Indexers -> BOOLEAN]
    BY <1>1, Zenon DEF TypeOK, Transact
  <2>6. QED
    BY <2>1, <2>2, <2>3, <2>4, <2>5, Zenon DEF TypeOK
<1>2. CASE CatchUp
  BY <1>0, <1>2 DEF TypeOK, CatchUp
<1>3. ASSUME NEW s \in 1..MaxSlot, Publish(s) PROVE TypeOK'
  BY <1>0, <1>3, Zenon DEF TypeOK, Publish
<1>4. ASSUME NEW i \in Indexers, Snapshot(i) PROVE TypeOK'
  BY <1>0, <1>4, SnapshotMoves, Zenon DEF TypeOK, Snapshot
<1>5. ASSUME NEW i \in Indexers, NEW a \in Account, ApplyRow(i, a) PROVE TypeOK'
  BY <1>0, <1>5, ApplyRowMoves, Zenon DEF TypeOK, ApplyRow
<1>6. ASSUME NEW i \in Indexers, NEW a \in Account, RefuseRow(i, a) PROVE TypeOK'
  BY <1>0, <1>6, AbortMoves, Zenon DEF TypeOK, RefuseRow
<1>7. ASSUME NEW i \in Indexers, FinishPass(i) PROVE TypeOK'
  BY <1>0, <1>7, FinishMoves, Zenon DEF TypeOK, FinishPass
<1>8. ASSUME NEW i \in Callers, Call(i) PROVE TypeOK'
  BY <1>0, <1>8, ReconcileMoves, Zenon DEF TypeOK, Call, Indexers, Causes
<1>9. ASSUME NEW i \in Pollers, Notify(i) PROVE TypeOK'
  <2>1. note' \in [Pollers -> BOOLEAN]
    BY <1>9, Zenon DEF TypeOK, Notify
  <2>2. pass' \in [Indexers -> Passes(slot)] /\ dirty' \in [Indexers -> BOOLEAN]
    BY <1>9, ReconcileMoves, Zenon DEF Notify, Indexers, Causes
  <2>3. QED
    BY <1>0, <1>9, <2>1, <2>2, Zenon DEF TypeOK, Notify
<1>10. ASSUME NEW i \in Pollers, StartPoll(i) PROVE TypeOK'
  BY <1>0, <1>10, PollEnds, Zenon DEF TypeOK, StartPoll
<1>11. ASSUME NEW i \in Pollers, FetchPage(i) PROVE TypeOK'
  BY <1>0, <1>11, PageStored, Zenon DEF TypeOK, FetchPage
<1>12. ASSUME NEW i \in Pollers, PollReconcile(i) PROVE TypeOK'
  <2>1. pass' \in [Indexers -> Passes(slot)] /\ dirty' \in [Indexers -> BOOLEAN]
    BY <1>12, ReconcileMoves, Zenon DEF PollReconcile, Indexers, Causes
  <2>2. QED
    BY <1>0, <1>12, <2>1, PollMoves, Zenon DEF TypeOK, PollReconcile, GoesOn
<1>13. ASSUME NEW i \in Pollers, ReadPending(i) PROVE TypeOK'
  <2>1. poll' \in [Pollers -> Polls(slot)]
    BY <1>13, PollMoves, Zenon DEF GoesOn
  <2>2. QED
    BY <1>0, <1>13, <2>1, Zenon DEF TypeOK, ReadPending
<1>14. ASSUME NEW i \in Pollers, NEW s \in 1..MaxSlot, Decode(i, s) PROVE TypeOK'
  BY <1>0, <1>14, PollMoves, Zenon DEF TypeOK, Decode, GoesOn
<1>15. ASSUME NEW i \in Pollers, NEW s \in 1..MaxSlot, Repair(i, s) PROVE TypeOK'
  <2>1. events' \in [1..MaxSlot -> {"none", "pending", "done"}]
    BY <1>15, Zenon DEF TypeOK, Repair
  <2>2. QED
    BY <1>0, <1>15, <2>1, PollMoves, Zenon DEF TypeOK, Repair, GoesOn
<1>16. ASSUME NEW i \in Pollers, Advance(i) PROVE TypeOK'
  <2>1. live' \in [Pollers -> BOOLEAN]
    BY <1>16, Zenon DEF TypeOK, Advance
  <2>2. history' \in 0..slot
    BY <1>0, <1>16, Zenon DEF TypeOK, Advance, Polls
  <2>3. poll' \in [Pollers -> Polls(slot)]
    BY <1>16, PollEnds, Zenon DEF Advance
  <2>4. QED
    BY <1>0, <1>16, <2>1, <2>2, <2>3, Zenon DEF TypeOK, Advance
<1>17. ASSUME NEW i \in Indexers, FailPass(i) PROVE TypeOK'
  BY <1>0, <1>17, AbortMoves, SMTT(20) DEF TypeOK, FailPass
<1>18. ASSUME NEW i \in Pollers, FailPoll(i) PROVE TypeOK'
  <2>1. poll' \in [Pollers -> Polls(slot)]
    BY <1>18, PollEnds, Zenon DEF FailPoll
  <2>2. QED
    BY <1>0, <1>18, <2>1 DEF TypeOK, FailPoll
<1>19. ASSUME NEW i \in Pollers, Crash(i) PROVE TypeOK'
  <2>1. dirty' \in [Indexers -> BOOLEAN] /\ live' \in [Pollers -> BOOLEAN] /\ note' \in [Pollers -> BOOLEAN]
    BY <1>19, Zenon DEF TypeOK, Crash
  <2>2. poll' \in [Pollers -> Polls(slot)]
    BY <1>19, PollEnds, Zenon DEF Crash
  <2>3. pass' \in [Indexers -> Passes(slot)]
    <3>1. NoPass \in Passes(slot)
      BY <1>0 DEF NoPass, Passes, Causes
    <3>2. QED
      BY <1>19, <3>1, Zenon DEF TypeOK, Crash
  <2>4. QED
    BY <1>0, <1>19, <2>1, <2>2, <2>3, SMTT(30) DEF TypeOK, Crash
<1>20. ASSUME NEW i \in Pollers, Drop(i) PROVE TypeOK'
  <2>1. note' \in [Pollers -> BOOLEAN]
    BY <1>20, Zenon DEF TypeOK, Drop
  <2>2. QED
    BY <1>0, <1>20, <2>1 DEF TypeOK, Drop
<1>21. CASE UNCHANGED vars
  BY <1>0, <1>21, Zenon DEF TypeOK, vars
<1>22. QED
  BY <1>1, <1>2, <1>3, <1>4, <1>5, <1>6, <1>7, <1>8, <1>9, <1>10, <1>11, <1>12, <1>13, <1>14,
     <1>15, <1>16, <1>17, <1>18, <1>19, <1>20, <1>21, Zenon
     DEF Next, PassStep, PollStep
-------------------------------------------------------------------------------
(* The tables. *)

\* An account that exists in a slot is there as in an earlier one, or written since.
LEMMA VersionGrows ==
  ASSUME TypeOK, ChainGrows, NEW a \in Account, NEW s \in 0..slot, NEW t \in 0..s,
         Version(s, a) # 0
  PROVE  Version(t, a) <= Version(s, a)
<1>1. slot \in Nat
  BY DEF TypeOK, slot
<1>2. t \in 0..slot /\ s # 0 /\ Version(s, a) = chain[s][a] /\ chain[s][a] \in Nat
  BY <1>1, VersionTyped DEF Version
<1>3. t # 0 => Version(t, a) = chain[t][a]
  BY <1>2, VersionTyped, Zenon
<1>4. t = 0 => Version(t, a) = 0
  BY Zenon DEF Version
<1>5. \A u \in 1..s : chain[u][a] <= chain[s][a]
  BY <1>1, <1>2 DEF ChainGrows
<1>6. QED
  BY <1>1, <1>2, <1>3, <1>4, <1>5

\* The order of the tables does the rest: a row's parents are stored before it.
LEMMA ParentsStored == TypeOK /\ ChainGrows /\ PassesCover => ParentsFirst
<1> SUFFICES ASSUME TypeOK, ChainGrows, PassesCover,
                    NEW i \in Indexers, pass[i].at = "rows",
                    NEW a \in NextRows(i), NEW p \in Parents[a]
             PROVE  rows[p].ver # 0
  BY Zenon DEF ParentsFirst
<1>1. a \in pass[i].todo /\ a \in Account /\ \A b \in pass[i].todo : Rank[a] <= Rank[b]
  BY Zenon DEF NextRows, TypeOK, Passes
<1>2. p \in Account /\ Rank[p] < Rank[a] /\ Rank[p] \in Nat /\ Rank[a] \in Nat
  BY <1>1, IndexerAssumption, Zenon
<1>3. p \notin pass[i].todo
  BY <1>1, <1>2
<1>4. pass[i].slot \in 0..slot /\ Version(pass[i].slot, a) # 0
  BY <1>1, Zenon DEF TypeOK, Passes, PassesCover
<1>5. Version(pass[i].slot, p) # 0
  <2>1. slot \in Nat
    BY DEF TypeOK, slot
  <2>2. pass[i].slot \in 1..slot /\ chain[pass[i].slot][a] # 0
    BY <1>4, <2>1 DEF Version
  <2>3. chain[pass[i].slot][p] # 0
    BY <1>1, <2>2, Zenon DEF ChainGrows
  <2>4. QED
    BY <2>1, <2>2, <2>3 DEF Version
<1>6. rows[p].ver >= Version(pass[i].slot, p) /\ Version(pass[i].slot, p) \in Nat /\ rows[p].ver \in Nat
  BY <1>2, <1>3, <1>4, VersionTyped, Zenon DEF PassesCover, TypeOK
<1>7. QED
  BY <1>5, <1>6

\* What the rest of the program does to the tables: nothing.
Quiet ==
  /\ UNCHANGED <<chain, rows, recon>>
  /\ \A k \in Indexers : pass'[k] = pass[k] \/ pass'[k].at # "rows"

\* Only transactions, snapshots and the steps of a pass concern the tables.
LEMMA TableSteps ==
  ASSUME TypeOK, [Next]_vars
  PROVE  \/ Quiet
         \/ \E a \in Account, c \in BOOLEAN : Transact(a, c)
         \/ \E i \in Indexers : Snapshot(i) \/ FinishPass(i)
         \/ \E i \in Indexers, a \in Account : ApplyRow(i, a)
<1> USE DEF chainVars, dbVars, procVars
<1>1. ASSUME CatchUp \/ (\E s \in 1..MaxSlot : Publish(s)) \/ UNCHANGED vars PROVE Quiet
  BY <1>1, Zenon DEF Quiet, CatchUp, Publish, vars
<1>2. ASSUME NEW i \in Indexers, NEW a \in Account, RefuseRow(i, a) PROVE Quiet
  <2>1. NoPass.at = "idle"
    BY Zenon DEF NoPass
  <2>2. QED
    BY <1>2, <2>1, AbortMoves, Zenon DEF Quiet, RefuseRow, PassesStay
<1>3. ASSUME NEW i \in Indexers, FailPass(i) PROVE Quiet
  <2>1. NoPass.at = "idle"
    BY Zenon DEF NoPass
  <2>2. QED
    BY <1>3, <2>1, AbortMoves, Zenon DEF Quiet, FailPass, PassesStay
<1>4. ASSUME NEW i \in Indexers, NEW who \in Causes, Reconcile(i, who)
      PROVE  \A k \in Indexers : pass'[k] = pass[k] \/ pass'[k].at # "rows"
  BY <1>4, ReconcileMoves, Zenon DEF PassesStay
<1>5. ASSUME NEW i \in Callers, Call(i) PROVE Quiet
  BY <1>4, <1>5, Zenon DEF Quiet, Call, Indexers, Causes
<1>6. ASSUME NEW i \in Pollers, Notify(i) PROVE Quiet
  BY <1>4, <1>6, Zenon DEF Quiet, Notify, Indexers, Causes
<1>7. ASSUME NEW i \in Pollers, PollReconcile(i) PROVE Quiet
  BY <1>4, <1>7, Zenon DEF Quiet, PollReconcile, Indexers, Causes
<1>8. ASSUME NEW i \in Pollers, PollStep(i) PROVE Quiet
  BY <1>7, <1>8, Zenon DEF Quiet, PollStep, StartPoll, FetchPage, ReadPending, Decode, Repair, Advance
<1>9. ASSUME NEW i \in Pollers, Crash(i) PROVE Quiet
  <2>1. NoPass.at = "idle"
    BY Zenon DEF NoPass
  <2>2. QED
    BY <1>9, <2>1, Zenon DEF Quiet, Crash, TypeOK
<1>10. ASSUME NEW i \in Pollers, FailPoll(i) \/ Drop(i) PROVE Quiet
  BY <1>10, Zenon DEF Quiet, FailPoll, Drop
<1>11. QED
  BY <1>1, <1>2, <1>3, <1>5, <1>6, <1>8, <1>9, <1>10, Zenon DEF Next, PassStep

\* The other steps keep what is known of the tables.
LEMMA QuietTables ==
  ASSUME TablesInv, TypeOK', Quiet
  PROVE  TablesInv'
<1>1. ChainGrows' /\ RowsRead' /\ ReconciledToCursor'
  BY Zenon DEF TablesInv, TablesSound, Quiet, ChainGrows, RowsRead, ReconciledToCursor, Version, slot
<1>2. PassesCover'
  BY Zenon DEF TablesInv, Quiet, PassesCover, Version
<1>3. ParentsFirst'
  BY <1>1, <1>2, ParentsStored, PTL
<1>4. QED
  BY <1>1, <1>2, <1>3, Zenon DEF TablesInv, TablesSound

\* A transaction leaves what was read and stored as it is.
LEMMA TransactTables ==
  ASSUME TablesInv, TypeOK', NEW a \in Account, NEW c \in BOOLEAN, Transact(a, c)
  PROVE  TablesInv'
<1>0. TypeOK /\ ChainGrows /\ RowsRead /\ PassesCover /\ ReconciledToCursor
  BY Zenon DEF TablesInv, TablesSound
<1>1. slot \in Nat /\ Extends(a, c) /\ slot' = slot + 1
  BY <1>0, ChainExtends, Zenon DEF Extends
<1>2. UNCHANGED <<rows, recon, pass>>
  BY Zenon DEF Transact, dbVars
<1>3. \A s \in 0..slot, b \in Account :
        (IF s = 0 THEN 0 ELSE chain'[s][b]) = (IF s = 0 THEN 0 ELSE chain[s][b])
  BY <1>1 DEF Extends
<1>4. /\ recon \in 0..slot /\ \A b \in Account : rows[b].slot \in 0..slot
      /\ \A i \in Indexers : pass[i].slot \in 0..slot
  BY <1>0, Zenon DEF TypeOK, Passes
<1>5. RowsRead' /\ ReconciledToCursor' /\ PassesCover'
  <2>1. RowsRead'
    BY <1>0, <1>2, <1>3, <1>4, Zenon DEF RowsRead, Version
  <2>2. ReconciledToCursor'
    BY <1>0, <1>2, <1>3, <1>4, Zenon DEF ReconciledToCursor, Version
  <2>3. PassesCover'
    BY <1>0, <1>2, <1>3, <1>4, SMTT(30) DEF PassesCover, Version
  <2>4. QED
    BY <2>1, <2>2, <2>3, Zenon
<1>6. ChainGrows'
  <2>1. SUFFICES ASSUME NEW s \in 1..(slot + 1), NEW b \in Account
                 PROVE  /\ chain'[s][b] <= s
                        /\ chain'[s][b] # 0 => /\ \A t \in 1..s : chain'[t][b] <= chain'[s][b]
                                               /\ \A p \in Parents[b] : chain'[s][p] # 0
    BY <1>1, Zenon DEF ChainGrows
  <2>2. \A p \in Parents[b] : p \in Account /\ Rank[p] < Rank[b] /\ p \notin Closable /\ p # b
    <3>1. Rank[b] \in Nat
      BY IndexerAssumption, Zenon
    <3>2. QED
      BY <3>1, IndexerAssumption
  <2>3. CASE s \in 1..slot
    <3>1. \A t \in 1..s : chain'[t] = chain[t]
      BY <1>1, <2>3 DEF Extends
    <3>2. chain'[s] = chain[s]
      BY <1>1, <2>3, Zenon DEF Extends
    <3>3. QED
      BY <1>0, <2>3, <3>1, <3>2, Zenon DEF ChainGrows
  <2>4. CASE s = slot + 1
    <3>1. \A t \in 1..slot : chain'[t][b] = chain[t][b] /\ chain[t][b] \in Nat /\ chain[t][b] <= t
      <4>1. \A t \in 1..slot : chain[t][b] \in Nat
        BY <1>0, <1>1, VersionTyped
      <4>2. QED
        BY <1>0, <1>1, <4>1, Zenon DEF Extends, ChainGrows
    <3>2. CASE b # a
      <4>1. chain'[s][b] = Version(slot, b) /\ Version(slot, b) \in Nat
        BY <1>0, <1>1, <2>4, <3>2, VersionTyped, SMTT(30) DEF Extends
      <4>2. CASE Version(slot, b) = 0
        BY <1>1, <2>4, <4>1, <4>2, SMTT(30)
      <4>3. CASE Version(slot, b) # 0
        <5>1. slot \in 1..slot /\ Version(slot, b) = chain[slot][b]
          BY <1>1, <4>3 DEF Version
        <5>2. /\ chain[slot][b] <= slot /\ \A t \in 1..slot : chain[t][b] <= chain[slot][b]
              /\ \A p \in Parents[b] : chain[slot][p] # 0
          BY <1>0, <4>3, <5>1, Zenon DEF ChainGrows
        <5>3. \A p \in Parents[b] : chain'[s][p] # 0
          <6> TAKE p \in Parents[b]
          <6>1. CASE p # a
            BY <1>1, <2>2, <2>4, <5>1, <5>2, <6>1, SMTT(30) DEF Extends, Version
          <6>2. CASE p = a
            <7>1. ~c
              BY <2>2, <6>2, Zenon DEF Transact
            <7>2. QED
              BY <1>1, <2>4, <6>2, <7>1 DEF Extends
          <6>3. QED
            BY <6>1, <6>2, Zenon
        <5>4. \A t \in 1..s : chain'[t][b] <= chain'[s][b]
          BY <1>1, <2>4, <3>1, <4>1, <5>1, <5>2, SMTT(30)
        <5>5. QED
          BY <1>1, <2>4, <4>1, <5>1, <5>2, <5>3, <5>4, SMTT(30)
      <4>4. QED
        BY <4>2, <4>3, Zenon
    <3>3. CASE b = a
      <4>1. CASE c
        BY <1>1, <2>4, <3>3, <4>1 DEF Extends
      <4>2. CASE ~c
        <5>1. chain'[s][b] = slot + 1
          BY <1>1, <2>4, <3>3, <4>2, Zenon DEF Extends
        <5>2. \A p \in Parents[b] : chain'[s][p] # 0
          BY <1>1, <2>2, <2>4, <3>3, Zenon DEF Extends, Transact
        <5>3. QED
          BY <1>1, <2>4, <3>1, <5>1, <5>2, SMTT(30)
      <4>3. QED
        BY <4>1, <4>2, Zenon
    <3>4. QED
      BY <3>2, <3>3, Zenon
  <2>5. QED
    BY <1>1, <2>3, <2>4
<1>7. ParentsFirst'
  BY <1>5, <1>6, ParentsStored, PTL
<1>8. QED
  BY <1>5, <1>6, <1>7, Zenon DEF TablesInv, TablesSound

\* A row that is stored is not older than the one it replaces, and one that is kept is not
\* older than the one that was read.
LEMMA RowGrows ==
  ASSUME TablesInv, NEW i \in Indexers, NEW a \in Account, ApplyRow(i, a)
  PROVE  /\ rows'[a].ver >= rows[a].ver /\ rows'[a].ver >= Version(pass[i].slot, a)
         /\ rows'[a].ver \in Nat /\ rows[a].ver \in Nat
         /\ rows'[a].ver = Version(rows'[a].slot, a) /\ (rows'[a].slot # 0 => rows'[a].ver # 0)
<1>0. TypeOK /\ ChainGrows /\ RowsRead /\ PassesCover
  BY Zenon DEF TablesInv, TablesSound
<1>1. slot \in Nat
  BY <1>0 DEF TypeOK, slot
<1>2. /\ pass[i].slot \in 0..slot /\ rows[a].slot \in 0..slot /\ rows[a].ver \in Nat
      /\ rows[a].ver = Version(rows[a].slot, a) /\ (rows[a].slot # 0 => rows[a].ver # 0)
  BY <1>0, Zenon DEF TypeOK, Passes, RowsRead
<1>3. Version(pass[i].slot, a) # 0 /\ Version(pass[i].slot, a) \in Nat
  BY <1>0, <1>2, VersionTyped, Zenon DEF ApplyRow, NextRows, PassesCover
<1>4. CASE rows[a].slot <= pass[i].slot
  <2>1. rows'[a].ver = Version(pass[i].slot, a) /\ rows'[a].slot = pass[i].slot
    BY <1>0, <1>4, ApplyRowMoves, Zenon
  <2>2. Version(rows[a].slot, a) <= Version(pass[i].slot, a)
    BY <1>0, <1>1, <1>2, <1>3, <1>4, VersionGrows, SMTT(30)
  <2>3. QED
    BY <1>2, <1>3, <2>1, <2>2, SMTT(20)
<1>5. CASE ~(rows[a].slot <= pass[i].slot)
  <2>1. rows'[a] = rows[a]
    BY <1>0, <1>5, ApplyRowMoves, Zenon
  <2>2. Version(pass[i].slot, a) <= Version(rows[a].slot, a)
    BY <1>0, <1>1, <1>2, <1>5, VersionGrows
  <2>3. QED
    BY <1>2, <1>3, <2>1, <2>2, SMTT(20)
<1>6. QED
  BY <1>4, <1>5, Zenon

\* Every step keeps the tables sound.
LEMMA TablesStep == TablesInv /\ TypeOK' /\ [Next]_vars => TablesInv'
<1> SUFFICES ASSUME TablesInv, TypeOK', [Next]_vars PROVE TablesInv'
  BY Zenon
<1>0. TypeOK /\ ChainGrows /\ RowsRead /\ PassesCover /\ ReconciledToCursor
  BY Zenon DEF TablesInv, TablesSound
<1>1. CASE Quiet
  BY <1>1, QuietTables, Zenon
<1>2. ASSUME NEW a \in Account, NEW c \in BOOLEAN, Transact(a, c) PROVE TablesInv'
  BY <1>2, TransactTables, Zenon
<1>3. ASSUME NEW i \in Indexers, Snapshot(i) PROVE TablesInv'
  <2>1. UNCHANGED <<chain, rows, recon>>
    BY <1>3, Zenon DEF Snapshot, chainVars, dbVars
  <2>2. ChainGrows' /\ RowsRead' /\ ReconciledToCursor'
    BY <1>0, <2>1, Zenon DEF ChainGrows, RowsRead, ReconciledToCursor, Version, slot
  <2>3. PassesCover'
    <3>1. /\ PassesStay(i) /\ pass'[i].slot \in 0..slot
          /\ \A a \in Account : a \in pass'[i].todo <=> Version(pass'[i].slot, a) # 0
      BY <1>0, <1>3, SnapshotMoves, Zenon
    <3>2. \A a \in Account : rows[a].ver \in Nat
      BY <1>0, Zenon DEF TypeOK
    <3>3. QED
      BY <1>0, <2>1, <3>1, <3>2 DEF PassesCover, PassesStay, Version
  <2>4. ParentsFirst'
    BY <2>2, <2>3, ParentsStored, PTL
  <2>5. QED
    BY <2>2, <2>3, <2>4, Zenon DEF TablesInv, TablesSound
<1>4. ASSUME NEW i \in Indexers, FinishPass(i) PROVE TablesInv'
  <2>1. UNCHANGED <<chain, rows>> /\ recon' = pass[i].slot /\ pass[i].at = "rows" /\ pass[i].todo = {}
    BY <1>4, Zenon DEF FinishPass, chainVars
  <2>2. ChainGrows' /\ RowsRead'
    BY <1>0, <2>1, Zenon DEF ChainGrows, RowsRead, Version, slot
  <2>3. ReconciledToCursor'
    BY <1>0, <2>1, ZenonT(60) DEF PassesCover, ReconciledToCursor, Version
  <2>4. PassesCover'
    BY <1>0, <1>4, <2>1, FinishMoves DEF PassesCover, PassesStay, Version
  <2>5. ParentsFirst'
    BY <2>2, <2>4, ParentsStored, PTL
  <2>6. QED
    BY <2>2, <2>3, <2>4, <2>5, Zenon DEF TablesInv, TablesSound
<1>5. ASSUME NEW i \in Indexers, NEW a \in Account, ApplyRow(i, a) PROVE TablesInv'
  <2>1. UNCHANGED <<chain, recon>> /\ pass[i].at = "rows" /\ slot' = slot
    BY <1>5, Zenon DEF ApplyRow, chainVars, slot
  <2>2. /\ PassesStay(i) /\ pass'[i].at = "rows" /\ pass'[i].slot = pass[i].slot
        /\ pass'[i].todo = pass[i].todo \ {a} /\ \A b \in Account \ {a} : rows'[b] = rows[b]
    BY <1>0, <1>5, ApplyRowMoves, Zenon
  <2>3. /\ rows'[a].ver >= rows[a].ver /\ rows'[a].ver >= Version(pass[i].slot, a)
        /\ rows'[a].ver \in Nat /\ rows[a].ver \in Nat
        /\ rows'[a].ver = Version(rows'[a].slot, a) /\ (rows'[a].slot # 0 => rows'[a].ver # 0)
    BY <1>5, RowGrows, Zenon
  <2>4. \A s \in 0..slot, b \in Account : Version(s, b) \in Nat
    BY <1>0, VersionTyped, Zenon
  <2>5. /\ recon \in 0..slot /\ \A k \in Indexers : pass[k].slot \in 0..slot
    BY <1>0, Zenon DEF TypeOK, Passes
  <2>6. ChainGrows'
    BY <1>0, <2>1, ZenonT(60) DEF ChainGrows
  <2>7. RowsRead'
    BY <1>0, <2>1, <2>2, <2>3, SMTT(30) DEF RowsRead, Version
  <2>8. ReconciledToCursor'
    <3> SUFFICES ASSUME NEW b \in Account PROVE rows'[b].ver >= Version(recon, b)
      BY <2>1, Zenon DEF ReconciledToCursor, Version
    <3>1. rows[b].ver >= Version(recon, b) /\ Version(recon, b) \in Nat
      BY <1>0, <2>4, <2>5, Zenon DEF ReconciledToCursor
    <3>2. QED
      BY <2>2, <2>3, <3>1
  <2>9. PassesCover'
    <3> SUFFICES ASSUME NEW k \in Indexers, pass'[k].at = "rows", NEW b \in Account
                 PROVE  /\ b \in pass'[k].todo => Version(pass'[k].slot, b) # 0
                        /\ b \notin pass'[k].todo => rows'[b].ver >= Version(pass'[k].slot, b)
      BY <2>1, Zenon DEF PassesCover, Version
    <3>1. /\ pass[k].at = "rows" /\ pass'[k].slot = pass[k].slot
          /\ b \in pass'[k].todo <=> b \in pass[k].todo /\ ~(k = i /\ b = a)
      BY <2>1, <2>2, Zenon DEF PassesStay
    <3>2. /\ b \in pass[k].todo => Version(pass[k].slot, b) # 0
          /\ b \notin pass[k].todo => rows[b].ver >= Version(pass[k].slot, b)
          /\ Version(pass[k].slot, b) \in Nat
      BY <1>0, <2>4, <2>5, <3>1, Zenon DEF PassesCover
    <3>3. QED
      BY <2>2, <2>3, <3>1, <3>2, SMTT(20)
  <2>10. ParentsFirst'
    BY <2>6, <2>9, ParentsStored, PTL
  <2>11. QED
    BY <2>6, <2>7, <2>8, <2>9, <2>10, Zenon DEF TablesInv, TablesSound
<1>6. QED
  BY <1>0, <1>1, <1>2, <1>3, <1>4, <1>5, TableSteps, Zenon
-------------------------------------------------------------------------------
(* The history. *)

OwnPass(i) == pass[i].at # "idle" /\ pass[i].who = "poll"

\* What the rest of the program does to the history and the backfills: nothing.
Idle ==
  /\ UNCHANGED <<events, history, poll>>
  /\ \A k \in Pollers : OwnPass(k)' <=> OwnPass(k)

\* Steps that leave events and polls alone keep the history complete.
LEMMA IdleHistory ==
  ASSUME HistoryInv, TypeOK', Idle
  PROVE  HistoryInv'
BY Zenon DEF HistoryInv, Idle, HistoryComplete, PollsCover, Stored, WaitsForOwn, OwnPass

\* What was stored before a step is stored after it.
LEMMA StoredStays ==
  ASSUME HistoryInv, EventsStay
  PROVE  /\ HistoryComplete => \A s \in 1..history : events'[s] # "none"
         /\ \A k \in Pollers :
              /\ \A s \in 1..poll[k].cursor : events'[s] # "none"
              /\ poll[k].at = "page" /\ poll[k].newest # 0 =>
                   poll[k].before > 0 /\ \A s \in poll[k].before..poll[k].newest : events'[s] # "none"
              /\ poll[k].at \notin {"idle", "page"} =>
                   \A s \in 1..poll[k].newest : events'[s] # "none"
<1>1. slot \in Nat /\ MaxSlot \in Nat /\ slot <= MaxSlot /\ history \in 0..slot
  <2>1. slot \in Nat /\ MaxSlot \in Nat
    BY IndexerAssumption DEF HistoryInv, TypeOK, slot
  <2>2. QED
    BY <2>1, Zenon DEF HistoryInv, TypeOK
<1>2. HistoryComplete => \A s \in 1..history : events'[s] # "none"
  BY <1>1 DEF HistoryComplete, EventsStay
<1>3. ASSUME NEW k \in Pollers
      PROVE  poll[k].cursor \in 0..slot /\ poll[k].before \in 0..slot /\ poll[k].newest \in 0..slot
  BY Zenon DEF HistoryInv, TypeOK, Polls
<1>4. QED
  BY <1>1, <1>2, <1>3 DEF HistoryInv, PollsCover, Stored, EventsStay

\* A backfill that goes on, or is given up, has stored what it had stored.
LEMMA GoesOnCovers ==
  ASSUME HistoryInv, EventsStay, NEW i \in Pollers, PollsStay(i),
         \/ GoesOn(i)
         \/ poll'[i] = NoPoll
         \/ poll'[i] = poll[i]
  PROVE  PollsCover'
<1>1. NoPoll.cursor = 0 /\ NoPoll.at = "idle" /\ 1..0 = {}
  BY DEF NoPoll
<1>2. QED
  BY <1>1, StoredStays DEF PollsCover, Stored, PollsStay, GoesOn

\* A backfill waits for its own pass after the step if nothing happened to the others.
LEMMA OthersWait ==
  ASSUME HistoryInv, NEW i \in Indexers, PassesStay(i), PollsStay(i),
         i \in Pollers => (pass'[i].at # "idle" /\ pass'[i].who = "poll" <=> poll'[i].at = "wait")
  PROVE  WaitsForOwn'
BY ZenonT(60) DEF HistoryInv, WaitsForOwn, PassesStay, PollsStay, Indexers

\* Every step keeps the history without gaps.
LEMMA HistoryStep == HistoryInv /\ TypeOK' /\ [Next]_vars => HistoryInv'
<1> SUFFICES ASSUME HistoryInv, TypeOK', [Next]_vars PROVE HistoryInv'
  BY Zenon
<1>0. TypeOK /\ HistoryComplete /\ PollsCover /\ WaitsForOwn /\ Pollers \subseteq Indexers
  BY Zenon DEF HistoryInv, Indexers
<1> USE DEF chainVars, dbVars, procVars
<1>a. NoPass.at = "idle" /\ NoPoll.at = "idle"
  BY Zenon DEF NoPass, NoPoll
<1>1. ASSUME \/ \E a \in Account, c \in BOOLEAN : Transact(a, c)
             \/ CatchUp \/ \E s \in 1..MaxSlot : Publish(s)
             \/ \E i \in Pollers : Drop(i)
             \/ UNCHANGED vars
      PROVE  Idle
  BY <1>1, Zenon DEF Idle, OwnPass, Transact, CatchUp, Publish, Drop, vars
<1>2. ASSUME NEW i \in Indexers, Snapshot(i) PROVE Idle
  BY <1>0, <1>2, SnapshotMoves, ZenonT(60) DEF Idle, OwnPass, Snapshot, PassesStay
<1>3. ASSUME NEW i \in Indexers, NEW a \in Account, ApplyRow(i, a) PROVE Idle
  BY <1>0, <1>3, ApplyRowMoves, SMTT(20) DEF Idle, OwnPass, ApplyRow, PassesStay
<1>4. ASSUME NEW i \in Callers, Call(i) PROVE Idle
  <2>1. PassesStay(i) /\ pass[i].at = "idle" /\ pass'[i].who = "call"
    BY <1>0, <1>4, ReconcileMoves, Zenon DEF Call, Indexers, Causes
  <2>2. QED
    BY <1>0, <1>4, <2>1, Zenon DEF Idle, OwnPass, Call, PassesStay
<1>5. ASSUME NEW i \in Pollers, Notify(i) PROVE Idle
  <2>1. /\ PassesStay(i) /\ (pass[i].at # "idle" => pass'[i] = pass[i])
        /\ pass[i].at = "idle" => pass'[i].who = "live"
    BY <1>0, <1>5, ReconcileMoves, Zenon DEF Notify, Causes
  <2>2. QED
    BY <1>0, <1>5, <2>1, Zenon DEF Idle, OwnPass, Notify, PassesStay
<1>6. ASSUME NEW i \in Indexers, Abort(i), pass[i].at # "idle", UNCHANGED <<events, history>>
      PROVE  HistoryInv'
  <2>1. /\ PassesStay(i) /\ pass'[i] = NoPass /\ PollsStay(i)
        /\ i \in Pollers => poll'[i] = IF pass[i].who = "poll" THEN NoPoll ELSE poll[i]
    BY <1>0, <1>6, AbortMoves, Zenon
  <2>2. HistoryComplete'
    BY <1>0, <1>6, Zenon DEF HistoryComplete
  <2>3. PollsCover'
    <3>1. CASE i \in Pollers
      BY <1>6, <2>1, <3>1, GoesOnCovers, Zenon DEF EventsStay
    <3>2. CASE i \notin Pollers
      BY <1>0, <1>6, <2>1, <3>2, Zenon DEF PollsCover, Stored, PollsStay
    <3>3. QED
      BY <3>1, <3>2, Zenon
  <2>4. WaitsForOwn'
    <3>1. i \in Pollers => (pass[i].who = "poll" <=> poll[i].at = "wait")
      BY <1>0, <1>6, Zenon DEF WaitsForOwn
    <3>2. QED
      BY <1>a, <2>1, <3>1, OthersWait, Zenon
  <2>5. QED
    BY <2>2, <2>3, <2>4, Zenon DEF HistoryInv
<1>7. ASSUME NEW i \in Indexers, FinishPass(i) PROVE HistoryInv'
  <2>1. UNCHANGED <<events, history>> /\ pass[i].at = "rows"
    BY <1>7, Zenon DEF FinishPass
  <2>2. /\ PassesStay(i) /\ PollsStay(i) /\ poll' \in [Pollers -> Polls(slot)]
        /\ \/ pass'[i].who = pass[i].who /\ poll' = poll
           \/ pass'[i].who = "none" /\ pass[i].who # "poll" /\ poll' = poll
           \/ /\ pass'[i].who = "none" /\ pass[i].who = "poll"
              /\ i \in Pollers => /\ poll'[i].at = "pending" /\ poll'[i].cursor = poll[i].cursor
                                  /\ poll'[i].newest = poll[i].newest
    BY <1>0, <1>7, FinishMoves, Zenon
  <2>3. i \in Pollers => (pass[i].who = "poll" <=> poll[i].at = "wait")
    BY <1>0, <2>1, Zenon DEF WaitsForOwn
  <2>4. HistoryComplete'
    BY <1>0, <2>1, Zenon DEF HistoryComplete
  <2>5. PollsCover'
    <3>1. CASE i \in Pollers
      <4>1. GoesOn(i) \/ poll'[i] = poll[i]
        BY <2>2, <2>3, <3>1, Zenon DEF GoesOn
      <4>2. QED
        BY <2>1, <2>2, <3>1, <4>1, GoesOnCovers, Zenon DEF EventsStay
    <3>2. CASE i \notin Pollers
      BY <1>0, <2>1, <2>2, <3>2, Zenon DEF PollsCover, Stored, PollsStay
    <3>3. QED
      BY <3>1, <3>2, Zenon
  <2>6. WaitsForOwn'
    <3>1. (pass'[i].who = pass[i].who /\ poll' = poll) => pass'[i].at # "idle" \/ pass[i].who = "none"
      <4>1. CASE Again(i)
        <5>1. pass'[i] = [NoPass EXCEPT !.at = "snap", !.who = pass[i].who]
          BY <1>0, <1>7, <4>1, Zenon DEF FinishPass, TypeOK
        <5>2. QED
          BY <5>1, Zenon DEF NoPass
      <4>2. CASE ~Again(i)
        <5>1. pass'[i] = NoPass
          BY <1>0, <1>7, <4>2, ZenonT(60) DEF FinishPass, TypeOK
        <5>2. QED
          BY <5>1 DEF NoPass
      <4>3. QED
        BY <4>1, <4>2, Zenon
    <3>2. QED
      BY <2>2, <2>3, <3>1, OthersWait, Zenon
  <2>7. QED
    BY <2>4, <2>5, <2>6, Zenon DEF HistoryInv
<1>8. ASSUME NEW i \in Pollers, StartPoll(i) PROVE HistoryInv'
  <2>1. UNCHANGED <<events, history, pass>>
    BY <1>8, Zenon DEF StartPoll
  <2>2. /\ PollsStay(i) /\ poll'[i].at = "page" /\ poll'[i].cursor = history
        /\ poll'[i].newest = 0 /\ poll[i].at = "idle"
    BY <1>0, <1>8, PollEnds, Zenon
  <2>3. HistoryComplete'
    BY <1>0, <2>1, Zenon DEF HistoryComplete
  <2>4. PollsCover'
    BY <1>0, <2>1, <2>2, ZenonT(60) DEF PollsCover, Stored, PollsStay, HistoryComplete
  <2>5. WaitsForOwn'
    BY <1>0, <2>1, <2>2, Zenon DEF WaitsForOwn, PollsStay
  <2>6. QED
    BY <2>3, <2>4, <2>5, Zenon DEF HistoryInv
<1>9. ASSUME NEW i \in Pollers, FetchPage(i) PROVE HistoryInv'
  <2>1. UNCHANGED <<history, pass>> /\ poll[i].at = "page"
    BY <1>9, Zenon DEF FetchPage
  <2>2. /\ EventsStay /\ PollsStay(i)
        /\ poll'[i].cursor = poll[i].cursor /\ poll'[i].at \in {"page", "reconcile"}
        /\ poll'[i].at = "page" /\ poll'[i].newest # 0 =>
             poll'[i].before > 0 /\ \A s \in poll'[i].before..poll'[i].newest : events'[s] # "none"
        /\ poll'[i].at = "reconcile" => \A s \in 1..poll'[i].newest : events'[s] # "none"
    BY <1>0, <1>9, PageStored, Zenon
  <2>3. HistoryComplete'
    BY <1>0, <2>1, <2>2, StoredStays, Zenon DEF HistoryComplete
  <2>4. PollsCover'
    BY <2>2, StoredStays, ZenonT(60) DEF PollsCover, Stored, PollsStay
  <2>5. WaitsForOwn'
    BY <1>0, <2>1, <2>2, Zenon DEF WaitsForOwn, PollsStay
  <2>6. QED
    BY <2>3, <2>4, <2>5, Zenon DEF HistoryInv
<1>10. ASSUME NEW i \in Pollers, PollReconcile(i) PROVE HistoryInv'
  <2>1. UNCHANGED <<history, events>> /\ poll[i].at = "reconcile" /\ EventsStay
    BY <1>10, Zenon DEF PollReconcile, EventsStay
  <2>2. GoesOn(i) /\ PollsStay(i) /\ (poll'[i].at = "wait" <=> pass[i].at = "idle")
    BY <1>0, <1>10, PollMoves, Zenon DEF GoesOn
  <2>3. HistoryComplete'
    BY <1>0, <2>1, Zenon DEF HistoryComplete
  <2>4. PollsCover'
    BY <2>1, <2>2, GoesOnCovers, Zenon
  <2>5. WaitsForOwn'
    <3>1. /\ PassesStay(i) /\ (pass[i].at # "idle" => pass'[i] = pass[i])
          /\ pass[i].at = "idle" => pass'[i].at = "snap" /\ pass'[i].who = "poll"
      BY <1>0, <1>10, ReconcileMoves, Zenon DEF PollReconcile, Causes
    <3>2. ~(pass[i].at # "idle" /\ pass[i].who = "poll")
      BY <1>0, <2>1, Zenon DEF WaitsForOwn
    <3>3. QED
      BY <1>0, <2>2, <3>1, <3>2, OthersWait, Zenon
  <2>6. QED
    BY <2>3, <2>4, <2>5, Zenon DEF HistoryInv
<1>11. ASSUME NEW i \in Pollers, UNCHANGED <<history, pass>>, EventsStay, GoesOn(i),
              poll[i].at # "wait", poll'[i].at # "wait"
       PROVE  HistoryInv'
  <2>1. HistoryComplete'
    BY <1>0, <1>11, StoredStays, Zenon DEF HistoryComplete
  <2>2. PollsCover'
    BY <1>11, GoesOnCovers, Zenon DEF GoesOn
  <2>3. WaitsForOwn'
    BY <1>0, <1>11, Zenon DEF WaitsForOwn, PollsStay, GoesOn
  <2>4. QED
    BY <2>1, <2>2, <2>3, Zenon DEF HistoryInv
<1>12. ASSUME NEW i \in Pollers, ReadPending(i) PROVE HistoryInv'
  <2>1. UNCHANGED <<history, pass>> /\ EventsStay
    BY <1>12, Zenon DEF ReadPending, EventsStay
  <2>2. GoesOn(i) /\ poll[i].at = "pending" /\ poll'[i].at = "repair"
    BY <1>0, <1>12, PollMoves, Zenon
  <2>3. QED
    BY <1>11, <2>1, <2>2, Zenon
<1>13. ASSUME NEW i \in Pollers, NEW s \in 1..MaxSlot, Decode(i, s) \/ Repair(i, s) PROVE HistoryInv'
  <2>1. UNCHANGED <<history, pass>> /\ EventsStay
    BY <1>0, <1>13, Zenon DEF Decode, Repair, EventsStay, TypeOK
  <2>2. GoesOn(i) /\ poll[i].at \in {"repair", "write"} /\ poll'[i].at \in {"repair", "write"}
    BY <1>0, <1>13, PollMoves, Zenon
  <2>3. QED
    BY <1>11, <2>1, <2>2, Zenon
<1>14. ASSUME NEW i \in Pollers, Advance(i) PROVE HistoryInv'
  <2>1. /\ UNCHANGED <<events, pass>> /\ EventsStay /\ poll[i].at = "repair"
        /\ history' = IF poll[i].newest # 0 THEN poll[i].newest ELSE history
        /\ poll' = [poll EXCEPT ![i] = NoPoll]
    BY <1>14, Zenon DEF Advance, EventsStay
  <2>2. PollsStay(i) /\ poll'[i] = NoPoll
    BY <1>0, <2>1, PollEnds, Zenon
  <2>3. HistoryComplete'
    BY <1>0, <2>1, Zenon DEF HistoryComplete, PollsCover, Stored
  <2>4. PollsCover'
    BY <2>1, <2>2, GoesOnCovers, Zenon
  <2>5. WaitsForOwn'
    BY <1>0, <1>a, <2>1, <2>2, Zenon DEF WaitsForOwn, PollsStay
  <2>6. QED
    BY <2>3, <2>4, <2>5, Zenon DEF HistoryInv
<1>15. ASSUME NEW i \in Pollers, FailPoll(i) PROVE HistoryInv'
  <2>1. /\ UNCHANGED <<events, history, pass>> /\ EventsStay /\ poll[i].at # "wait"
        /\ poll' = [poll EXCEPT ![i] = NoPoll]
    BY <1>15, Zenon DEF FailPoll, EventsStay
  <2>2. PollsStay(i) /\ poll'[i] = NoPoll
    BY <1>0, <2>1, PollEnds, Zenon
  <2>3. HistoryComplete'
    BY <1>0, <2>1, Zenon DEF HistoryComplete
  <2>4. PollsCover'
    BY <2>1, <2>2, GoesOnCovers, Zenon
  <2>5. WaitsForOwn'
    BY <1>0, <1>a, <2>1, <2>2, Zenon DEF WaitsForOwn, PollsStay
  <2>6. QED
    BY <2>3, <2>4, <2>5, Zenon DEF HistoryInv
<1>16. ASSUME NEW i \in Pollers, Crash(i) PROVE HistoryInv'
  <2>1. /\ UNCHANGED <<events, history>> /\ EventsStay /\ poll' = [poll EXCEPT ![i] = NoPoll]
        /\ PassesStay(i) /\ pass'[i] = NoPass
    BY <1>0, <1>16, Zenon DEF Crash, EventsStay, PassesStay, TypeOK
  <2>2. PollsStay(i) /\ poll'[i] = NoPoll
    BY <1>0, <2>1, PollEnds, Zenon
  <2>3. HistoryComplete'
    BY <1>0, <2>1, Zenon DEF HistoryComplete
  <2>4. PollsCover'
    BY <2>1, <2>2, GoesOnCovers, Zenon
  <2>5. WaitsForOwn'
    BY <1>0, <1>a, <2>1, <2>2, OthersWait, Zenon
  <2>6. QED
    BY <2>3, <2>4, <2>5, Zenon DEF HistoryInv
<1>17. ASSUME NEW i \in Indexers, PassStep(i) \/ FailPass(i) PROVE HistoryInv'
  BY <1>2, <1>3, <1>6, <1>7, <1>17, IdleHistory, Zenon DEF PassStep, RefuseRow, FailPass
<1>18. ASSUME NEW i \in Pollers, PollStep(i) PROVE HistoryInv'
  BY <1>8, <1>9, <1>10, <1>12, <1>13, <1>14, <1>18, Zenon DEF PollStep
<1>19. QED
  BY <1>1, <1>4, <1>5, <1>15, <1>16, <1>17, <1>18, IdleHistory, Zenon DEF Next
-------------------------------------------------------------------------------
\* Nothing has happened yet.
LEMMA IndexerInit == Init => TablesInv /\ HistoryInv
<1> SUFFICES ASSUME Init PROVE TablesInv /\ HistoryInv
  BY Zenon
<1> USE DEF Init, Start
<1>1. slot = 0 /\ 1..0 = {} /\ MaxSlot \in Nat /\ MaxFaults \in Nat
  BY IndexerAssumption DEF slot
<1>2. NoPass \in Passes(0) /\ NoPass.at = "idle" /\ NoPass.who = "none"
  BY SMTT(20) DEF NoPass, Passes, Causes
<1>3. NoPoll \in Polls(0) /\ NoPoll.at = "idle" /\ NoPoll.cursor = 0
  BY DEF NoPoll, Polls, Places
<1>4. TypeOK
  <2>1. /\ live \in [Pollers -> BOOLEAN] /\ note \in [Pollers -> BOOLEAN]
        /\ dirty \in [Indexers -> BOOLEAN]
    BY Zenon
  <2>2. QED
    BY <1>1, <1>2, <1>3, <2>1, SMTT(30) DEF TypeOK
<1>5. ChainGrows /\ RowsRead /\ PassesCover /\ ReconciledToCursor
  BY <1>1, <1>2 DEF ChainGrows, RowsRead, PassesCover, ReconciledToCursor, Version
<1>6. HistoryComplete /\ PollsCover /\ WaitsForOwn
  BY <1>1, <1>2, <1>3, Zenon DEF HistoryComplete, PollsCover, Stored, WaitsForOwn, Indexers
<1>7. QED
  BY <1>4, <1>5, <1>6, ParentsStored, Zenon DEF TablesInv, TablesSound, HistoryInv

\* Both invariants hold together, each step of one relying on the other.
LEMMA IndexerInvariant == Spec => [](TablesInv /\ HistoryInv)
<1>1. TablesInv /\ HistoryInv /\ [Next]_vars => (TablesInv /\ HistoryInv)'
  <2> SUFFICES ASSUME TablesInv, HistoryInv, [Next]_vars PROVE (TablesInv /\ HistoryInv)'
    BY Zenon
  <2>1. TypeOK'
    BY TypeStep, Zenon DEF HistoryInv
  <2>2. QED
    BY <2>1, TablesStep, HistoryStep, Zenon
<1>2. QED
  BY <1>1, IndexerInit, PTL DEF Spec

\* reconcile() (indexer.ts:163) may run in any number of processes, from snapshots of
\* different slots, and break off anywhere: a row never comes before the rows it refers to,
\* and the "reconcile" cursor never runs ahead of the rows.
THEOREM TablesAreSound == Spec => []TablesSound
BY IndexerInvariant, PTL DEF TablesInv

\* backfill() (indexer.ts:228) leaves no signature out at or before the "history" cursor,
\* whatever the size of a page, the number of polling processes and the faults.
THEOREM HistoryHasNoGap == Spec => []HistoryComplete
BY IndexerInvariant, PTL DEF HistoryInv

\* The tables implement Projection: with the slot guard of apply_projection (indexer.ts:207)
\* a row is only ever replaced by a later state of its account that the chain really had.
THEOREM TablesImplementProjection == Spec => ImplementsProjection
<1>1. Init => P!Init
  <2> SUFFICES ASSUME Init PROVE P!Init
    BY Zenon
  <2>1. Had = {}
    BY DEF Init, Start, slot, Had
  <2>2. Shown = [a \in Account |-> 0]
    BY DEF Init, Start, Shown
  <2>3. QED
    BY <2>1, <2>2 DEF P!Init
<1>2. TablesInv /\ [Next]_vars => [P!Next]_<<Had, Shown>>
  <2> SUFFICES ASSUME TablesInv, [Next]_vars PROVE P!Next \/ UNCHANGED <<Had, Shown>>
    OBVIOUS
  <2>0. TypeOK /\ PassesCover
    BY Zenon DEF TablesInv, TablesSound
  <2>1. ASSUME chain' = chain, rows' = rows PROVE UNCHANGED <<Had, Shown>>
    BY <2>1 DEF slot, Had, Shown
  <2>2. CASE Quiet
    BY <2>1, <2>2 DEF Quiet
  <2>3. ASSUME NEW a \in Account, NEW c \in BOOLEAN, Transact(a, c) PROVE P!Next
    <3>1. slot \in Nat /\ slot' = slot + 1 /\ (\A s \in 1..slot : chain'[s] = chain[s]) /\ rows' = rows
      BY <2>0, <2>3, ChainExtends, Zenon DEF Extends, Transact, dbVars
    <3>2. Had \subseteq Had'
      BY <3>1 DEF Had
    <3>3. Shown' = Shown
      BY <3>1 DEF Shown
    <3>4. QED
      BY <3>2, <3>3 DEF P!Next, P!Finalise
  <2>4. ASSUME NEW i \in Indexers, Snapshot(i) \/ FinishPass(i) PROVE UNCHANGED <<Had, Shown>>
    BY <2>1, <2>4, Zenon DEF Snapshot, FinishPass, chainVars, dbVars
  <2>5. ASSUME NEW i \in Indexers, NEW a \in Account, ApplyRow(i, a)
        PROVE  P!Next \/ UNCHANGED <<Had, Shown>>
    <3>1. /\ rows'[a].ver >= rows[a].ver /\ rows'[a].ver \in Nat /\ rows[a].ver \in Nat
          /\ \A b \in Account \ {a} : rows'[b] = rows[b]
          /\ rows[a].slot <= pass[i].slot => rows'[a].ver = Version(pass[i].slot, a)
          /\ ~(rows[a].slot <= pass[i].slot) => rows'[a] = rows[a]
      BY <2>0, <2>5, ApplyRowMoves, RowGrows, Zenon
    <3>2. Had' = Had
      BY <2>5 DEF ApplyRow, chainVars, slot, Had
    <3>3. CASE rows'[a].ver = rows[a].ver
      <4>1. Shown' = Shown
        BY <3>1, <3>3 DEF Shown
      <4>2. QED
        BY <3>2, <4>1, SMTT(30)
    <3>4. CASE rows'[a].ver # rows[a].ver
      <4>1. rows'[a].ver > rows[a].ver /\ rows'[a].ver = Version(pass[i].slot, a)
        BY <3>1, <3>4
      <4>2. pass[i].slot \in 0..slot /\ slot \in Nat
        <5>1. pass[i] \in Passes(slot) /\ chain \in Seq([Account -> Nat])
          BY <2>0, Zenon DEF TypeOK
        <5>2. pass[i].slot \in 0..slot
          BY <5>1, Zenon DEF Passes
        <5>3. slot \in Nat
          BY <5>1 DEF slot
        <5>4. QED
          BY <5>2, <5>3, Zenon
      <4>3. pass[i].slot # 0 /\ rows'[a].ver = chain[pass[i].slot][a]
        BY <3>1, <4>1 DEF Version
      <4>4. <<a, rows'[a].ver>> \in Had
        BY <4>2, <4>3 DEF Had
      <4>5. Shown[a] = rows[a].ver /\ Shown'[a] = rows'[a].ver
        BY DEF Shown
      <4>6. Shown' = [Shown EXCEPT ![a] = rows'[a].ver]
        BY <3>1, Zenon DEF Shown
      <4>7. P!Project(a)
        BY <3>2, <4>1, <4>4, <4>5, <4>6 DEF P!Project
      <4>8. QED
        BY <4>7 DEF P!Next
    <3>5. QED
      BY <3>3, <3>4
  <2>6. QED
    BY <2>0, <2>2, <2>3, <2>4, <2>5, TableSteps
<1>3. QED
  BY <1>1, <1>2, IndexerInvariant, PTL DEF Spec, ImplementsProjection, P!Spec
===============================================================================
