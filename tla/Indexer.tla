------------------------------- MODULE Indexer -------------------------------
(***************************************************************************)
(* apps/indexer/src/indexer.ts: the processes that copy finalized accounts *)
(* into the projected tables and finalized signatures into chain_events.   *)
(*                                                                         *)
(* A Poller is a process that ran start(): a history backfill every 15 s   *)
(* and, once the first backfill is through, a subscription whose callback  *)
(* calls reconcile(). A Caller is a one-off `new Indexer(c).reconcile()`,  *)
(* as in the API's result handler and in the verifier. They share the      *)
(* database and nothing else. Inside one process JavaScript interleaves    *)
(* the two only at an await; each action below is what happens between two *)
(* awaits, the database call that ends it included.                        *)
(*                                                                         *)
(* Abstractions: each finalized transaction has a slot of its own, and the *)
(* slot number is its signature; an account's contents are the slot of the *)
(* last transaction that wrote it, 0 when it does not exist.               *)
(***************************************************************************)
EXTENDS Naturals, Sequences, FiniteSets

CONSTANTS
  Account,          \* the program's accounts
  Rank,             \* [Account -> Nat], position of its table in `order`
  Parents,          \* [Account -> SUBSET Account], its foreign keys
  Closable,         \* the accounts the program can close (offers), no parents
  Refused,          \* the accounts whose row a CHECK of its table refuses
  Pollers, Callers, \* the processes
  PageLimit,        \* signatures in a page, 1000 in the code
  PendingLimit,     \* rows in the pending pass, 100 in the code
  Lost,             \* the signatures no RPC node can return any more
  MaxSlot,          \* bound: transactions finalized
  MaxFaults         \* bound: rejected awaits and crashes

\* reconcile() lists a table after the tables its foreign keys refer to.
ASSUME IndexerAssumption ==
  /\ Rank \in [Account -> Nat] /\ Parents \in [Account -> SUBSET Account]
  /\ \A a \in Account : \A p \in Parents[a] : Rank[p] < Rank[a] /\ p \notin Closable
  /\ PageLimit \in Nat \ {0} /\ {MaxSlot, MaxFaults} \subseteq Nat

VARIABLES
  \* the chain, as finalized
  chain,            \* chain[s][a] is the version of account a in slot s
  served,           \* every RPC node answers with slot served or a later one
  avail,            \* signatures whose transaction getTransaction returns
  \* the database
  rows,             \* rows[a]: version shown and slot it was read in
  recon,            \* slot of the "reconcile" cursor
  history,          \* signature of the "history" cursor, 0 for none
  events,           \* chain_events: "none", "pending" (processed=false), "done"
  \* the processes
  pass,             \* the reconcile() in progress, if any
  dirty,            \* Indexer.dirty
  poll,             \* the backfill() in progress, if any
  live,             \* the subscription is up
  note,             \* a notification is waiting to be delivered
  faults

chainVars == <<chain, served, avail>>
dbVars    == <<rows, recon, history, events>>
procVars  == <<pass, dirty, poll, live, note>>
vars      == <<chain, served, avail, rows, recon, history, events,
               pass, dirty, poll, live, note, faults>>

Indexers == Pollers \cup Callers
slot == Len(chain)

\* The account's version in a slot.
Version(s, a) == IF s = 0 THEN 0 ELSE chain[s][a]

\* project(): the row of an account read in a slot. Every column but the slot
\* is computed from the account alone.
project(a, s) == [ver |-> Version(s, a), slot |-> s]

NoPass == [at |-> "idle", who |-> "none", slot |-> 0, todo |-> {}]
NoPoll == [at |-> "idle", cursor |-> 0, before |-> 0, newest |-> 0,
           todo |-> {}, got |-> FALSE]

\* Nothing has happened yet; `up` tells whether the subscriptions are up.
Start(up) ==
  /\ chain = <<>> /\ served = 0 /\ avail = {}
  /\ rows = [a \in Account |-> [ver |-> 0, slot |-> 0]]
  /\ recon = 0 /\ history = 0
  /\ events = [s \in 1..MaxSlot |-> "none"]
  /\ pass = [i \in Indexers |-> NoPass]
  /\ dirty = [i \in Indexers |-> FALSE]
  /\ poll = [i \in Pollers |-> NoPoll]
  /\ live = [i \in Pollers |-> up]
  /\ note = [i \in Pollers |-> FALSE]
  /\ faults = 0

Init == Start(FALSE)
-------------------------------------------------------------------------------
(* The chain and its RPC nodes. *)

\* A transaction is finalized that creates, changes or closes one account. An
\* account is created after the accounts its row refers to.
Transact(a, closes) ==
  /\ slot < MaxSlot
  /\ \A p \in Parents[a] : Version(slot, p) # 0
  /\ closes => a \in Closable /\ Version(slot, a) # 0
  /\ chain' = Append(chain, [b \in Account |->
                IF b # a THEN Version(slot, b)
                ELSE IF closes THEN 0 ELSE slot + 1])
  /\ note' = [i \in Pollers |-> note[i] \/ live[i]]
  /\ UNCHANGED <<served, avail, dbVars, pass, dirty, poll, live, faults>>

\* The slowest node catches up.
CatchUp ==
  /\ served < slot
  /\ served' = slot
  /\ UNCHANGED <<chain, avail, dbVars, procVars, faults>>

\* A transaction becomes available to getTransaction.
Publish(s) ==
  /\ s \in 1..slot \ (avail \cup Lost)
  /\ avail' = avail \cup {s}
  /\ UNCHANGED <<chain, served, dbVars, procVars, faults>>
-------------------------------------------------------------------------------
(* reconcile() *)

\* The call: join the pass in progress by marking it dirty and return at once,
\* or start one.
Reconcile(i, who) ==
  IF pass[i].at # "idle"
  THEN /\ dirty' = [dirty EXCEPT ![i] = TRUE]
       /\ UNCHANGED pass
  ELSE /\ dirty' = [dirty EXCEPT ![i] = FALSE]
       /\ pass' = [pass EXCEPT ![i] = [NoPass EXCEPT !.at = "snap", !.who = who]]

\* getProgramAccounts answers with the accounts of one finalized slot.
Snapshot(i) ==
  /\ pass[i].at = "snap"
  /\ \E s \in served..slot :
       pass' = [pass EXCEPT ![i].at = "rows", ![i].slot = s,
                  ![i].todo = {a \in Account : Version(s, a) # 0}]
  /\ UNCHANGED <<chainVars, dbVars, dirty, poll, live, note, faults>>

\* A wrong form of NextRows: the rows as the node lists them.
NextRows_unsorted(i) == pass[i].todo

\* The rows are sorted by table, in the order of the foreign keys.
NextRows(i) ==
  {a \in pass[i].todo : \A b \in pass[i].todo : Rank[a] <= Rank[b]}

Insertable(a) ==
  /\ a \notin Refused
  /\ \A p \in Parents[a] : rows[p].ver # 0

\* A wrong form of ApplyRow: the last write wins.
ApplyRow_unguarded(i, a) ==
  /\ pass[i].at = "rows"
  /\ a \in NextRows(i)
  /\ Insertable(a)
  /\ pass' = [pass EXCEPT ![i].todo = @ \ {a}]
  /\ rows' = [rows EXCEPT ![a] = project(a, pass[i].slot)]
  /\ UNCHANGED <<chainVars, recon, history, events, dirty, poll, live, note,
                 faults>>

\* apply_projection: insert, or update unless the stored row is from a later
\* slot.
ApplyRow(i, a) ==
  /\ pass[i].at = "rows"
  /\ a \in NextRows(i)
  /\ Insertable(a)
  /\ pass' = [pass EXCEPT ![i].todo = @ \ {a}]
  /\ rows' = IF rows[a].slot <= pass[i].slot
             THEN [rows EXCEPT ![a] = project(a, pass[i].slot)]
             ELSE rows
  /\ UNCHANGED <<chainVars, recon, history, events, dirty, poll, live, note,
                 faults>>

\* An exception leaves the loop: running = false, and it reaches the caller,
\* which is the backfill or a console.error. dirty keeps its value.
Abort(i) ==
  /\ pass' = [pass EXCEPT ![i] = NoPass]
  /\ poll' = IF pass[i].who = "poll" THEN [poll EXCEPT ![i] = NoPoll] ELSE poll

\* The database refuses the row and `checked` throws.
RefuseRow(i, a) ==
  /\ pass[i].at = "rows"
  /\ a \in NextRows(i)
  /\ ~Insertable(a)
  /\ Abort(i)
  /\ UNCHANGED <<chainVars, dbVars, dirty, live, note, faults>>

\* A wrong form of Again: the loop is not there.
Again_never(i) == FALSE

\* `while (this.dirty)`
Again(i) == dirty[i]

\* All rows are in: the cursor is written, and the loop goes round again if a
\* call has come in since the snapshot was asked for.
FinishPass(i) ==
  /\ pass[i].at = "rows"
  /\ pass[i].todo = {}
  /\ recon' = pass[i].slot
  /\ dirty' = [dirty EXCEPT ![i] = FALSE]
  /\ IF Again(i)
     THEN /\ pass' = [pass EXCEPT ![i] = [NoPass EXCEPT
                        !.at = "snap", !.who = pass[i].who]]
          /\ UNCHANGED poll
     ELSE /\ pass' = [pass EXCEPT ![i] = NoPass]
          /\ poll' = IF pass[i].who = "poll"
                     THEN [poll EXCEPT ![i].at = "pending"] ELSE poll
  /\ UNCHANGED <<chainVars, rows, history, events, live, note, faults>>

\* A one-off process reconciles.
Call(i) ==
  /\ pass[i].at = "idle"
  /\ Reconcile(i, "call")
  /\ UNCHANGED <<chainVars, dbVars, poll, live, note, faults>>

\* The subscription's callback.
Notify(i) ==
  /\ live[i] /\ note[i]
  /\ note' = [note EXCEPT ![i] = FALSE]
  /\ Reconcile(i, "live")
  /\ UNCHANGED <<chainVars, dbVars, poll, live, faults>>
-------------------------------------------------------------------------------
(* backfill() *)

\* The timer fires (pollActive is false): read the history cursor.
StartPoll(i) ==
  /\ poll[i].at = "idle"
  /\ poll' = [poll EXCEPT ![i] = [NoPoll EXCEPT !.at = "page", !.cursor = history]]
  /\ UNCHANGED <<chainVars, dbVars, pass, dirty, live, note, faults>>

\* decodeTransaction: the transaction is there and its events can be read.
Decoded(s) == s \in avail

\* A wrong form of LastPage: one page is enough.
LastPage_first(batch, reached) == TRUE

\* The cursor was met, or the page is not full.
LastPage(batch, reached) == reached \/ Cardinality(batch) < PageLimit

\* A page of signatures, newest first and older than `before`, is stored up to
\* the cursor; signatures already stored are left alone.
FetchPage(i) ==
  /\ poll[i].at = "page"
  /\ \E top \in (IF poll[i].newest = 0 THEN served..slot ELSE {poll[i].before - 1}) :
       LET batch   == {s \in 1..top : s + PageLimit > top}
           reached == poll[i].cursor \in batch
           missing == {s \in batch : reached => s > poll[i].cursor}
           last    == LastPage(batch, reached)
       IN /\ events' = [s \in 1..MaxSlot |->
                IF s \in missing /\ events[s] = "none"
                THEN IF Decoded(s) THEN "done" ELSE "pending"
                ELSE events[s]]
          /\ poll' = [poll EXCEPT ![i].at = IF last THEN "reconcile" ELSE "page",
                        ![i].newest = IF @ = 0 THEN top ELSE @,
                        ![i].before = IF last THEN 0 ELSE top - PageLimit + 1]
  /\ UNCHANGED <<chainVars, rows, recon, history, pass, dirty, live, note, faults>>

\* `await this.reconcile()`: it waits for the pass it starts, but not for one
\* that is already running.
PollReconcile(i) ==
  /\ poll[i].at = "reconcile"
  /\ Reconcile(i, "poll")
  /\ poll' = [poll EXCEPT ![i].at = IF pass[i].at = "idle" THEN "wait" ELSE "pending"]
  /\ UNCHANGED <<chainVars, dbVars, live, note, faults>>

\* The signatures stored with processed = false.
Pending(i) == {s \in 1..MaxSlot : events[s] = "pending"}

\* processPendingEvents: the oldest unprocessed signatures, up to a limit.
ReadPending(i) ==
  /\ poll[i].at = "pending"
  /\ LET oldest == {s \in Pending(i) :
                      Cardinality({t \in Pending(i) : t < s}) < PendingLimit}
     IN poll' = [poll EXCEPT ![i].at = "repair", ![i].todo = oldest]
  /\ UNCHANGED <<chainVars, dbVars, pass, dirty, live, note, faults>>

\* One of them is fetched again,
Decode(i, s) ==
  /\ poll[i].at = "repair"
  /\ s \in poll[i].todo /\ \A t \in poll[i].todo : s <= t
  /\ poll' = [poll EXCEPT ![i].at = "write", ![i].got = Decoded(s)]
  /\ UNCHANGED <<chainVars, dbVars, pass, dirty, live, note, faults>>

\* and its row is overwritten with what came back.
Repair(i, s) ==
  /\ poll[i].at = "write"
  /\ s \in poll[i].todo /\ \A t \in poll[i].todo : s <= t
  /\ events' = [events EXCEPT ![s] = IF poll[i].got THEN "done" ELSE "pending"]
  /\ poll' = [poll EXCEPT ![i].at = "repair", ![i].todo = @ \ {s}, ![i].got = FALSE]
  /\ UNCHANGED <<chainVars, rows, recon, history, pass, dirty, live, note, faults>>

\* The watermark moves to the newest signature of the first page. The first
\* backfill to get here brings the subscription up.
Advance(i) ==
  /\ poll[i].at = "repair" /\ poll[i].todo = {}
  /\ history' = IF poll[i].newest # 0 THEN poll[i].newest ELSE history
  /\ poll' = [poll EXCEPT ![i] = NoPoll]
  /\ live' = [live EXCEPT ![i] = TRUE]
  /\ UNCHANGED <<chainVars, rows, recon, events, pass, dirty, note, faults>>
-------------------------------------------------------------------------------
(* Faults *)

\* An await of the pass is rejected.
FailPass(i) ==
  /\ faults < MaxFaults /\ faults' = faults + 1
  /\ pass[i].at # "idle"
  /\ Abort(i)
  /\ UNCHANGED <<chainVars, dbVars, dirty, live, note>>

\* An await of the backfill is rejected.
FailPoll(i) ==
  /\ faults < MaxFaults /\ faults' = faults + 1
  /\ poll[i].at \notin {"idle", "wait"}
  /\ poll' = [poll EXCEPT ![i] = NoPoll]
  /\ UNCHANGED <<chainVars, dbVars, pass, dirty, live, note>>

\* The process dies and is restarted; start() begins again.
Crash(i) ==
  /\ faults < MaxFaults /\ faults' = faults + 1
  /\ pass' = [pass EXCEPT ![i] = NoPass]
  /\ dirty' = [dirty EXCEPT ![i] = FALSE]
  /\ poll' = [poll EXCEPT ![i] = NoPoll]
  /\ live' = [live EXCEPT ![i] = FALSE]
  /\ note' = [note EXCEPT ![i] = FALSE]
  /\ UNCHANGED <<chainVars, dbVars>>

\* The websocket drops a notification.
Drop(i) ==
  /\ faults < MaxFaults /\ faults' = faults + 1
  /\ note[i]
  /\ note' = [note EXCEPT ![i] = FALSE]
  /\ UNCHANGED <<chainVars, dbVars, pass, dirty, poll, live>>
-------------------------------------------------------------------------------
\* The awaits of a process that settle by themselves.
PassStep(i) ==
  \/ Snapshot(i)
  \/ \E a \in Account : ApplyRow(i, a) \/ RefuseRow(i, a)
  \/ FinishPass(i)

PollStep(i) ==
  \/ StartPoll(i) \/ FetchPage(i) \/ PollReconcile(i) \/ ReadPending(i)
  \/ \E s \in 1..MaxSlot : Decode(i, s) \/ Repair(i, s)
  \/ Advance(i)

Next ==
  \/ \E a \in Account, c \in BOOLEAN : Transact(a, c)
  \/ CatchUp
  \/ \E s \in 1..MaxSlot : Publish(s)
  \/ \E i \in Indexers : PassStep(i)
  \/ \E i \in Callers : Call(i)
  \/ \E i \in Pollers : PollStep(i) \/ Notify(i)
  \/ \E i \in Indexers : FailPass(i)
  \/ \E i \in Pollers : FailPoll(i) \/ Crash(i) \/ Drop(i)

Spec == Init /\ [][Next]_vars
-------------------------------------------------------------------------------
(* Properties *)

Causes == {"none", "live", "poll", "call"}

Passes(n) == [at : {"idle", "snap", "rows"}, who : Causes, slot : 0..n, todo : SUBSET Account]

Places == {"idle", "page", "reconcile", "wait", "pending", "repair", "write"}

Polls(n) == [at : Places, cursor : 0..n, before : 0..n, newest : 0..n,
             todo : SUBSET (1..MaxSlot), got : BOOLEAN]

TypeOK ==
  /\ chain \in Seq([Account -> Nat]) /\ slot <= MaxSlot
  /\ served \in 0..slot /\ avail \subseteq 1..slot
  /\ rows \in [Account -> [ver : Nat, slot : 0..slot]]
  /\ recon \in 0..slot /\ history \in 0..slot
  /\ events \in [1..MaxSlot -> {"none", "pending", "done"}]
  /\ pass \in [Indexers -> Passes(slot)] /\ dirty \in [Indexers -> BOOLEAN]
  /\ poll \in [Pollers -> Polls(slot)]
  /\ live \in [Pollers -> BOOLEAN] /\ note \in [Pollers -> BOOLEAN]
  /\ faults \in 0..MaxFaults

\* No pass reaches a row before the rows it refers to are stored: the order in
\* which reconcile() sorts the tables satisfies the foreign keys, also when an
\* earlier pass, of this or another process, broke off half way.
ParentsFirst ==
  \A i \in Indexers : pass[i].at = "rows" =>
    \A a \in NextRows(i) : \A p \in Parents[a] : rows[p].ver # 0

\* The "reconcile" cursor, which /v1/network/stats reports as the last indexed
\* slot, never runs ahead of the rows: every account that existed in that slot
\* is shown in that state or a later one.
ReconciledToCursor ==
  \A a \in Account : rows[a].ver >= Version(recon, a)

\* After any prefix of any pass of any process the tables refer to stored rows, and
\* the "reconcile" cursor does not run ahead of the rows (indexer.ts:196,
\* indexer.ts:214).
TablesSound == TypeOK /\ ParentsFirst /\ ReconciledToCursor

\* No signature at or before the history watermark is missing from
\* chain_events, however many pages the backfill took, where it failed, and
\* which process moved the watermark (indexer.ts:289).
HistoryComplete ==
  \A s \in 1..history : events[s] # "none"

\* Every existing account whose row the tables accept is shown as it is.
Current ==
  \A a \in Account \ Refused : Version(slot, a) # 0 => rows[a].ver = Version(slot, a)

\* Every transaction that can be had is decoded.
Repaired == \A s \in 1..slot \ Lost : events[s] = "done"

\* What the accounts have been, and what the tables show of them.
Had == {<<a, chain[s][a]>> : a \in Account, s \in 1..slot}
Shown == [a \in Account |-> rows[a].ver]

\* The tables implement Projection: every row is a state its account had, and
\* is only ever replaced by a later one, although processes reconcile from
\* snapshots of different slots (indexer.ts:207).
P == INSTANCE Projection WITH seen <- Had, view <- Shown
ImplementsProjection == P!Spec
-------------------------------------------------------------------------------
(* The inductive invariant of IndexerProofs. *)

\* An account is written by transactions of later and later slots, and exists no
\* longer than the accounts its row refers to.
ChainGrows ==
  \A s \in 1..slot, a \in Account :
    /\ chain[s][a] <= s
    /\ chain[s][a] # 0 => /\ \A t \in 1..s : chain[t][a] <= chain[s][a]
                          /\ \A p \in Parents[a] : chain[s][p] # 0

\* A row is what the account was in the slot it was read in.
RowsRead ==
  \A a \in Account : /\ rows[a].ver = Version(rows[a].slot, a)
                     /\ rows[a].slot # 0 => rows[a].ver # 0

\* The accounts a pass has read are those it still has to store, and those that are
\* shown in the state it has read or a later one.
PassesCover ==
  \A i \in Indexers : pass[i].at = "rows" =>
    \A a \in Account : /\ a \in pass[i].todo => Version(pass[i].slot, a) # 0
                       /\ a \notin pass[i].todo => rows[a].ver >= Version(pass[i].slot, a)

TablesInv == TablesSound /\ ChainGrows /\ RowsRead /\ PassesCover

Stored(lo, hi) == \A s \in lo..hi : events[s] # "none"

\* A backfill has stored what is older than its cursor, and the pages it has read;
\* after the last page it has stored everything up to its first signature.
PollsCover ==
  \A i \in Pollers :
    /\ Stored(1, poll[i].cursor)
    /\ poll[i].at = "page" /\ poll[i].newest # 0 =>
         poll[i].before > 0 /\ Stored(poll[i].before, poll[i].newest)
    /\ poll[i].at \notin {"idle", "page"} => Stored(1, poll[i].newest)

\* A backfill waits for the pass it has started, and for no other.
WaitsForOwn ==
  \A i \in Pollers : pass[i].at # "idle" /\ pass[i].who = "poll" <=> poll[i].at = "wait"

HistoryInv == TypeOK /\ HistoryComplete /\ PollsCover /\ WaitsForOwn
===============================================================================
