----------------------------- MODULE Heartbeats -----------------------------
(***************************************************************************)
(* The heartbeats of one machine and what its listing makes of them: the   *)
(* daemon's heartbeat (agents/provider-node/daemon.ts), the handler of     *)
(* POST /v1/provider/heartbeat and supply (apps/api/src/server.ts),        *)
(* record_heartbeat in the database, and quoteSupply (packages/pricing).   *)
(*                                                                         *)
(* Times are ages: how long ago the time stamp of a message or of the row  *)
(* was, below 0 when the worker's clock is ahead.  A message is named by   *)
(* its nonce; it can be received late, not at all, and more than once.     *)
(* held, idle and shown are history variables.                             *)
(***************************************************************************)
EXTENDS Integers

CONSTANTS
  Workers, Nonces,
  Handlers,     \* requests the API can be handling at the same time
  Tolerance,    \* |now - timestamp| the API accepts
  NonceLife,    \* how long a nonce is remembered
  Fresh,        \* age from which a heartbeat no longer counts
  Lead,         \* how far a worker's clock may be ahead or behind
  MaxAge        \* age up to which a request can be under way

VARIABLES
  worker,       \* machine.worker on the chain
  auth,         \* workers whose authorization is active and unexpired
  busy,         \* machine.busy on the chain
  rowBusy,      \* busy in the row of the machine
  net,          \* messages that can still be received, by nonce
  handler,      \* requests under way in the API
  used,         \* heartbeat_nonces: how long ago each was inserted
  row,          \* the row of heartbeats
  held,         \* how long ago each worker was the machine's authorized worker
  idle,         \* how long ago the machine was not busy
  shown         \* messages that have been the row

vars == <<worker, auth, busy, rowBusy, net, handler, used, row, held, idle, shown>>

Nobody == "none"
NoMessage == [w |-> Nobody, age |-> 0, free |-> FALSE]
NoRow == [nonce |-> Nobody, w |-> Nobody, age |-> MaxAge + 1, free |-> FALSE]
NotUsed == -1
Waiting == [n |-> Nobody, at |-> "none"]

Init ==
  /\ worker \in Workers /\ auth = Workers /\ busy = FALSE /\ rowBusy = FALSE
  /\ net = [n \in Nonces |-> NoMessage] /\ handler = [h \in Handlers |-> Waiting]
  /\ used = [n \in Nonces |-> NotUsed] /\ row = NoRow
  /\ held = [w \in Workers |-> IF w = worker THEN 0 ELSE Fresh + Lead] /\ idle = 0 /\ shown = {}
-----------------------------------------------------------------------------
(* The worker *)

\* A nonce that is not in use anywhere stands for a new UUID.
Unused(n) ==
  /\ net[n] = NoMessage /\ used[n] = NotUsed /\ row.nonce # n
  /\ \A h \in Handlers : handler[h].n # n

\* tick reads the machine and reports it with the time of its own clock.
Send(n) ==
  /\ Unused(n)
  /\ \E lead \in -Lead..Lead : net' = [net EXCEPT ![n] = [w |-> worker, age |-> -lead, free |-> ~busy]]
  /\ shown' = shown \ {n}
  /\ UNCHANGED <<worker, auth, busy, rowBusy, handler, used, row, held, idle>>
-----------------------------------------------------------------------------
(* The API *)

\* A copy arrives in time; its signature is that of its worker.
Receive(h, n) ==
  /\ handler[h] = Waiting /\ net[n] # NoMessage
  /\ net[n].age \in -Tolerance..Tolerance
  /\ handler' = [handler EXCEPT ![h] = [n |-> n, at |-> "received"]]
  /\ UNCHANGED <<worker, auth, busy, rowBusy, net, used, row, held, idle, shown>>

\* A wrong form of Authorized: any authorized worker may report for the machine.
Authorized_any(w) == w \in auth

\* The worker is the machine's and its authorization holds.
Authorized(w) == w = worker /\ w \in auth

\* The handler has read both accounts and goes on, or answers 403.
Check(h) ==
  /\ handler[h].at = "received"
  /\ handler' = [handler EXCEPT ![h] =
       IF Authorized(net[handler[h].n].w) THEN [@ EXCEPT !.at = "checked"] ELSE Waiting]
  /\ UNCHANGED <<worker, auth, busy, rowBusy, net, used, row, held, idle, shown>>

Newer(n) == net[n].age < row.age

\* A wrong form of Record: every message that is not a duplicate becomes the row.
Record_always(h) ==
  LET n == handler[h].n IN
  /\ handler[h].at = "checked"
  /\ handler' = [handler EXCEPT ![h] = Waiting]
  /\ IF used[n] # NotUsed
     THEN UNCHANGED <<used, row, shown>>
     ELSE /\ used' = [m \in Nonces |-> IF m = n THEN 0 ELSE IF used[m] > NonceLife THEN NotUsed ELSE used[m]]
          /\ row' = [nonce |-> n, w |-> net[n].w, age |-> net[n].age, free |-> net[n].free]
          /\ shown' = shown \cup {n}
  /\ UNCHANGED <<worker, auth, busy, rowBusy, net, held, idle>>

\* A wrong form of Record: the first message stays the row.
Record_first(h) ==
  LET n == handler[h].n IN
  /\ handler[h].at = "checked"
  /\ handler' = [handler EXCEPT ![h] = Waiting]
  /\ IF used[n] # NotUsed
     THEN UNCHANGED <<used, row, shown>>
     ELSE /\ used' = [m \in Nonces |-> IF m = n THEN 0 ELSE IF used[m] > NonceLife THEN NotUsed ELSE used[m]]
          /\ IF row = NoRow
             THEN /\ row' = [nonce |-> n, w |-> net[n].w, age |-> net[n].age, free |-> net[n].free]
                  /\ shown' = shown \cup {n}
             ELSE UNCHANGED <<row, shown>>
  /\ UNCHANGED <<worker, auth, busy, rowBusy, net, held, idle>>

\* record_heartbeat: a nonce it has refuses the call; otherwise it is inserted,
\* a newer message becomes the row, and expired nonces are deleted.
Record(h) ==
  LET n == handler[h].n IN
  /\ handler[h].at = "checked"
  /\ handler' = [handler EXCEPT ![h] = Waiting]
  /\ IF used[n] # NotUsed
     THEN UNCHANGED <<used, row, shown>>
     ELSE /\ used' = [m \in Nonces |-> IF m = n THEN 0 ELSE IF used[m] > NonceLife THEN NotUsed ELSE used[m]]
          /\ IF Newer(n)
             THEN /\ row' = [nonce |-> n, w |-> net[n].w, age |-> net[n].age, free |-> net[n].free]
                  /\ shown' = shown \cup {n}
             ELSE UNCHANGED <<row, shown>>
  /\ UNCHANGED <<worker, auth, busy, rowBusy, net, held, idle>>

\* Another machine's heartbeat deletes expired nonces too.
Purge ==
  /\ \E n \in Nonces : used[n] > NonceLife
  /\ used' = [n \in Nonces |-> IF used[n] > NonceLife THEN NotUsed ELSE used[n]]
  /\ UNCHANGED <<worker, auth, busy, rowBusy, net, handler, row, held, idle, shown>>

\* What supply calls available.
Available == ~rowBusy /\ row # NoRow /\ row.free

\* What quoteSupply keeps: an available machine with a heartbeat that is neither
\* old nor from the future.
Quoted == Available /\ row.age < Fresh /\ row.age >= 0
-----------------------------------------------------------------------------
(* The chain, its projection, and time *)

\* update_machine names another authorized worker.
SetWorker(w) ==
  /\ ~busy /\ w # worker /\ w \in auth /\ worker' = w
  /\ held' = [held EXCEPT ![w] = 0]
  /\ UNCHANGED <<auth, busy, rowBusy, net, handler, used, row, idle, shown>>

\* revoke_worker, the end of an authorization, or a new one.
Authorize(w) ==
  /\ auth' = IF w \in auth THEN auth \ {w} ELSE auth \cup {w}
  /\ held' = IF w \notin auth /\ w = worker THEN [held EXCEPT ![w] = 0] ELSE held
  /\ UNCHANGED <<worker, busy, rowBusy, net, handler, used, row, idle, shown>>

\* A job engages the machine, or lets go of it.
Engage ==
  /\ busy' = ~busy /\ (~busy => worker \in auth)
  /\ idle' = 0
  /\ UNCHANGED <<worker, auth, rowBusy, net, handler, used, row, held, shown>>

Index ==
  /\ rowBusy' = busy
  /\ UNCHANGED <<worker, auth, busy, net, handler, used, row, held, idle, shown>>

Older(age, limit) == IF age < limit THEN age + 1 ELSE age

\* Time passes.  A request that is being handled is done before MaxAge is over.
Tick ==
  /\ \A h \in Handlers : handler[h] # Waiting => net[handler[h].n].age < MaxAge
  /\ net' = [n \in Nonces |->
       IF net[n] = NoMessage THEN NoMessage
       ELSE IF net[n].age >= Tolerance /\ \A h \in Handlers : handler[h].n # n THEN NoMessage
       ELSE [net[n] EXCEPT !.age = @ + 1]]
  /\ used' = [n \in Nonces |-> IF used[n] = NotUsed THEN NotUsed ELSE Older(used[n], NonceLife + 1)]
  /\ row' = IF row = NoRow THEN NoRow ELSE [row EXCEPT !.age = Older(@, MaxAge + 1)]
  /\ held' = [w \in Workers |-> IF Authorized(w) THEN 0 ELSE Older(held[w], Fresh + Lead)]
  /\ idle' = IF busy THEN Older(idle, Fresh + Lead) ELSE 0
  /\ UNCHANGED <<worker, auth, busy, rowBusy, handler, shown>>

Next ==
  \/ \E n \in Nonces : Send(n)
  \/ \E h \in Handlers : (\E n \in Nonces : Receive(h, n)) \/ Check(h) \/ Record(h)
  \/ Purge \/ Engage \/ Index \/ Tick
  \/ \E w \in Workers : SetWorker(w) \/ Authorize(w)

Spec == Init /\ [][Next]_vars

-----------------------------------------------------------------------------
(* Properties *)

TypeOK ==
  /\ worker \in Workers /\ auth \subseteq Workers /\ busy \in BOOLEAN /\ rowBusy \in BOOLEAN
  /\ \A n \in Nonces : net[n] = NoMessage \/ (net[n].w \in Workers /\ net[n].age \in -Lead..MaxAge)
  /\ \A h \in Handlers : handler[h] = Waiting \/ (net[handler[h].n] # NoMessage /\ handler[h].at \in {"received", "checked"})
  /\ \A n \in Nonces : used[n] \in NotUsed..NonceLife + 1
  /\ row.age \in -Tolerance..MaxAge + 1 /\ (row = NoRow \/ row.w \in Workers)
  /\ shown \subseteq Nonces

\* However messages are delayed, reordered and repeated, and however long a
\* request takes between the check and the call: the row never goes back to an
\* older report, and no message becomes the row twice, also after its nonce has
\* been forgotten (record_heartbeat).
MovesForward == row'.nonce # row.nonce => row'.age < row.age /\ row'.nonce \notin shown

\* A machine is only quoted on the word of a worker that was its own authorized
\* worker, and on a report from when it was free, less than Fresh and a clock's
\* lead ago: not on the heartbeats of a replaced or revoked worker that arrive
\* late, nor on repeated ones from before it was engaged (server.ts:1437-1458,
\* pricing/index.ts:39-41).
QuotedWasUp == Quoted => held[row.w] < Fresh + Lead /\ idle < Fresh + Lead

Up == worker \in auth /\ ~busy
==============================================================================
