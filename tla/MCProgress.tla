------------------------------ MODULE MCProgress -----------------------------
(***************************************************************************)
(* What the users of the API get in the end, one case of which a behaviour *)
(* is in from its start:                                                   *)
(*   run        the SDK's run, with a signer that returns on confirmation  *)
(*   recovery   the page of a job whose deposit is to be got back          *)
(*   machine    the listing of a machine whose daemon reports, in units    *)
(*              of 30 seconds                                              *)
(* A variable of another case is 0.                                        *)
(***************************************************************************)
EXTENDS Integers

VARIABLES job, bid, row, listed, run, trouble, form, page,
          worker, auth, busy, rowBusy, net, handler, used, held, idle, shown, scenario

Buyer == INSTANCE BuyerRun WITH
  Bidder <- {"p1"}, Price <- [p1 |-> 1],
  StartDelay <- 3, WaitLimit <- 2, BidLimit <- 2, SignerWaits <- FALSE, None <- "none"

Recovery == INSTANCE JobPage WITH
  Job <- {"j1"}, Replicas <- 1, Limit <- 1, Answers <- 2, None <- "none"

Machine == INSTANCE Heartbeats WITH
  Workers <- {"w1"}, Nonces <- {"n1", "n2"}, Handlers <- {1},
  Tolerance <- 2, NonceLife <- 4, Fresh <- 3, Lead <- 0, MaxAge <- 2

sdk == <<bid, listed, run, trouble>>
web == <<form, page>>
daemon == <<worker, auth, busy, rowBusy, net, handler, used, held, idle, shown>>

vars == <<sdk, web, daemon, job, row, scenario>>

NoBuyer == bid = 0 /\ listed = 0 /\ run = 0 /\ trouble = 0
NoPage == form = 0 /\ page = 0
NoMachine ==
  /\ worker = 0 /\ auth = 0 /\ busy = 0 /\ rowBusy = 0 /\ net = 0 /\ handler = 0
  /\ used = 0 /\ held = 0 /\ idle = 0 /\ shown = 0

Init ==
  \/ scenario = "run" /\ Buyer!Init /\ NoPage /\ NoMachine
  \/ scenario = "recovery" /\ Recovery!Init /\ NoBuyer /\ NoMachine
  \/ scenario = "machine" /\ Machine!Init /\ job = 0 /\ NoBuyer /\ NoPage

In(name) == scenario = name /\ UNCHANGED scenario

BuyerStep == In("run") /\ UNCHANGED <<web, daemon>>
PageStep == In("recovery") /\ UNCHANGED <<sdk, daemon>>
MachineStep == In("machine") /\ UNCHANGED <<sdk, web, job>>

Next ==
  \/ BuyerStep /\ Buyer!Next
  \/ PageStep /\ Recovery!Next
  \/ MachineStep /\ Machine!Next

\* The event loop runs what is due, time passes, and the indexer reads the job.
BuyerFairness ==
  /\ WF_vars(BuyerStep /\ Buyer!Step)
  /\ WF_vars(BuyerStep /\ Buyer!Tick)
  /\ WF_vars(BuyerStep /\ Buyer!IndexJob)

\* Timers and answers, clock and indexer go on.  The buyer comes back to the job
\* and, of the buttons that take money out, keeps pressing those that are
\* offered; what the wallet is asked again and again it signs at some time.
Leaving == Recovery!Action \ {"accept-bid"}
PageFairness ==
  /\ WF_vars(PageStep /\ Recovery!Refresh)
  /\ WF_vars(PageStep /\ Recovery!Tick)
  /\ WF_vars(PageStep /\ Recovery!ActFails)
  /\ WF_vars(PageStep /\ Recovery!Answer(1))
  /\ WF_vars(PageStep /\ (Recovery!Signed \/ Recovery!SignFails \/ Recovery!Funded))
  /\ WF_vars(PageStep /\ Recovery!Index("j1"))
  /\ SF_vars(PageStep /\ Recovery!Open("j1"))
  /\ SF_vars(PageStep /\ (\E a \in Leaving : Recovery!Press("j1", a)))
  /\ SF_vars(PageStep /\ (\E a \in Leaving : Recovery!Confirm("j1", a)))

\* The daemon loops, handlers and indexer go on, and of the messages that are
\* sent again and again one is received.
MachineFairness ==
  /\ WF_vars(MachineStep /\ (\E n \in {"n1", "n2"} : Machine!Send(n)))
  /\ SF_vars(MachineStep /\ (\E n \in {"n1", "n2"} : used[n] = -1 /\ Machine!Receive(1, n)))
  /\ WF_vars(MachineStep /\ (Machine!Check(1) \/ Machine!Record(1)))
  /\ WF_vars(MachineStep /\ Machine!Index)
  /\ WF_vars(MachineStep /\ Machine!Purge)
  /\ SF_vars(MachineStep /\ Machine!Tick)

Spec == Init /\ [][Next]_vars /\ BuyerFairness /\ PageFairness /\ MachineFairness
-------------------------------------------------------------------------------
(* Properties *)

\* run and wait end, with a result or an error, whatever providers, chain and
\* indexer do: each loop has a limit (sdk/index.ts:218, 258, 369).
RunEnds == <>(scenario = "run" => Buyer!Ended)

\* However a job was left behind, by a submission that broke off, a lost
\* confirmation, a silent provider or a display that runs behind, a buyer who
\* keeps using the page gets the deposit settled or back: each state it can be
\* held in has a button that leads on (exchange.tsx:1395-1433).
DepositReleased ==
  (scenario = "recovery" /\ Recovery!Held("j1")) ~> (scenario = "recovery" /\ ~Recovery!Held("j1"))

\* A machine that stays free, with a daemon that keeps on reporting, is quoted
\* again and again, whatever was reported of it before (daemon.ts, server.ts:1437).
Relisted == <>[](scenario = "machine" /\ Machine!Up) => []<>(scenario = "machine" /\ Machine!Quoted)
===============================================================================
