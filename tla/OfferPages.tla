----------------------------- MODULE OfferPages -----------------------------
(***************************************************************************)
(* The list of offers in the web application: refresh and loadMoreOffers   *)
(* of Exchange (apps/web/components/exchange.tsx) and the pages the API    *)
(* answers them with (offerPage in apps/api/src/server.ts), while the      *)
(* indexer activates and closes offers.                                    *)
(*                                                                         *)
(* Offers are ordered by id; 0 stands for no cursor.  stable is a history  *)
(* variable: the offers that have been active ever since the first page of *)
(* the list was read.                                                      *)
(***************************************************************************)
EXTENDS Integers, FiniteSets

CONSTANTS
  Ids,        \* ids of offers
  Size,       \* offers on a page
  Slot,       \* requests that can be under way at the same time
  Patient     \* nobody presses Refresh while a page is loading

ASSUME OfferPagesAssumption ==
  /\ Ids \subseteq Nat \ {0} /\ IsFiniteSet(Ids) /\ Size \in Nat \ {0} /\ Patient \in BOOLEAN

VARIABLES
  offers,     \* ids of the rows that are active
  shown,      \* offers of the component
  cursor,     \* nextOfferCursor
  loading,
  req,        \* the requests under way
  stable

vars == <<offers, shown, cursor, loading, req, stable>>

\* A request that has not been served, and the absence of one.
Asked(kind, after) ==
  [kind |-> kind, after |-> after, served |-> FALSE, ids |-> {}, next |-> 0, base |-> {}]
Idle == Asked("none", 0)

\* The page reads its first page when it is opened.
Init ==
  /\ offers \in SUBSET Ids
  /\ shown = {} /\ cursor = 0 /\ loading = TRUE /\ stable = {}
  /\ \E s \in Slot : req = [t \in Slot |-> IF t = s THEN Asked("refresh", 0) ELSE Idle]
-----------------------------------------------------------------------------
\* refresh() is called.
Refresh(s) ==
  /\ req[s] = Idle /\ (Patient => \A t \in Slot : req[t] = Idle)
  /\ loading' = TRUE
  /\ req' = [req EXCEPT ![s] = Asked("refresh", 0)]
  /\ UNCHANGED <<offers, shown, cursor, stable>>

\* The button is there while there is a cursor and nothing is loading.
LoadMore(s) ==
  /\ cursor # 0 /\ ~loading
  /\ req[s] = Idle
  /\ loading' = TRUE
  /\ req' = [req EXCEPT ![s] = Asked("more", cursor)]
  /\ UNCHANGED <<offers, shown, cursor, stable>>

\* The rows after the cursor, and how many of them come up to a row.
Rest(after) == {o \in offers : o > after}
Rank(after, o) == Cardinality({x \in Rest(after) : x <= o})

\* The first Size rows.
Page(after) == {o \in Rest(after) : Rank(after, o) <= Size}

\* A wrong form of NextCursor: the row after the page, which the next page then skips.
NextCursor_beyond(after) ==
  IF Cardinality(Rest(after)) > Size THEN {o \in Rest(after) : Rank(after, o) = Size + 1} ELSE {0}

\* The last row of the page, or none if there was no row beyond it.
NextCursor(after) ==
  IF Cardinality(Rest(after)) > Size THEN {o \in Rest(after) : Rank(after, o) = Size} ELSE {0}

\* offerPage reads the rows.
Serve(s) ==
  /\ req[s].kind # "none" /\ ~req[s].served
  /\ \E next \in NextCursor(req[s].after) :
       req' = [req EXCEPT ![s].served = TRUE, ![s].ids = Page(req[s].after), ![s].next = next,
                          ![s].base = offers]
  /\ UNCHANGED <<offers, shown, cursor, loading, stable>>

\* A first page replaces the list.
ShowFirst(s) ==
  /\ req[s].kind = "refresh" /\ req[s].served
  /\ shown' = req[s].ids /\ cursor' = req[s].next /\ stable' = req[s].base
  /\ loading' = FALSE /\ req' = [req EXCEPT ![s] = Idle]
  /\ UNCHANGED offers

\* A further page is merged into it by id.
ShowMore(s) ==
  /\ req[s].kind = "more" /\ req[s].served
  /\ shown' = shown \cup req[s].ids /\ cursor' = req[s].next
  /\ loading' = FALSE /\ req' = [req EXCEPT ![s] = Idle]
  /\ UNCHANGED <<offers, stable>>

\* A request fails before or after it was served: the list stays as it is.
Fail(s) ==
  /\ req[s].kind # "none"
  /\ loading' = FALSE /\ req' = [req EXCEPT ![s] = Idle]
  /\ UNCHANGED <<offers, shown, cursor, stable>>

Activate(o) ==
  /\ o \in Ids \ offers /\ offers' = offers \cup {o}
  /\ UNCHANGED <<shown, cursor, loading, req, stable>>

Close(o) ==
  /\ o \in offers /\ offers' = offers \ {o} /\ stable' = stable \ {o}
  /\ req' = [s \in Slot |-> [req[s] EXCEPT !.base = @ \ {o}]]
  /\ UNCHANGED <<shown, cursor, loading>>

Next ==
  \/ \E s \in Slot : Refresh(s) \/ LoadMore(s) \/ Serve(s) \/ ShowFirst(s) \/ ShowMore(s) \/ Fail(s)
  \/ \E o \in Ids : Activate(o) \/ Close(o)

Spec == Init /\ [][Next]_vars
-----------------------------------------------------------------------------
(* Properties *)

\* The list has no hole: an offer that was active all the time since the list
\* was read anew is shown once the list has come past it, however many offers
\* were activated and closed and however many pages failed meanwhile, and all of
\* them are shown when there is no further page (exchange.tsx:116-154).
NoGap == \A o \in stable : cursor = 0 \/ o <= cursor => o \in shown

-----------------------------------------------------------------------------
(* The inductive invariant behind NoGap when nobody presses Refresh while a *)
(* page is loading.                                                         *)

TypeOK ==
  /\ offers \subseteq Ids /\ shown \subseteq Ids /\ stable \subseteq offers
  /\ cursor \in Ids \cup {0} /\ loading \in BOOLEAN
  /\ req \in [Slot -> [kind: {"none", "refresh", "more"}, after: Ids \cup {0}, served: BOOLEAN,
                       ids: SUBSET Ids, next: Ids \cup {0}, base: SUBSET offers]]

\* One request at a time; one for a further page starts at the end of the list;
\* an answer under way has all stable offers of its part of the list.
OneAtATime ==
  /\ \A s \in Slot : req[s].kind # "none" => loading
  /\ \A s, t \in Slot : req[s].kind # "none" /\ req[t].kind # "none" => s = t
  /\ \A s \in Slot : req[s].kind = "none" => req[s] = Idle
  /\ \A s \in Slot : req[s].kind = "refresh" => req[s].after = 0
  /\ \A s \in Slot : req[s].kind = "more" => req[s].after = cursor

AnswerComplete ==
  \A s \in Slot : req[s].served =>
    \A o \in (IF req[s].kind = "refresh" THEN req[s].base ELSE stable) :
      o > req[s].after /\ (req[s].next = 0 \/ o <= req[s].next) => o \in req[s].ids

\* A page under way continues the list, and what it is to contain is already
\* settled when it is read, whatever the indexer does until it is shown.
PagesInv == TypeOK /\ OneAtATime /\ AnswerComplete /\ NoGap
==============================================================================
