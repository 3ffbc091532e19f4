------------------------------ MODULE Projection ------------------------------
(***************************************************************************)
(* What the projected tables promise to the services that read them: each  *)
(* row is a state its account really had on the chain, and a row is only   *)
(* ever replaced by a later state of the same account, one row at a time.  *)
(* Nothing is said about how far behind the chain a row may be.            *)
(***************************************************************************)
EXTENDS Naturals

CONSTANT Account    \* the program's accounts, 0 is the version of none

VARIABLES
  seen,             \* the <<account, version>> pairs the chain has had
  view              \* the version of each account the tables show

Init ==
  /\ seen = {}
  /\ view = [a \in Account |-> 0]

\* The chain moves on; what it had is not forgotten.
Finalise ==
  /\ seen \subseteq seen'
  /\ UNCHANGED view

\* One row is inserted or replaced by a later state.
Project(a) ==
  /\ view'[a] > view[a]
  /\ <<a, view'[a]>> \in seen
  /\ view' = [view EXCEPT ![a] = view'[a]]
  /\ UNCHANGED seen

Next ==
  \/ Finalise
  \/ \E a \in Account : Project(a)

Spec == Init /\ [][Next]_<<seen, view>>
===============================================================================
