----------------------------- MODULE Allowlist -----------------------------
(***************************************************************************)
(* The allowlist of an agent policy (packages/agent-policy/index.ts): the  *)
(* loop of buildSpecAllowlist, which pairs up the nodes of a level and     *)
(* notes the sibling in the proofs of all leaves below, and                *)
(* verifySpecProof, which the program repeats in verify_spec_membership.   *)
(*                                                                         *)
(* A hash is a term: distinct inputs have distinct hashes.                 *)
(***************************************************************************)
EXTENDS Naturals, Sequences, FiniteSets, SequencesExt

CONSTANTS
  Specs,        \* hashes of specifications, in the order of Buffer.compare
  MaxDepth      \* siblings a proof may have

VARIABLES
  leaves,       \* the set of specifications to allow
  level,        \* the nodes of the current level
  index,        \* how many of them have been dealt with
  next,         \* the nodes of the next level
  proofs,       \* the siblings collected for each leaf
  descendants   \* the leaves below each node

vars == <<leaves, level, index, next, proofs, descendants>>

Leaf(s) == [spec |-> s]

\* The order of the pair does not matter.
hashPair(left, right) == [pair |-> {left, right}]

Init ==
  /\ leaves \in SUBSET Specs \ {{}}
  /\ level = [i \in 1..Cardinality(leaves) |->
       Leaf(CHOOSE s \in leaves : Cardinality({t \in leaves : t <= s}) = i)]
  /\ index = 0 /\ next = <<>>
  /\ proofs = [s \in leaves |-> <<>>]
  /\ descendants = [n \in {Leaf(s) : s \in leaves} |-> {n.spec}]
-----------------------------------------------------------------------------
\* Two nodes get a parent, and all leaves below them the other one as a sibling.
Pair ==
  LET left == level[index + 1]
      right == level[index + 2]
      parent == hashPair(left, right) IN
  /\ index + 2 <= Len(level)
  /\ proofs' = [s \in leaves |->
       CASE s \in descendants[left] -> Append(proofs[s], right)
         [] s \in descendants[right] -> Append(proofs[s], left)
         [] OTHER -> proofs[s]]
  /\ descendants' = [n \in DOMAIN descendants \cup {parent} |->
       IF n = parent THEN descendants[left] \cup descendants[right] ELSE descendants[n]]
  /\ next' = Append(next, parent) /\ index' = index + 2
  /\ UNCHANGED <<leaves, level>>

\* A wrong form of Unpaired: the last node is paired with itself.
Unpaired_doubled ==
  /\ Len(level) > 1 /\ index + 1 = Len(level)
  /\ next' = Append(next, hashPair(Last(level), Last(level))) /\ index' = index + 1
  /\ descendants' = [n \in DOMAIN descendants \cup {hashPair(Last(level), Last(level))} |->
       IF n = hashPair(Last(level), Last(level)) THEN descendants[Last(level)] ELSE descendants[n]]
  /\ UNCHANGED <<leaves, level, proofs>>

\* A node without a partner moves to the next level unchanged.
Unpaired ==
  /\ Len(level) > 1 /\ index + 1 = Len(level)
  /\ next' = Append(next, Last(level)) /\ index' = index + 1
  /\ UNCHANGED <<leaves, level, proofs, descendants>>

NextLevel ==
  /\ Len(level) > 1 /\ index = Len(level)
  /\ level' = next /\ next' = <<>> /\ index' = 0
  /\ UNCHANGED <<leaves, proofs, descendants>>

Next == Pair \/ Unpaired \/ NextLevel

Spec == Init /\ [][Next]_vars
-----------------------------------------------------------------------------
\* The node a proof leads to from a specification.
Node(s, proof) == FoldLeft(hashPair, Leaf(s), proof)

verifySpecProof(s, proof, root) == Len(proof) <= MaxDepth /\ Node(s, proof) = root

Done == Len(level) = 1
Root == Head(level)
-----------------------------------------------------------------------------
(* Properties *)

\* The invariant of the loop: at any time the proof of a leaf, as far as it goes,
\* leads to the one node under construction that the leaf is below.
ProofsLead ==
  LET tops == ToSet(next) \cup {level[i] : i \in index + 1..Len(level)} IN
  \A s \in leaves : /\ Node(s, proofs[s]) \in tops
                    /\ \A n \in tops : s \in descendants[n] <=> n = Node(s, proofs[s])

\* The finished list admits exactly what the owner allowed: a proof from it is
\* accepted with its own specification and with no other.
ExactlyAllowed ==
  Done => \A s \in Specs, t \in leaves : verifySpecProof(s, proofs[t], Root) <=> s = t

\* No proof is longer than a balanced tree needs, so that 16 siblings are enough
\* for 65,536 leaves, unpaired nodes or not.
DepthBounded == \A s \in leaves : proofs[s] # <<>> => 2 ^ (Len(proofs[s]) - 1) < Cardinality(leaves)
==============================================================================
