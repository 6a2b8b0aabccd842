----------------------------- MODULE RadixTree -----------------------------
(***************************************************************************)
(* RadixCache: the prefix tree over cached KV, with a lock count on every  *)
(* node.  A page stands for the prefix that ends with it (Upto[p] is that  *)
(* prefix), so two keys share a page exactly when they share all before    *)
(* it, and a key is named by its last full page.  A node is named by the   *)
(* last page of its edge: _split_node adds the upper half as a new node    *)
(* and the old one keeps its name, as it keeps its object.                 *)
(*                                                                         *)
(* A tree is the function from its nodes to their lock counts.             *)
(***************************************************************************)
EXTENDS Integers, FiniteSets

CONSTANTS
    Page,      \* the prefixes that may be cached
    Root,      \* root_node: the empty prefix
    Upto,      \* the pages of each prefix, itself included
    Block      \* page_size = block_size, in tokens

ASSUME BlockAssumption == Block \in Nat \ {0}

ASSUME PageAssumption ==
    /\ Root \notin Page /\ Upto \in [Page -> SUBSET Page]
    /\ \A p \in Page :
          /\ p \in Upto[p] /\ IsFiniteSet(Upto[p])
          /\ \A q \in Upto[p] : Upto[q] \subseteq Upto[p] /\ (p \in Upto[q] => p = q)
          /\ \A q, r \in Upto[p] : q \in Upto[r] \/ r \in Upto[q]

Up(n) == IF n = Root THEN {} ELSE Upto[n]

Cached(t) == UNION {Upto[n] : n \in DOMAIN t}

\* The pages of the edge that ends in n.
Edge(t, n) == Upto[n] \ UNION {Upto[m] : m \in (DOMAIN t \cap Upto[n]) \ {n}}

\* len(node.key), summed over N.
Tokens(t, N) == Block * Cardinality(UNION {Edge(t, n) : n \in N})

\* match_prefix: the last page of the longest cached prefix of a key.
Match(t, key) ==
    LET hit == Up(key) \cap Cached(t)
    IN  IF hit = {} THEN Root ELSE CHOOSE p \in hit : hit \subseteq Upto[p]

\* Mutant: a split leaves the upper half unlocked.
SplitUnlocked(t, n) == 0

\* The lock count of the edge that n lies on: that of the node at its end.
\* A new leaf is on no edge yet.
EdgeLock(t, n) ==
    LET below == {m \in DOMAIN t : n \in Upto[m]}
    IN  IF below = {} THEN 0 ELSE t[CHOOSE m \in below : \A k \in below : m \in Upto[k]]

WithNodes(t, N) ==
    [n \in DOMAIN t \cup (N \ {Root}) |-> IF n \in DOMAIN t THEN t[n] ELSE EdgeLock(t, n)]

\* insert: splits the edge where the key leaves it and adds the rest as a leaf.
Inserted(t, key) == WithNodes(t, {Match(t, key), key})

\* inc_lock_ref and dec_lock_ref of the nodes at[r], for every r of R.
Above(R, at, n)    == Cardinality({r \in R : n \in Up(at[r])})
LockedBy(t, R, at)   == [n \in DOMAIN t |-> t[n] + Above(R, at, n)]
UnlockedBy(t, R, at) == [n \in DOMAIN t |-> t[n] - Above(R, at, n)]

\* What inc_lock_ref moves from evictable_size_ to protected_size_, and what
\* dec_lock_ref moves back, between two lock states of the same nodes.
NewlyLocked(t, u) == Tokens(u, {n \in DOMAIN u : t[n] = 0 /\ u[n] > 0})
NewlyFree(t, u)   == Tokens(u, {n \in DOMAIN u : t[n] > 0 /\ u[n] = 0})

\* Mutant: evict looks for leaves, not at their locks.
AnyLeaf(t) == {n \in DOMAIN t : \A m \in DOMAIN t : n \in Upto[m] => m = n}

\* The leaves that evict may delete.
FreeLeaves(t) == {n \in DOMAIN t : t[n] = 0 /\ \A m \in DOMAIN t : n \in Upto[m] => m = n}
Without(t, n) == [m \in DOMAIN t \ {n} |-> t[m]]
=============================================================================
