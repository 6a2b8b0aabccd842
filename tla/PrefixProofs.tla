---------------------------- MODULE PrefixProofs ----------------------------
(***************************************************************************)
(* Proofs about RadixTree and PrefixScheduler, for any prefixes, workload  *)
(* and configuration.  A tree is read page by page: every cached page lies *)
(* on the edge of one node, its owner, and has the lock of that node.      *)
(***************************************************************************)
EXTENDS PrefixScheduler, LedgerProofs

(* The prefixes.                                                           *)

LEMMA PageOrder ==
    ASSUME NEW p \in Page
    PROVE  /\ p \in Upto[p] /\ IsFiniteSet(Upto[p]) /\ Upto[p] \subseteq Page
           /\ \A q \in Upto[p] : q \in Page /\ Upto[q] \subseteq Upto[p]
           /\ \A q \in Page : q \in Upto[p] /\ p \in Upto[q] => p = q
           /\ \A q, r \in Upto[p] : q \in Upto[r] \/ r \in Upto[q]
BY PageAssumption

\* Prefixes of a page that have a page in common with it, by size.
LEMMA SmallerPrefix ==
    ASSUME NEW p \in Page, NEW q \in Upto[p]
    PROVE  /\ Cardinality(Upto[p]) \in Nat /\ Cardinality(Upto[q]) \in Nat
           /\ Cardinality(Upto[q]) <= Cardinality(Upto[p])
           /\ Cardinality(Upto[q]) = Cardinality(Upto[p]) => p = q
<1>1. IsFiniteSet(Upto[p]) /\ Upto[q] \in SUBSET Upto[p] /\ q \in Page
    BY PageOrder
<1>2. IsFiniteSet(Upto[q])
    BY <1>1, PageOrder
<1>3. Cardinality(Upto[p]) \in Nat /\ Cardinality(Upto[q]) \in Nat
    BY <1>1, <1>2, FS_CardinalityType
<1>4. /\ Cardinality(Upto[q]) <= Cardinality(Upto[p])
      /\ Cardinality(Upto[p]) = Cardinality(Upto[q]) => Upto[p] = Upto[q]
    BY <1>1, FS_Subset
<1>5. Upto[p] = Upto[q] => p = q
    BY <1>1, PageOrder
<1> QED
    BY <1>3, <1>4, <1>5

-----------------------------------------------------------------------------
(* The shape of a tree: where two nodes part there is a node.              *)

Pages(D) == UNION {Upto[n] : n \in D}

Closed(D) ==
  \A m, n \in D : \/ Upto[m] \cap Upto[n] = {}
                  \/ \E k \in D : Upto[m] \cap Upto[n] = Upto[k]

TreeOK(t) ==
  /\ IsFiniteSet(DOMAIN t) /\ DOMAIN t \in SUBSET Page
  /\ Closed(DOMAIN t)
  /\ \A n \in DOMAIN t : t[n] \in Nat

\* The node on whose edge the page p lies.
IsOwner(D, p, m) == m \in D /\ p \in Upto[m] /\ \A k \in D : p \in Upto[k] => m \in Upto[k]

LEMMA PagesOf ==
    ASSUME NEW D \in SUBSET Page, NEW p
    PROVE  /\ p \in Pages(D) <=> \E n \in D : p \in Upto[n]
           /\ p \in Pages(D) => p \in Page /\ Upto[p] \subseteq Pages(D)
<1>1. p \in Pages(D) <=> \E n \in D : p \in Upto[n]
    BY DEF Pages
<1>2. ASSUME NEW n \in D, p \in Upto[n]
      PROVE  p \in Page /\ Upto[p] \subseteq Pages(D)
  <2>1. p \in Page /\ Upto[p] \subseteq Upto[n]
      BY <1>2, PageOrder
  <2>2. Upto[n] \subseteq Pages(D)
      BY DEF Pages
  <2> QED
      BY <2>1, <2>2
<1> QED
    BY <1>1, <1>2

\* Every cached page has an owner, and only one.
LEMMA OwnerExists ==
    ASSUME NEW D \in SUBSET Page, Closed(D), NEW p \in Pages(D)
    PROVE  \E m : IsOwner(D, p, m)
<1> DEFINE below == {n \in D : p \in Upto[n]}
           sizes == {Cardinality(Upto[n]) : n \in below}
<1>1. below # {}
    BY PagesOf
<1>2. \A n \in below : n \in Page /\ Cardinality(Upto[n]) \in Nat
    BY PageOrder, SmallerPrefix
<1>3. sizes \subseteq Nat /\ sizes # {}
    BY <1>1, <1>2
<1> HIDE DEF sizes
<1>4. PICK x \in sizes : \A y \in sizes : x <= y
    BY <1>3, LeastMember
<1>5. PICK m \in below : Cardinality(Upto[m]) = x
    BY <1>4 DEF sizes
<1>6. ASSUME NEW k \in D, p \in Upto[k]
      PROVE  m \in Upto[k]
  <2>1. PICK j \in D : Upto[m] \cap Upto[k] = Upto[j]
      BY <1>5, <1>6 DEF Closed
  <2>2. j \in below /\ m \in Page /\ j \in Page
      BY <1>5, <1>6, <2>1
  <2>3. j \in Upto[m]
      BY <2>1, <2>2, PageOrder
  <2>4. Cardinality(Upto[m]) <= Cardinality(Upto[j])
      BY <1>4, <1>5, <2>2 DEF sizes
  <2>5. j = m
      BY <2>2, <2>3, <2>4, SmallerPrefix
  <2> QED
      BY <2>1, <2>2, <2>5, PageOrder
<1> QED
    BY <1>5, <1>6 DEF IsOwner

LEMMA OwnerUnique ==
    ASSUME NEW D \in SUBSET Page, NEW p, NEW m, NEW n, IsOwner(D, p, m), IsOwner(D, p, n)
    PROVE  m = n
<1>1. m \in Page /\ n \in Page /\ m \in Upto[n] /\ n \in Upto[m]
    BY DEF IsOwner
<1> QED
    BY <1>1, PageOrder

\* A node owns itself.
LEMMA OwnsItself ==
    ASSUME NEW D \in SUBSET Page, NEW n \in D
    PROVE  IsOwner(D, n, n)
BY PageOrder DEF IsOwner

\* A node holds a page exactly if it holds the owner of that page.
LEMMA OwnerBelow ==
    ASSUME NEW D \in SUBSET Page, NEW p, NEW m, IsOwner(D, p, m), NEW k \in D
    PROVE  p \in Upto[k] <=> m \in Upto[k]
<1>1. m \in Upto[k] => Upto[m] \subseteq Upto[k]
    BY PageOrder
<1> QED
    BY <1>1 DEF IsOwner

\* The pages of an edge are those its node owns.
LEMMA EdgeIsOwned ==
    ASSUME NEW t, TreeOK(t), NEW n \in DOMAIN t, NEW p
    PROVE  p \in Edge(t, n) <=> IsOwner(DOMAIN t, p, n)
<1> DEFINE D == DOMAIN t
<1>0. D \in SUBSET Page /\ n \in D
    BY DEF TreeOK
<1>1. p \in Edge(t, n) <=> p \in Upto[n] /\ \A m \in D : m \in Upto[n] /\ m # n => p \notin Upto[m]
    BY DEF Edge
<1> HIDE DEF D
<1>2. ASSUME p \in Upto[n], \A m \in D : m \in Upto[n] /\ m # n => p \notin Upto[m]
      PROVE  IsOwner(D, p, n)
  <2>1. p \in Pages(D)
      BY <1>0, <1>2, PagesOf
  <2>2. PICK m : IsOwner(D, p, m)
      BY <1>0, <2>1, OwnerExists DEF TreeOK, D
  <2>3. m \in Upto[n] /\ p \in Upto[m] /\ m \in D
      BY <1>0, <1>2, <2>2 DEF IsOwner
  <2> QED
      BY <1>2, <2>2, <2>3
<1>3. ASSUME IsOwner(D, p, n), NEW m \in D, m \in Upto[n], m # n
      PROVE  p \notin Upto[m]
  <2>1. p \in Upto[m] => n \in Upto[m]
      BY <1>3 DEF IsOwner
  <2> QED
      BY <1>0, <1>3, <2>1, PageOrder
<1> QED
    BY <1>1, <1>2, <1>3 DEF IsOwner, D

LEMMA CachedIsPages ==
    ASSUME NEW t
    PROVE  Cached(t) = Pages(DOMAIN t)
BY DEF Cached, Pages

LEMMA CachedFinite ==
    ASSUME NEW t, TreeOK(t)
    PROVE  IsFiniteSet(Cached(t)) /\ Cached(t) \in SUBSET Page
<1> DEFINE D == DOMAIN t
           paths == {Upto[n] : n \in D}
           f == [n \in D |-> Upto[n]]
<1>0. IsFiniteSet(D) /\ D \in SUBSET Page
    BY DEF TreeOK
<1>1. f \in Surjection(D, paths)
    BY DEF Surjection
<1>2. IsFiniteSet(paths)
    BY <1>0, <1>1, FS_Surjection
<1>3. \A T \in paths : IsFiniteSet(T)
    BY <1>0, PageOrder
<1>4. IsFiniteSet(UNION paths)
    BY <1>2, <1>3, FS_UNION
<1>5. Cached(t) = UNION paths
    BY DEF Cached
<1>6. Cached(t) \subseteq Page
    BY <1>0, CachedIsPages, PagesOf
<1> QED
    BY <1>4, <1>5, <1>6

\* The lock of a page is that of its owner.
LEMMA LockOfOwner ==
    ASSUME NEW t, TreeOK(t), NEW p, NEW m, IsOwner(DOMAIN t, p, m)
    PROVE  EdgeLock(t, p) = t[m]
<1> DEFINE below == {n \in DOMAIN t : p \in Upto[n]}
           c == CHOOSE n \in below : \A k \in below : n \in Upto[k]
<1>1. m \in below /\ \A k \in below : m \in Upto[k]
    BY DEF IsOwner
<1>2. c \in below /\ \A k \in below : c \in Upto[k]
    BY <1>1
<1>3. IsOwner(DOMAIN t, p, c)
    BY <1>2 DEF IsOwner
<1>4. EdgeLock(t, p) = t[c]
    BY <1>1 DEF EdgeLock
<1> HIDE DEF c
<1>5. DOMAIN t \in SUBSET Page
    BY DEF TreeOK
<1>6. c = m
    BY <1>3, <1>5, OwnerUnique
<1> QED
    BY <1>4, <1>6

LEMMA NoLockOutside ==
    ASSUME NEW t, NEW p, p \notin Cached(t)
    PROVE  EdgeLock(t, p) = 0
<1>1. {m \in DOMAIN t : p \in Upto[m]} = {}
    BY DEF Cached
<1> QED
    BY <1>1 DEF EdgeLock

LEMMA LockNat ==
    ASSUME NEW t, TreeOK(t), NEW p
    PROVE  EdgeLock(t, p) \in Nat
<1>1. CASE p \notin Cached(t)
    BY <1>1, NoLockOutside
<1>2. CASE p \in Cached(t)
  <2>1. PICK m : IsOwner(DOMAIN t, p, m)
      BY <1>2, CachedIsPages, OwnerExists DEF TreeOK
  <2>2. EdgeLock(t, p) = t[m] /\ m \in DOMAIN t
      BY <2>1, LockOfOwner DEF IsOwner
  <2> QED
      BY <2>2 DEF TreeOK
<1> QED
    BY <1>1, <1>2

LEMMA LockOfNode ==
    ASSUME NEW t, TreeOK(t), NEW n \in DOMAIN t
    PROVE  EdgeLock(t, n) = t[n] /\ n \in Cached(t)
<1>1. IsOwner(DOMAIN t, n, n)
    BY OwnsItself DEF TreeOK
<1>2. n \in Upto[n]
    BY <1>1 DEF IsOwner
<1> QED
    BY <1>1, <1>2, LockOfOwner DEF Cached

-----------------------------------------------------------------------------
(* Growing a tree.                                                         *)

\* New nodes change the lock of no page; what they add is not locked.
LEMMA TreeGrows ==
    ASSUME NEW t, TreeOK(t), NEW N \in SUBSET (Page \cup {Root}), IsFiniteSet(N),
           Closed(DOMAIN t \cup (N \ {Root}))
    PROVE  LET u == WithNodes(t, N)
           IN  /\ TreeOK(u)
               /\ DOMAIN u = DOMAIN t \cup (N \ {Root})
               /\ Cached(u) = Cached(t) \cup Pages(N \ {Root})
               /\ \A p : EdgeLock(u, p) = EdgeLock(t, p)
<1> DEFINE u == WithNodes(t, N)
           D == DOMAIN t
           X == N \ {Root}
<1>0. /\ D \in SUBSET Page /\ IsFiniteSet(D) /\ X \in SUBSET Page /\ IsFiniteSet(X)
      /\ \A n \in D : t[n] \in Nat
  <2>1. X \in SUBSET N
      OBVIOUS
  <2>2. IsFiniteSet(X)
      BY <2>1, FS_Subset
  <2> QED
      BY <2>2 DEF TreeOK
<1>1. /\ DOMAIN u = D \cup X
      /\ \A n \in D : u[n] = t[n]
      /\ \A n \in X : n \notin D => u[n] = EdgeLock(t, n)
    BY DEF WithNodes
<1> HIDE DEF u
<1>2. TreeOK(u)
  <2>1. IsFiniteSet(D \cup X)
      BY <1>0, FS_Union
  <2>2. \A n \in DOMAIN u : u[n] \in Nat
      BY <1>0, <1>1, LockNat
  <2> QED
      BY <1>0, <1>1, <2>1, <2>2 DEF TreeOK
<1>3. Cached(u) = Cached(t) \cup Pages(X)
    BY <1>1 DEF Cached, Pages
<1>4. ASSUME NEW p
      PROVE  EdgeLock(u, p) = EdgeLock(t, p)
  <2>1. CASE p \notin Cached(u)
      BY <1>3, <2>1, NoLockOutside
  <2>2. CASE p \in Cached(u)
    <3>1. PICK x : IsOwner(DOMAIN u, p, x)
        BY <1>2, <2>2, CachedIsPages, OwnerExists DEF TreeOK
    <3>2. EdgeLock(u, p) = u[x]
        BY <1>2, <3>1, LockOfOwner
    <3>3. CASE x \in D
      <4>1. IsOwner(D, p, x)
          BY <1>1, <3>1, <3>3 DEF IsOwner
      <4>2. EdgeLock(t, p) = t[x]
          BY <4>1, LockOfOwner
      <4> QED
          BY <1>1, <3>2, <3>3, <4>2
    <3>4. CASE x \notin D
      <4>1. x \in X /\ u[x] = EdgeLock(t, x) /\ x \in Page /\ p \in Upto[x]
          BY <1>0, <1>1, <3>1, <3>4 DEF IsOwner
      <4>2. CASE p \in Cached(t)
        <5>1. PICK m : IsOwner(D, p, m)
            BY <1>0, <4>2, CachedIsPages, OwnerExists DEF TreeOK
        <5>2. m \in D /\ p \in Upto[m] /\ m \in DOMAIN u
            BY <1>1, <5>1 DEF IsOwner
        <5>3. x \in Upto[m]
            BY <3>1, <5>2 DEF IsOwner
        <5>4. \A k \in D : x \in Upto[k] => m \in Upto[k]
          <6>1. ASSUME NEW k \in D, x \in Upto[k]
                PROVE  m \in Upto[k]
            <7>1. p \in Upto[k]
                BY <1>0, <4>1, <6>1, PageOrder
            <7> QED
                BY <5>1, <7>1 DEF IsOwner
          <6> QED
              BY <6>1
        <5>5. IsOwner(D, x, m)
            BY <5>2, <5>3, <5>4 DEF IsOwner
        <5>6. EdgeLock(t, x) = t[m] /\ EdgeLock(t, p) = t[m]
            BY <5>1, <5>5, LockOfOwner
        <5> QED
            BY <3>2, <4>1, <5>6
      <4>3. CASE p \notin Cached(t)
        <5>1. x \notin Cached(t)
          <6>1. x \in Cached(t) => Upto[x] \subseteq Cached(t)
              BY <1>0, CachedIsPages, PagesOf
          <6> QED
              BY <4>1, <4>3, <6>1
        <5> QED
            BY <3>2, <4>1, <4>3, <5>1, NoLockOutside
      <4> QED
          BY <4>2, <4>3
    <3> QED
        BY <3>3, <3>4
  <2> QED
      BY <2>1, <2>2
<1> QED
    BY <1>1, <1>2, <1>3, <1>4 DEF u

\* Nodes on existing edges keep the shape.
LEMMA ClosedSplit ==
    ASSUME NEW D \in SUBSET Page, Closed(D), NEW X \in SUBSET Pages(D)
    PROVE  Closed(D \cup X)
<1> DEFINE Meets(a, b, Z) == Upto[a] \cap Upto[b] = {} \/ \E k \in Z : Upto[a] \cap Upto[b] = Upto[k]
<1>1. ASSUME NEW x \in Pages(D), NEW m \in D
      PROVE  Meets(x, m, D \cup {x})
  <2>1. PICK n \in D : x \in Upto[n]
      BY PagesOf
  <2>2. x \in Page /\ n \in Page /\ m \in Page /\ Upto[x] \subseteq Upto[n]
      BY <2>1, PageOrder
  <2>3. CASE Upto[n] \cap Upto[m] = {}
      BY <2>2, <2>3
  <2>4. CASE \E k \in D : Upto[n] \cap Upto[m] = Upto[k]
    <3>1. PICK k \in D : Upto[n] \cap Upto[m] = Upto[k]
        BY <2>4
    <3>2. k \in Page /\ k \in Upto[n] /\ k \in Upto[m]
        BY <3>1, PageOrder
    <3>3. x \in Upto[k] \/ k \in Upto[x]
        BY <2>1, <2>2, <3>2, PageOrder
    <3>4. CASE x \in Upto[k]
      <4>1. Upto[x] \subseteq Upto[k]
          BY <3>2, <3>4, PageOrder
      <4>2. Upto[x] \cap Upto[m] = Upto[x]
          BY <3>1, <4>1
      <4> QED
          BY <4>2
    <3>5. CASE k \in Upto[x]
      <4>1. Upto[k] \subseteq Upto[x]
          BY <2>2, <3>5, PageOrder
      <4>2. Upto[x] \cap Upto[m] = Upto[k]
          BY <2>2, <3>1, <4>1
      <4> QED
          BY <4>2
    <3> QED
        BY <3>3, <3>4, <3>5
  <2> QED
      BY <2>3, <2>4 DEF Closed
<1>2. ASSUME NEW x \in Pages(D), NEW y \in Pages(D)
      PROVE  Meets(x, y, D \cup {x, y})
  <2>1. PICK n \in D : y \in Upto[n]
      BY PagesOf
  <2>2. x \in Page /\ y \in Page /\ n \in Page /\ Upto[y] \subseteq Upto[n]
      BY <2>1, PagesOf, PageOrder
  <2>3. CASE Upto[x] \cap Upto[n] = {}
      BY <2>2, <2>3
  <2>4. CASE \E k \in D \cup {x} : Upto[x] \cap Upto[n] = Upto[k]
    <3>1. PICK k \in D \cup {x} : Upto[x] \cap Upto[n] = Upto[k]
        BY <2>4
    <3>2. k \in Page /\ k \in Upto[n] /\ k \in Upto[x]
        BY <2>2, <3>1, PageOrder
    <3>3. y \in Upto[k] \/ k \in Upto[y]
        BY <2>1, <2>2, <3>2, PageOrder
    <3>4. CASE y \in Upto[k]
      <4>1. Upto[y] \subseteq Upto[k]
          BY <3>2, <3>4, PageOrder
      <4>2. Upto[x] \cap Upto[y] = Upto[y]
          BY <3>1, <4>1
      <4> QED
          BY <4>2
    <3>5. CASE k \in Upto[y]
      <4>1. Upto[k] \subseteq Upto[y]
          BY <2>2, <3>5, PageOrder
      <4>2. Upto[x] \cap Upto[y] = Upto[k]
          BY <2>2, <3>1, <4>1
      <4> QED
          BY <3>1, <4>2
    <3> QED
        BY <3>3, <3>4, <3>5
  <2> QED
      BY <1>1, <2>3, <2>4
<1>3. ASSUME NEW a \in D \cup X, NEW b \in D \cup X
      PROVE  Meets(a, b, D \cup X)
  <2>1. CASE a \in D /\ b \in D
      BY <2>1 DEF Closed
  <2>2. CASE a \in X /\ b \in D
      BY <1>1, <2>2
  <2>3. CASE a \in D /\ b \in X
    <3>1. Meets(b, a, D \cup {b})
        BY <1>1, <2>3
    <3>2. Upto[a] \cap Upto[b] = Upto[b] \cap Upto[a]
        OBVIOUS
    <3> QED
        BY <2>3, <3>1, <3>2
  <2>4. CASE a \in X /\ b \in X
      BY <1>2, <2>4
  <2> QED
      BY <2>1, <2>2, <2>3, <2>4
<1> QED
    BY <1>3 DEF Closed

\* So does a leaf that leaves the tree at a node.
LEMMA ClosedLeaf ==
    ASSUME NEW D \in SUBSET Page, Closed(D), NEW x \in Page,
           \/ Upto[x] \cap Pages(D) = {}
           \/ \E h \in D : Upto[x] \cap Pages(D) = Upto[h]
    PROVE  Closed(D \cup {x})
<1> DEFINE Meets(a, b) == \/ Upto[a] \cap Upto[b] = {}
                          \/ \E k \in D \cup {x} : Upto[a] \cap Upto[b] = Upto[k]
<1>1. ASSUME NEW m \in D
      PROVE  Meets(x, m)
  <2>1. Upto[m] \subseteq Pages(D)
      BY DEF Pages
  <2>2. CASE Upto[x] \cap Pages(D) = {}
      BY <2>1, <2>2
  <2>3. CASE \E h \in D : Upto[x] \cap Pages(D) = Upto[h]
    <3>1. PICK h \in D : Upto[x] \cap Pages(D) = Upto[h]
        BY <2>3
    <3>2. Upto[x] \cap Upto[m] = Upto[h] \cap Upto[m]
        BY <2>1, <3>1
    <3>3. \/ Upto[h] \cap Upto[m] = {}
          \/ \E k \in D : Upto[h] \cap Upto[m] = Upto[k]
        BY DEF Closed
    <3> QED
        BY <3>2, <3>3
  <2> QED
      BY <2>2, <2>3
<1>2. ASSUME NEW a \in D \cup {x}, NEW b \in D \cup {x}
      PROVE  Meets(a, b)
  <2>1. CASE a \in D /\ b \in D
      BY <2>1 DEF Closed
  <2>2. CASE a = x /\ b \in D
      BY <1>1, <2>2
  <2>3. CASE a \in D /\ b = x
    <3>1. Upto[a] \cap Upto[b] = Upto[b] \cap Upto[a]
        OBVIOUS
    <3> QED
        BY <1>1, <2>3, <3>1
  <2>4. CASE a = x /\ b = x
      BY <2>4
  <2> QED
      BY <2>1, <2>2, <2>3, <2>4
<1> QED
    BY <1>2 DEF Closed

\* A match finds the longest cached prefix of a key.
LEMMA MatchFacts ==
    ASSUME NEW t, TreeOK(t), NEW key \in Page \cup {Root}
    PROVE  /\ Match(t, key) \in Cached(t) \cup {Root}
           /\ Up(Match(t, key)) = Up(key) \cap Cached(t)
<1> DEFINE hit == Up(key) \cap Cached(t)
           c == CHOOSE p \in hit : hit \subseteq Upto[p]
<1>0. Cached(t) \in SUBSET Page /\ Root \notin Page /\ DOMAIN t \in SUBSET Page
    BY CachedFinite, PageAssumption DEF TreeOK
<1>1. CASE hit = {}
    BY <1>1 DEF Match, Up
<1>2. CASE hit # {}
  <2>1. key \in Page /\ Up(key) = Upto[key]
      BY <1>2 DEF Up
  <2> DEFINE sizes == {Cardinality(Upto[key]) - Cardinality(Upto[p]) : p \in hit}
  <2>2. \A p \in hit : /\ p \in Page /\ Cardinality(Upto[p]) \in Nat
                       /\ Cardinality(Upto[p]) <= Cardinality(Upto[key])
      BY <1>0, <2>1, SmallerPrefix
  <2>3. Cardinality(Upto[key]) \in Nat
      BY <2>1, PageOrder, SmallerPrefix
  <2>4. sizes \subseteq Nat /\ sizes # {}
      BY <1>2, <2>2, <2>3
  <2> HIDE DEF sizes
  <2>5. PICK x \in sizes : \A y \in sizes : x <= y
      BY <2>4, LeastMember
  <2>6. PICK q \in hit : Cardinality(Upto[key]) - Cardinality(Upto[q]) = x
      BY <2>5 DEF sizes
  <2>7. ASSUME NEW p \in hit
        PROVE  p \in Upto[q]
    <3>1. p \in Upto[q] \/ q \in Upto[p]
        BY <2>1, <2>6, PageOrder
    <3>2. CASE q \in Upto[p]
      <4>1. Cardinality(Upto[key]) - Cardinality(Upto[p]) \in sizes
          BY DEF sizes
      <4>2. x <= Cardinality(Upto[key]) - Cardinality(Upto[p])
          BY <2>5, <4>1
      <4>3. Cardinality(Upto[p]) <= Cardinality(Upto[q])
          BY <2>2, <2>3, <2>6, <4>2
      <4>4. Cardinality(Upto[q]) <= Cardinality(Upto[p])
          BY <2>2, <3>2, SmallerPrefix
      <4>5. p = q
          BY <2>2, <3>2, <4>3, <4>4, SmallerPrefix
      <4> QED
          BY <2>2, <4>5, PageOrder
    <3> QED
        BY <3>1, <3>2
  <2>8. c \in hit /\ hit \subseteq Upto[c]
      BY <2>6, <2>7
  <2>9. Match(t, key) = c
      BY <1>2 DEF Match
  <2> HIDE DEF c
  <2>10. Upto[c] \subseteq hit
    <3>1. Upto[c] \subseteq Upto[key]
        BY <2>1, <2>8, PageOrder
    <3>2. Upto[c] \subseteq Cached(t)
        BY <1>0, <2>8, CachedIsPages, PagesOf
    <3> QED
        BY <2>1, <3>1, <3>2
  <2>11. Up(c) = Upto[c]
      BY <1>0, <2>8 DEF Up
  <2> QED
      BY <2>8, <2>9, <2>10, <2>11
<1> QED
    BY <1>1, <1>2

\* Splits: nodes on cached pages.
LEMMA SplitFacts ==
    ASSUME NEW t, TreeOK(t), NEW N \in SUBSET (Cached(t) \cup {Root}), IsFiniteSet(N)
    PROVE  LET u == WithNodes(t, N)
           IN  /\ TreeOK(u)
               /\ DOMAIN u = DOMAIN t \cup (N \ {Root})
               /\ Cached(u) = Cached(t)
               /\ \A p : EdgeLock(u, p) = EdgeLock(t, p)
<1> DEFINE X == N \ {Root}
           u == WithNodes(t, N)
<1>0. /\ Cached(t) \in SUBSET Page /\ DOMAIN t \in SUBSET Page /\ Closed(DOMAIN t)
      /\ Cached(t) = Pages(DOMAIN t)
    BY CachedFinite, CachedIsPages DEF TreeOK
<1>1. X \in SUBSET Pages(DOMAIN t) /\ N \in SUBSET (Page \cup {Root})
    BY <1>0
<1>2. Closed(DOMAIN t \cup X)
    BY <1>0, <1>1, ClosedSplit
<1>3. /\ TreeOK(u)
      /\ DOMAIN u = DOMAIN t \cup X
      /\ Cached(u) = Cached(t) \cup Pages(X)
      /\ \A p : EdgeLock(u, p) = EdgeLock(t, p)
    BY <1>1, <1>2, TreeGrows
<1>4. Pages(X) \subseteq Cached(t)
  <2>1. \A n \in X : Upto[n] \subseteq Cached(t)
      BY <1>0, <1>1, PagesOf
  <2> QED
      BY <2>1 DEF Pages
<1> HIDE DEF u
<1>5. Cached(u) = Cached(t)
    BY <1>3, <1>4
<1> QED
    BY <1>3, <1>5 DEF u

\* An insertion caches the key and leaves every lock as it is.
LEMMA InsertedFacts ==
    ASSUME NEW t, TreeOK(t), NEW key \in Page \cup {Root}
    PROVE  LET u == Inserted(t, key)
           IN  /\ TreeOK(u)
               /\ DOMAIN t \subseteq DOMAIN u
               /\ key \in DOMAIN u \cup {Root}
               /\ Cached(u) = Cached(t) \cup Up(key)
               /\ \A p : EdgeLock(u, p) = EdgeLock(t, p)
<1> DEFINE h == Match(t, key)
           u == Inserted(t, key)
           D == DOMAIN t
           H == {h} \ {Root}
           K == {key} \ {Root}
<1>0. /\ Cached(t) \in SUBSET Page /\ D \in SUBSET Page /\ Closed(D) /\ Root \notin Page
      /\ Cached(t) = Pages(D)
    BY CachedFinite, CachedIsPages, PageAssumption DEF TreeOK
<1>1. h \in Cached(t) \cup {Root} /\ Up(h) = Up(key) \cap Cached(t)
    BY MatchFacts
<1> HIDE DEF h
<1>2. Closed(D \cup H) /\ D \cup H \in SUBSET Page
  <2>1. H \in SUBSET Pages(D)
      BY <1>0, <1>1
  <2> QED
      BY <1>0, <2>1, ClosedSplit
<1>3. Pages(D \cup H) = Pages(D)
  <2>1. \A n \in H : Upto[n] \subseteq Pages(D)
      BY <1>0, <1>1, PagesOf
  <2> QED
      BY <2>1 DEF Pages
<1>4. Closed((D \cup H) \cup K)
  <2>1. CASE key = Root
      BY <1>2, <2>1
  <2>2. CASE key \in Page
    <3>1. K = {key} /\ Up(key) = Upto[key]
        BY <1>0, <2>2 DEF Up
    <3>2. Upto[key] \cap Pages(D \cup H) = Up(h)
        BY <1>0, <1>1, <1>3, <3>1
    <3>3. \/ Upto[key] \cap Pages(D \cup H) = {}
          \/ \E n \in D \cup H : Upto[key] \cap Pages(D \cup H) = Upto[n]
      <4>1. CASE h = Root
          BY <3>2, <4>1 DEF Up
      <4>2. CASE h # Root
          BY <1>1, <3>2, <4>2 DEF Up
      <4> QED
          BY <4>1, <4>2
    <3> HIDE DEF H
    <3>4. Closed((D \cup H) \cup {key})
        BY <1>2, <2>2, <3>3, ClosedLeaf
    <3> QED
        BY <3>1, <3>4
  <2> QED
      BY <2>1, <2>2
<1>5. /\ {h, key} \in SUBSET (Page \cup {Root}) /\ IsFiniteSet({h, key})
      /\ {h, key} \ {Root} = H \cup K
  <2>1. IsFiniteSet({h}) /\ IsFiniteSet({key}) /\ {h, key} = {h} \cup {key}
      BY FS_Singleton
  <2>2. IsFiniteSet({h} \cup {key})
      BY <2>1, FS_Union
  <2>3. h \in Page \cup {Root}
      BY <1>0, <1>1
  <2> QED
      BY <2>1, <2>2, <2>3
<1>6. Closed(D \cup ({h, key} \ {Root}))
  <2>1. D \cup ({h, key} \ {Root}) = (D \cup H) \cup K
      BY <1>5
  <2> QED
      BY <1>4, <2>1
<1>7. /\ TreeOK(WithNodes(t, {h, key}))
      /\ DOMAIN WithNodes(t, {h, key}) = D \cup ({h, key} \ {Root})
      /\ Cached(WithNodes(t, {h, key})) = Cached(t) \cup Pages({h, key} \ {Root})
      /\ \A p : EdgeLock(WithNodes(t, {h, key}), p) = EdgeLock(t, p)
    BY <1>5, <1>6, TreeGrows
<1>8. u = WithNodes(t, {h, key})
    BY DEF Inserted, h
<1>9. Cached(t) \cup Pages({h, key} \ {Root}) = Cached(t) \cup Up(key)
  <2>1. Pages(H \cup K) = Pages(H) \cup Pages(K)
      BY DEF Pages
  <2>2. Pages(H) \subseteq Cached(t)
    <3>1. \A n \in H : Upto[n] \subseteq Cached(t)
        BY <1>0, <1>1, PagesOf
    <3> QED
        BY <3>1 DEF Pages
  <2>3. Pages(K) = Up(key)
      BY DEF Pages, Up
  <2> QED
      BY <1>5, <2>1, <2>2, <2>3
<1> QED
    BY <1>7, <1>8, <1>9

-----------------------------------------------------------------------------
(* Counting tokens.                                                        *)

Owned(t, N) == UNION {Edge(t, n) : n \in N}
FreeNodes(t) == {n \in DOMAIN t : t[n] = 0}
LockedNodes(t) == {n \in DOMAIN t : t[n] > 0}

LEMMA OwnedFacts ==
    ASSUME NEW t, TreeOK(t), NEW N \in SUBSET DOMAIN t
    PROVE  /\ IsFiniteSet(Owned(t, N)) /\ Owned(t, N) \subseteq Cached(t)
           /\ Tokens(t, N) = Block * Cardinality(Owned(t, N))
           /\ Cardinality(Owned(t, N)) \in Nat /\ Tokens(t, N) \in Nat
           /\ \A p : p \in Owned(t, N) <=> \E n \in N : IsOwner(DOMAIN t, p, n)
<1>1. \A p : p \in Owned(t, N) <=> \E n \in N : IsOwner(DOMAIN t, p, n)
    BY EdgeIsOwned DEF Owned
<1>2. Owned(t, N) \in SUBSET Cached(t)
    BY <1>1 DEF IsOwner, Cached
<1>3. IsFiniteSet(Owned(t, N))
    BY <1>2, CachedFinite, FS_Subset
<1>4. Tokens(t, N) = Block * Cardinality(Owned(t, N))
    BY DEF Tokens, Owned
<1>5. Cardinality(Owned(t, N)) \in Nat
    BY <1>3, FS_CardinalityType
<1>6. Block * Cardinality(Owned(t, N)) \in Nat
    BY <1>5, BlockAssumption
<1> QED
    BY <1>1, <1>2, <1>3, <1>4, <1>5, <1>6

\* Nodes share no page of their edges.
LEMMA TokensAdd ==
    ASSUME NEW t, TreeOK(t), NEW M \in SUBSET DOMAIN t, NEW N \in SUBSET DOMAIN t, M \cap N = {}
    PROVE  Tokens(t, M \cup N) = Tokens(t, M) + Tokens(t, N)
<1>1. Owned(t, M \cup N) = Owned(t, M) \cup Owned(t, N)
    BY DEF Owned
<1>2. Owned(t, M) \cap Owned(t, N) = {}
  <2> SUFFICES ASSUME NEW p, p \in Owned(t, M), p \in Owned(t, N)
               PROVE  FALSE
      OBVIOUS
  <2>1. PICK m \in M : IsOwner(DOMAIN t, p, m)
      BY OwnedFacts
  <2>2. PICK n \in N : IsOwner(DOMAIN t, p, n)
      BY OwnedFacts
  <2>3. DOMAIN t \in SUBSET Page
      BY DEF TreeOK
  <2> QED
      BY <2>1, <2>2, <2>3, OwnerUnique
<1> DEFINE a == Cardinality(Owned(t, M))
           b == Cardinality(Owned(t, N))
<1>3. /\ IsFiniteSet(Owned(t, M)) /\ IsFiniteSet(Owned(t, N)) /\ a \in Nat /\ b \in Nat
      /\ Tokens(t, M) = Block * a /\ Tokens(t, N) = Block * b
    BY OwnedFacts
<1>4. Cardinality(Owned(t, M \cup N)) = a + b
  <2> HIDE DEF a, b
  <2>1. Cardinality(Owned(t, M) \cup Owned(t, N))
          = a + b - Cardinality(Owned(t, M) \cap Owned(t, N))
      BY <1>3, FS_Union DEF a, b
  <2>2. Cardinality(Owned(t, M) \cap Owned(t, N)) = 0
      BY <1>2, FS_EmptySet
  <2>3. Cardinality(Owned(t, M) \cup Owned(t, N)) = a + b - 0
      BY <2>1, <2>2
  <2>4. a + b - 0 = a + b
      BY <1>3
  <2> QED
      BY <1>1, <2>3, <2>4
<1>5. M \cup N \in SUBSET DOMAIN t
    OBVIOUS
<1>6. Tokens(t, M \cup N) = Block * Cardinality(Owned(t, M \cup N))
    BY <1>5, OwnedFacts
<1> HIDE DEF a, b
<1>7. Block * (a + b) = Block * a + Block * b
    BY <1>3, BlockAssumption
<1> QED
    BY <1>3, <1>4, <1>6, <1>7

\* Which nodes there are decides which pages an edge has.
LEMMA TokensOfNodes ==
    ASSUME NEW t, NEW u, DOMAIN t = DOMAIN u, NEW N
    PROVE  Tokens(t, N) = Tokens(u, N)
<1>1. \A n : Edge(t, n) = Edge(u, n)
    BY DEF Edge
<1> QED
    BY <1>1 DEF Tokens

\* Unlocked tokens are those of unlocked pages.
LEMMA TokensByLock ==
    ASSUME NEW t, TreeOK(t)
    PROVE  /\ Owned(t, FreeNodes(t)) = {p \in Cached(t) : EdgeLock(t, p) = 0}
           /\ Owned(t, LockedNodes(t)) = {p \in Cached(t) : EdgeLock(t, p) > 0}
<1>1. /\ FreeNodes(t) \in SUBSET DOMAIN t /\ LockedNodes(t) \in SUBSET DOMAIN t
      /\ DOMAIN t \in SUBSET Page /\ Closed(DOMAIN t)
    BY DEF FreeNodes, LockedNodes, TreeOK
<1>2. \A p \in Cached(t) : \E m \in DOMAIN t : IsOwner(DOMAIN t, p, m) /\ EdgeLock(t, p) = t[m]
  <2>1. ASSUME NEW p \in Cached(t)
        PROVE  \E m \in DOMAIN t : IsOwner(DOMAIN t, p, m) /\ EdgeLock(t, p) = t[m]
    <3>1. PICK m : IsOwner(DOMAIN t, p, m)
        BY <1>1, CachedIsPages, OwnerExists
    <3> QED
        BY <3>1, LockOfOwner DEF IsOwner
  <2> QED
      BY <2>1
<1>3. \A p \in Cached(t) : \A n : IsOwner(DOMAIN t, p, n) => EdgeLock(t, p) = t[n]
    BY LockOfOwner
<1>4. /\ \A p : p \in Owned(t, FreeNodes(t))
                  <=> \E n \in FreeNodes(t) : IsOwner(DOMAIN t, p, n)
      /\ \A p : p \in Owned(t, LockedNodes(t))
                  <=> \E n \in LockedNodes(t) : IsOwner(DOMAIN t, p, n)
      /\ Owned(t, FreeNodes(t)) \subseteq Cached(t) /\ Owned(t, LockedNodes(t)) \subseteq Cached(t)
    BY <1>1, OwnedFacts
<1> QED
    BY <1>2, <1>3, <1>4 DEF FreeNodes, LockedNodes

\* What the counters say of a tree.
Books(t, free, held, total) ==
  /\ free = Tokens(t, FreeNodes(t)) /\ held = Tokens(t, LockedNodes(t)) /\ total = free + held

\* Growth is not locked.
LEMMA GrowthBooks ==
    ASSUME NEW t, TreeOK(t), NEW u, TreeOK(u), Cached(t) \subseteq Cached(u),
           \A p : EdgeLock(u, p) = EdgeLock(t, p)
    PROVE  LET grown == Block * Cardinality(Cached(u) \ Cached(t))
           IN  /\ grown \in Nat
               /\ Tokens(u, FreeNodes(u)) = Tokens(t, FreeNodes(t)) + grown
               /\ Tokens(u, LockedNodes(u)) = Tokens(t, LockedNodes(t))
<1> DEFINE new == Cached(u) \ Cached(t)
           A == Owned(t, FreeNodes(t))
           B == Owned(u, FreeNodes(u))
<1>1. /\ A = {p \in Cached(t) : EdgeLock(t, p) = 0}
      /\ B = {p \in Cached(u) : EdgeLock(u, p) = 0}
      /\ Owned(t, LockedNodes(t)) = {p \in Cached(t) : EdgeLock(t, p) > 0}
      /\ Owned(u, LockedNodes(u)) = {p \in Cached(u) : EdgeLock(u, p) > 0}
    BY TokensByLock
<1>2. \A p \in new : EdgeLock(t, p) = 0
    BY NoLockOutside
<1>3. B = A \cup new /\ A \cap new = {}
    BY <1>1, <1>2
<1>4. Owned(u, LockedNodes(u)) = Owned(t, LockedNodes(t))
    BY <1>1, <1>2
<1>5. /\ FreeNodes(t) \in SUBSET DOMAIN t /\ LockedNodes(t) \in SUBSET DOMAIN t
      /\ FreeNodes(u) \in SUBSET DOMAIN u /\ LockedNodes(u) \in SUBSET DOMAIN u
    BY DEF FreeNodes, LockedNodes
<1> HIDE DEF A, B, new
<1>6. /\ IsFiniteSet(A) /\ Cardinality(A) \in Nat
      /\ Tokens(t, FreeNodes(t)) = Block * Cardinality(A)
      /\ Tokens(u, FreeNodes(u)) = Block * Cardinality(B)
    BY <1>5, OwnedFacts DEF A, B
<1>7. IsFiniteSet(new) /\ Cardinality(new) \in Nat
  <2>1. IsFiniteSet(Cached(u)) /\ new \in SUBSET Cached(u)
      BY CachedFinite DEF new
  <2>2. IsFiniteSet(new)
      BY <2>1, FS_Subset
  <2> QED
      BY <2>2, FS_CardinalityType
<1>8. Cardinality(B) = Cardinality(A) + Cardinality(new)
  <2>1. Cardinality(A \cup new) = Cardinality(A) + Cardinality(new) - Cardinality(A \cap new)
      BY <1>6, <1>7, FS_Union
  <2>2. Cardinality(A \cap new) = 0
      BY <1>3, FS_EmptySet
  <2>3. Cardinality(B) = Cardinality(A) + Cardinality(new) - 0
      BY <1>3, <2>1, <2>2
  <2> QED
      BY <1>6, <1>7, <2>3
<1>9. Block * (Cardinality(A) + Cardinality(new)) = Block * Cardinality(A) + Block * Cardinality(new)
    BY <1>6, <1>7, BlockAssumption
<1>10. Block * Cardinality(new) \in Nat
    BY <1>7, BlockAssumption
<1>11. Tokens(u, LockedNodes(u)) = Tokens(t, LockedNodes(t))
    BY <1>4, <1>5, OwnedFacts
<1> QED
    BY <1>6, <1>8, <1>9, <1>10, <1>11 DEF new

\* Locking and unlocking move tokens between the two counters.
LEMMA LockBooks ==
    ASSUME NEW t, TreeOK(t), NEW u, TreeOK(u), DOMAIN u = DOMAIN t
    PROVE  /\ NewlyLocked(t, u) \in Nat /\ NewlyFree(t, u) \in Nat
           /\ Tokens(t, FreeNodes(t)) \in Nat /\ Tokens(t, LockedNodes(t)) \in Nat
           /\ NewlyLocked(t, u) <= Tokens(t, FreeNodes(t))
           /\ Tokens(u, FreeNodes(u))
                = Tokens(t, FreeNodes(t)) - NewlyLocked(t, u) + NewlyFree(t, u)
           /\ Tokens(u, LockedNodes(u))
                = Tokens(t, LockedNodes(t)) + NewlyLocked(t, u) - NewlyFree(t, u)
<1> DEFINE up == {n \in DOMAIN u : t[n] = 0 /\ u[n] > 0}
           down == {n \in DOMAIN u : t[n] > 0 /\ u[n] = 0}
           free == {n \in DOMAIN u : t[n] = 0 /\ u[n] = 0}
           held == {n \in DOMAIN u : t[n] > 0 /\ u[n] > 0}
<1>0. \A n \in DOMAIN u : t[n] \in Nat /\ u[n] \in Nat
    BY DEF TreeOK
<1>1. /\ FreeNodes(t) = up \cup free /\ up \cap free = {}
      /\ FreeNodes(u) = down \cup free /\ down \cap free = {}
    BY <1>0 DEF FreeNodes
<1>2. /\ LockedNodes(t) = down \cup held /\ down \cap held = {}
      /\ LockedNodes(u) = up \cup held /\ up \cap held = {}
    BY <1>0 DEF LockedNodes
<1>3. NewlyLocked(t, u) = Tokens(u, up) /\ NewlyFree(t, u) = Tokens(u, down)
    BY DEF NewlyLocked, NewlyFree
<1>4. /\ up \in SUBSET DOMAIN u /\ down \in SUBSET DOMAIN u
      /\ free \in SUBSET DOMAIN u /\ held \in SUBSET DOMAIN u
    OBVIOUS
<1> HIDE DEF up, down, free, held
<1>5. /\ Tokens(u, up) \in Nat /\ Tokens(u, down) \in Nat
      /\ Tokens(u, free) \in Nat /\ Tokens(u, held) \in Nat
    BY <1>4, OwnedFacts
<1>6. /\ Tokens(u, FreeNodes(t)) = Tokens(u, up) + Tokens(u, free)
      /\ Tokens(u, FreeNodes(u)) = Tokens(u, down) + Tokens(u, free)
    BY <1>1, <1>4, TokensAdd
<1>7. /\ Tokens(u, LockedNodes(t)) = Tokens(u, down) + Tokens(u, held)
      /\ Tokens(u, LockedNodes(u)) = Tokens(u, up) + Tokens(u, held)
    BY <1>2, <1>4, TokensAdd
<1>8. /\ Tokens(t, FreeNodes(t)) = Tokens(u, FreeNodes(t))
      /\ Tokens(t, LockedNodes(t)) = Tokens(u, LockedNodes(t))
    BY TokensOfNodes
<1> QED
    BY <1>3, <1>5, <1>6, <1>7, <1>8

LEMMA AboveNat ==
    ASSUME NEW R, IsFiniteSet(R), NEW at, NEW n
    PROVE  Above(R, at, n) \in Nat
<1>1. {r \in R : n \in Up(at[r])} \in SUBSET R
    OBVIOUS
<1>2. IsFiniteSet({r \in R : n \in Up(at[r])})
    BY <1>1, FS_Subset
<1> QED
    BY <1>2, FS_CardinalityType DEF Above

LEMMA LockedFacts ==
    ASSUME NEW t, TreeOK(t), NEW R, IsFiniteSet(R), NEW at
    PROVE  LET u == LockedBy(t, R, at)
           IN  /\ TreeOK(u) /\ DOMAIN u = DOMAIN t /\ Cached(u) = Cached(t)
               /\ \A n \in DOMAIN t : u[n] = t[n] + Above(R, at, n)
<1> DEFINE u == LockedBy(t, R, at)
<1>1. DOMAIN u = DOMAIN t /\ \A n \in DOMAIN t : u[n] = t[n] + Above(R, at, n)
    BY DEF LockedBy
<1> HIDE DEF u
<1>2. TreeOK(u)
    BY <1>1, AboveNat DEF TreeOK
<1> QED
    BY <1>1, <1>2 DEF u, Cached

LEMMA UnlockedFacts ==
    ASSUME NEW t, TreeOK(t), NEW R, IsFiniteSet(R), NEW at,
           \A n \in DOMAIN t : Above(R, at, n) <= t[n]
    PROVE  LET u == UnlockedBy(t, R, at)
           IN  /\ TreeOK(u) /\ DOMAIN u = DOMAIN t /\ Cached(u) = Cached(t)
               /\ \A n \in DOMAIN t : u[n] = t[n] - Above(R, at, n)
<1> DEFINE u == UnlockedBy(t, R, at)
<1>1. DOMAIN u = DOMAIN t /\ \A n \in DOMAIN t : u[n] = t[n] - Above(R, at, n)
    BY DEF UnlockedBy
<1> HIDE DEF u
<1>2. \A n \in DOMAIN t : u[n] \in Nat
  <2>1. ASSUME NEW n \in DOMAIN t PROVE u[n] \in Nat
    <3>1. t[n] \in Nat /\ Above(R, at, n) \in Nat /\ Above(R, at, n) <= t[n]
        BY AboveNat DEF TreeOK
    <3> QED
        BY <1>1, <3>1
  <2> QED
      BY <2>1
<1>3. TreeOK(u)
    BY <1>1, <1>2 DEF TreeOK
<1> QED
    BY <1>1, <1>3 DEF u, Cached

\* An unlocked leaf takes its own tokens along, and nothing else.
LEMMA EvictedFacts ==
    ASSUME NEW t, TreeOK(t), NEW n \in FreeLeaves(t)
    PROVE  LET u == Without(t, n)
           IN  /\ TreeOK(u) /\ DOMAIN u = DOMAIN t \ {n}
               /\ \A m \in DOMAIN u : u[m] = t[m] /\ n \notin Upto[m]
               /\ Tokens(t, {n}) \in Nat
               /\ Tokens(u, FreeNodes(u)) = Tokens(t, FreeNodes(t)) - Tokens(t, {n})
               /\ Tokens(u, LockedNodes(u)) = Tokens(t, LockedNodes(t))
<1> DEFINE u == Without(t, n)
           D == DOMAIN t
<1>0. /\ D \in SUBSET Page /\ IsFiniteSet(D) /\ Closed(D) /\ n \in D
      /\ \A m \in D : t[m] \in Nat
    BY DEF TreeOK, FreeLeaves
<1>1. t[n] = 0 /\ \A m \in D : n \in Upto[m] => m = n
    BY DEF FreeLeaves
<1>2. DOMAIN u = D \ {n} /\ \A m \in D \ {n} : u[m] = t[m]
    BY DEF Without
<1> HIDE DEF u
<1>3. TreeOK(u)
  <2>1. IsFiniteSet(D \ {n})
      BY <1>0, FS_RemoveElement
  <2>2. Closed(D \ {n})
    <3> SUFFICES ASSUME NEW a \in D \ {n}, NEW b \in D \ {n}, Upto[a] \cap Upto[b] # {}
                 PROVE  \E k \in D \ {n} : Upto[a] \cap Upto[b] = Upto[k]
        BY DEF Closed
    <3>1. PICK k \in D : Upto[a] \cap Upto[b] = Upto[k]
        BY <1>0 DEF Closed
    <3>2. k # n
        BY <1>0, <1>1, <3>1, PageOrder
    <3> QED
        BY <3>1, <3>2
  <2> QED
      BY <1>0, <1>2, <2>1, <2>2 DEF TreeOK
<1>4. \A m \in D \ {n} : Edge(u, m) = Edge(t, m)
  <2>1. ASSUME NEW m \in D \ {n}
        PROVE  Edge(u, m) = Edge(t, m)
    <3>1. (DOMAIN u \cap Upto[m]) \ {m} = (D \cap Upto[m]) \ {m}
        BY <1>1, <1>2
    <3> QED
        BY <3>1 DEF Edge
  <2> QED
      BY <2>1
<1>5. FreeNodes(t) = FreeNodes(u) \cup {n} /\ n \notin FreeNodes(u)
    BY <1>0, <1>1, <1>2 DEF FreeNodes
<1>6. LockedNodes(u) = LockedNodes(t)
    BY <1>0, <1>1, <1>2 DEF LockedNodes
<1>7. /\ FreeNodes(u) \in SUBSET (D \ {n}) /\ LockedNodes(u) \in SUBSET (D \ {n})
      /\ {n} \in SUBSET D /\ FreeNodes(u) \in SUBSET D
    BY <1>0, <1>2 DEF FreeNodes, LockedNodes
<1>8. \A N \in SUBSET (D \ {n}) : Tokens(u, N) = Tokens(t, N)
  <2>1. ASSUME NEW N \in SUBSET (D \ {n})
        PROVE  Tokens(u, N) = Tokens(t, N)
    <3>1. UNION {Edge(u, m) : m \in N} = UNION {Edge(t, m) : m \in N}
        BY <1>4
    <3> QED
        BY <3>1 DEF Tokens
  <2> QED
      BY <2>1
<1>9. Tokens(t, FreeNodes(t)) = Tokens(t, FreeNodes(u)) + Tokens(t, {n})
    BY <1>5, <1>7, TokensAdd
<1>10. Tokens(t, FreeNodes(u)) \in Nat /\ Tokens(t, {n}) \in Nat
    BY <1>7, OwnedFacts
<1>11. Tokens(u, FreeNodes(u)) = Tokens(t, FreeNodes(u))
       /\ Tokens(u, LockedNodes(u)) = Tokens(t, LockedNodes(u))
    BY <1>7, <1>8
<1> QED
    BY <1>1, <1>2, <1>3, <1>6, <1>9, <1>10, <1>11 DEF u

-----------------------------------------------------------------------------
(* Locks, page by page.                                                    *)

LEMMA BelowNodes ==
    ASSUME NEW t, TreeOK(t), NEW R, NEW at, \A r \in R : at[r] \in DOMAIN t \cup {Root}
    PROVE  /\ \A p : p \notin Cached(t) => \A r \in R : p \notin Up(at[r])
           /\ \A p, m : IsOwner(DOMAIN t, p, m) => \A r \in R : p \in Up(at[r]) <=> m \in Up(at[r])
<1>0. DOMAIN t \in SUBSET Page
    BY DEF TreeOK
<1>1. ASSUME NEW p, p \notin Cached(t), NEW r \in R
      PROVE  p \notin Up(at[r])
    BY <1>1 DEF Up, Cached
<1>2. ASSUME NEW p, NEW m, IsOwner(DOMAIN t, p, m), NEW r \in R
      PROVE  p \in Up(at[r]) <=> m \in Up(at[r])
  <2>1. CASE at[r] = Root
      BY <2>1 DEF Up
  <2>2. CASE at[r] # Root
    <3>1. at[r] \in DOMAIN t /\ Up(at[r]) = Upto[at[r]]
        BY <2>2 DEF Up
    <3> QED
        BY <1>0, <1>2, <3>1, OwnerBelow
  <2> QED
      BY <2>1, <2>2
<1> QED
    BY <1>1, <1>2

LEMMA AboveOwner ==
    ASSUME NEW t, TreeOK(t), NEW R, NEW at, \A r \in R : at[r] \in DOMAIN t \cup {Root}
    PROVE  /\ \A p : p \notin Cached(t) => Above(R, at, p) = 0
           /\ \A p, m : IsOwner(DOMAIN t, p, m) => Above(R, at, p) = Above(R, at, m)
<1>1. ASSUME NEW p, p \notin Cached(t)
      PROVE  Above(R, at, p) = 0
  <2>1. {r \in R : p \in Up(at[r])} = {}
      BY <1>1, BelowNodes
  <2> QED
      BY <2>1, FS_EmptySet DEF Above
<1>2. ASSUME NEW p, NEW m, IsOwner(DOMAIN t, p, m)
      PROVE  Above(R, at, p) = Above(R, at, m)
  <2>1. {r \in R : p \in Up(at[r])} = {r \in R : m \in Up(at[r])}
      BY <1>2, BelowNodes
  <2> QED
      BY <2>1 DEF Above
<1> QED
    BY <1>1, <1>2

\* Locking a node locks every page above it once.
LEMMA LockedPages ==
    ASSUME NEW t, TreeOK(t), NEW R, IsFiniteSet(R), NEW at,
           \A r \in R : at[r] \in DOMAIN t \cup {Root}, NEW p
    PROVE  EdgeLock(LockedBy(t, R, at), p) = EdgeLock(t, p) + Above(R, at, p)
<1> DEFINE u == LockedBy(t, R, at)
<1>1. /\ TreeOK(u) /\ DOMAIN u = DOMAIN t /\ Cached(u) = Cached(t)
      /\ \A n \in DOMAIN t : u[n] = t[n] + Above(R, at, n)
    BY LockedFacts
<1> HIDE DEF u
<1>2. CASE p \notin Cached(t)
  <2>1. EdgeLock(u, p) = 0 /\ EdgeLock(t, p) = 0 /\ Above(R, at, p) = 0
      BY <1>1, <1>2, NoLockOutside, AboveOwner
  <2> QED
      BY <2>1 DEF u
<1>3. CASE p \in Cached(t)
  <2>1. PICK m : IsOwner(DOMAIN t, p, m)
      BY <1>3, CachedIsPages, OwnerExists DEF TreeOK
  <2>2. EdgeLock(t, p) = t[m] /\ m \in DOMAIN t
      BY <2>1, LockOfOwner DEF IsOwner
  <2>3. EdgeLock(u, p) = u[m]
      BY <1>1, <2>1, LockOfOwner
  <2>4. Above(R, at, p) = Above(R, at, m)
      BY <2>1, AboveOwner
  <2> QED
      BY <1>1, <2>2, <2>3, <2>4 DEF u
<1> QED
    BY <1>2, <1>3

\* Unlocking gives each of them back, if it was taken.
LEMMA UnlockedPages ==
    ASSUME NEW t, TreeOK(t), NEW R, IsFiniteSet(R), NEW at,
           \A r \in R : at[r] \in DOMAIN t \cup {Root},
           \A n \in DOMAIN t : Above(R, at, n) <= EdgeLock(t, n)
    PROVE  LET u == UnlockedBy(t, R, at)
           IN  /\ TreeOK(u) /\ DOMAIN u = DOMAIN t /\ Cached(u) = Cached(t)
               /\ \A p : EdgeLock(u, p) = EdgeLock(t, p) - Above(R, at, p)
<1> DEFINE u == UnlockedBy(t, R, at)
<1>0. \A n \in DOMAIN t : Above(R, at, n) <= t[n]
    BY LockOfNode
<1>1. /\ TreeOK(u) /\ DOMAIN u = DOMAIN t /\ Cached(u) = Cached(t)
      /\ \A n \in DOMAIN t : u[n] = t[n] - Above(R, at, n)
    BY <1>0, UnlockedFacts
<1> HIDE DEF u
<1>2. ASSUME NEW p, p \notin Cached(t)
      PROVE  EdgeLock(u, p) = EdgeLock(t, p) - Above(R, at, p)
  <2>1. EdgeLock(u, p) = 0 /\ EdgeLock(t, p) = 0 /\ Above(R, at, p) = 0
      BY <1>1, <1>2, NoLockOutside, AboveOwner
  <2> QED
      BY <2>1
<1>3. ASSUME NEW p, p \in Cached(t)
      PROVE  EdgeLock(u, p) = EdgeLock(t, p) - Above(R, at, p)
  <2>1. PICK m : IsOwner(DOMAIN t, p, m)
      BY <1>3, CachedIsPages, OwnerExists DEF TreeOK
  <2>2. EdgeLock(t, p) = t[m] /\ m \in DOMAIN t
      BY <2>1, LockOfOwner DEF IsOwner
  <2>3. EdgeLock(u, p) = u[m]
      BY <1>1, <2>1, LockOfOwner
  <2>4. Above(R, at, p) = Above(R, at, m)
      BY <2>1, AboveOwner
  <2> QED
      BY <1>1, <2>2, <2>3, <2>4
<1> QED
    BY <1>1, <1>2, <1>3 DEF u

-----------------------------------------------------------------------------
(* Keys.                                                                   *)

LEMMA DivBounds ==
    ASSUME NEW x \in Nat, NEW n \in Nat \ {0}
    PROVE  /\ x \div n \in Nat
           /\ n * (x \div n) <= x /\ x < n * (x \div n) + n
OBVIOUS

LEMMA DivExact ==
    ASSUME NEW k \in Nat, NEW n \in Nat \ {0}
    PROVE  (n * k) \div n = k
<1> DEFINE q == (n * k) \div n
<1>1. n * k \in Nat
    OBVIOUS
<1>2. q \in Nat /\ n * q <= n * k /\ n * k < n * q + n
    BY <1>1, DivBounds
<1> HIDE DEF q
<1>3. q <= k
  <2> SUFFICES ASSUME q >= k + 1 PROVE FALSE
      BY <1>2
  <2>1. n * (q - (k + 1)) >= 0
      BY <1>2
  <2>2. n * (q - (k + 1)) = n * q - (n * k + n)
      BY <1>2
  <2>3. n * q \in Nat
      BY <1>2
  <2> QED
      BY <1>1, <1>2, <2>1, <2>2, <2>3
<1>4. k <= q
  <2> SUFFICES ASSUME k >= q + 1 PROVE FALSE
      BY <1>2
  <2>1. n * (k - (q + 1)) >= 0
      BY <1>2
  <2>2. n * (k - (q + 1)) = n * k - (n * q + n)
      BY <1>2
  <2>3. n * q \in Nat
      BY <1>2
  <2> QED
      BY <1>1, <1>2, <2>1, <2>2, <2>3
<1> QED
    BY <1>2, <1>3, <1>4 DEF q

\* The first pages of a text are the prefix that ends with the last of them.
LEMMA TextFacts ==
    ASSUME NEW u \in Setups, NEW r \in Req, NEW k \in DOMAIN u.text[r]
    PROVE  /\ u.text[r][k] \in Page /\ k \in Nat /\ k >= 1
           /\ Cardinality(Upto[u.text[r][k]]) = k
           /\ \A p \in Upto[u.text[r][k]] :
                 \E j \in DOMAIN u.text[r] : p = u.text[r][j] /\ j <= k
<1> DEFINE s == u.text[r]
           U == Upto[s[k]]
           f == [j \in 1..k |-> s[j]]
<1>1. /\ s \in Seq(Page)
      /\ \A i, j \in DOMAIN s : s[i] \in Upto[s[j]] <=> i <= j
      /\ U \subseteq Range(s)
    BY SetupAssumption
<1> HIDE DEF s
<1>2. /\ Len(s) \in Nat /\ DOMAIN s = 1..Len(s) /\ k \in 1..Len(s)
      /\ \A j \in 1..Len(s) : s[j] \in Page
    BY <1>1 DEF s
<1>3. \A p \in U : \E j \in DOMAIN s : p = s[j] /\ j <= k
    BY <1>1, <1>2 DEF Range
<1>4. \A j \in 1..k : j \in DOMAIN s /\ s[j] \in U
    BY <1>1, <1>2
<1>5. \A i, j \in 1..k : s[i] = s[j] => i = j
  <2> SUFFICES ASSUME NEW i \in 1..k, NEW j \in 1..k, s[i] = s[j]
               PROVE  i = j
      OBVIOUS
  <2>1. i \in DOMAIN s /\ j \in DOMAIN s
      BY <1>4
  <2>2. s[i] \in Upto[s[i]] /\ s[j] \in Upto[s[j]]
      BY <1>2, <2>1, PageOrder
  <2>3. i <= j /\ j <= i
      BY <1>1, <2>1, <2>2
  <2> QED
      BY <2>3
<1> HIDE DEF U
<1>6. f \in Bijection(1..k, U)
  <2>1. f \in [1..k -> U]
      BY <1>4
  <2>2. \A p \in U : \E j \in 1..k : f[j] = p
      BY <1>2, <1>3
  <2>3. \A i, j \in 1..k : f[i] = f[j] => i = j
      BY <1>5
  <2> HIDE DEF f
  <2>4. f \in Injection(1..k, U)
      BY <2>1, <2>3 DEF Injection, IsInjective
  <2>5. f \in Surjection(1..k, U)
      BY <2>1, <2>2 DEF Surjection
  <2> QED
      BY <2>4, <2>5 DEF Bijection
<1>7. IsFiniteSet(1..k) /\ Cardinality(1..k) = k
    BY <1>2, FS_Interval
<1>8. Cardinality(U) = k
  <2>1. Cardinality(U) = Cardinality(1..k)
      BY <1>6, <1>7, FS_Bijection DEF ExistsBijection
  <2> QED
      BY <1>7, <2>1
<1> QED
    BY <1>2, <1>3, <1>8 DEF s, U

\* What a request may have computed has a key.
LEMMA KeyFacts ==
    ASSUME setup \in Setups, NEW r \in Req, NEW x \in Nat, x < Input(r) + Output(r)
    PROVE  /\ Key(r, x) \in Page \cup {Root}
           /\ Cardinality(Up(Key(r, x))) = x \div Block
<1> DEFINE s == setup.text[r]
           k == x \div Block
<1>0. Input(r) \in Nat /\ Output(r) \in Nat
    BY SetupAssumption DEF Input, Output
<1>1. s \in Seq(Page) /\ Len(s) * Block + Block > Input(r) + Output(r) - 1
    BY SetupAssumption DEF Input, Output
<1>2. k \in Nat /\ Block * k <= x /\ Block \in Nat \ {0}
    BY DivBounds, BlockAssumption
<1>3. Key(r, x) = IF k = 0 THEN Root ELSE s[k]
    BY DEF Key
<1> HIDE DEF k, s
<1>4. k <= Len(s)
  <2> DEFINE l == Len(s)
  <2>1. l \in Nat
      BY <1>1
  <2>2. l * Block + Block > x
      BY <1>0, <1>1, <2>1, <1>2
  <2> HIDE DEF l
  <2> SUFFICES ASSUME k >= l + 1 PROVE FALSE
      BY <1>2, <2>1 DEF l
  <2>3. Block * (k - (l + 1)) >= 0
      BY <1>2, <2>1
  <2>4. Block * (k - (l + 1)) = Block * k - (l * Block + Block)
      BY <1>2, <2>1
  <2>5. Block * k \in Nat /\ l * Block \in Nat
      BY <1>2, <2>1
  <2> QED
      BY <1>2, <2>2, <2>3, <2>4, <2>5
<1>5. CASE k = 0
  <2>1. Key(r, x) = Root /\ Up(Root) = {}
      BY <1>3, <1>5 DEF Up
  <2> QED
      BY <1>5, <2>1, FS_EmptySet DEF k
<1>6. CASE k # 0
  <2>1. k \in DOMAIN s /\ Key(r, x) = s[k]
      BY <1>1, <1>2, <1>3, <1>4, <1>6
  <2>2. s[k] \in Page /\ Cardinality(Upto[s[k]]) = k
      BY <2>1, TextFacts DEF s
  <2>3. Up(s[k]) = Upto[s[k]]
      BY <2>2, PageAssumption DEF Up
  <2> QED
      BY <2>1, <2>2, <2>3 DEF k
<1> QED
    BY <1>5, <1>6

\* Where a prompt leaves the tree is the key of what it finds there.
LEMMA HitFacts ==
    ASSUME setup \in Setups, TreeOK(tree), NEW r \in Req
    PROVE  LET found == Block * Cardinality(Up(HitNode(r)))
           IN  /\ HitNode(r) \in Cached(tree) \cup {Root}
               /\ found \in Nat /\ found <= Input(r)
               /\ HitNode(r) = Key(r, found)
<1> DEFINE s == setup.text[r]
           h == HitNode(r)
           k == Input(r) \div Block
           c == Cardinality(Up(h))
<1>0. Input(r) \in Nat \ {0} /\ Output(r) \in Nat \ {0} /\ Block \in Nat \ {0} /\ Root \notin Page
    BY SetupAssumption, BlockAssumption, PageAssumption DEF Input, Output
<1>1. Key(r, Input(r)) \in Page \cup {Root} /\ Input(r) < Input(r) + Output(r)
    BY <1>0, KeyFacts
<1>2. h \in Cached(tree) \cup {Root} /\ Up(h) = Up(Key(r, Input(r))) \cap Cached(tree)
    BY <1>1, MatchFacts DEF HitNode
<1>3. k \in Nat /\ Block * k <= Input(r)
    BY <1>0, DivBounds
<1>4. Cached(tree) \in SUBSET Page
    BY CachedFinite
<1> HIDE DEF h
<1>5. c \in Nat /\ c <= k /\ h = IF c = 0 THEN Root ELSE s[c]
  <2>1. CASE h = Root
    <3>1. Up(h) = {}
        BY <2>1 DEF Up
    <3>2. c = 0
        BY <3>1, FS_EmptySet
    <3> QED
        BY <1>3, <2>1, <3>2
  <2>2. CASE h # Root
    <3>1. h \in Page /\ Up(h) = Upto[h] /\ h \in Up(h)
        BY <1>2, <1>4, <2>2, PageOrder DEF Up
    <3>2. h \in Up(Key(r, Input(r)))
        BY <1>2, <3>1
    <3>3. k # 0 /\ Key(r, Input(r)) = s[k]
        BY <3>2 DEF Key, Up
    <3>4. k \in DOMAIN s
      <4>1. s \in Seq(Page) /\ Len(s) * Block + Block > Input(r) + Output(r) - 1
          BY SetupAssumption DEF Input, Output
      <4> DEFINE l == Len(s)
      <4>2. l \in Nat /\ l * Block + Block > Block * k
          BY <1>0, <1>3, <4>1, SMTT(30)
      <4> HIDE DEF l, k
      <4>3. k <= l
        <5> SUFFICES ASSUME k >= l + 1 PROVE FALSE
            BY <1>3, <4>2
        <5>1. Block * (k - (l + 1)) >= 0
            BY <1>0, <1>3, <4>2
        <5>2. Block * (k - (l + 1)) = Block * k - (l * Block + Block)
            BY <1>0, <1>3, <4>2
        <5>3. Block * k \in Nat /\ l * Block \in Nat
            BY <1>0, <1>3, <4>2
        <5> QED
            BY <1>0, <4>2, <5>1, <5>2, <5>3
      <4> QED
          BY <1>3, <3>3, <4>1, <4>3 DEF l
    <3>5. s[k] \in Page /\ h \in Upto[s[k]]
      <4>1. s[k] \in Page
          BY <3>4, TextFacts
      <4> QED
          BY <1>0, <3>2, <3>3, <4>1 DEF Up
    <3>6. PICK j \in DOMAIN s : h = s[j] /\ j <= k
        BY <3>4, <3>5, TextFacts
    <3>7. Cardinality(Upto[s[j]]) = j /\ j \in Nat /\ j >= 1
        BY <3>6, TextFacts
    <3>8. c = j
        BY <3>1, <3>6, <3>7
    <3> QED
        BY <3>6, <3>7, <3>8
  <2> QED
      BY <2>1, <2>2
<1> HIDE DEF c, k, s
<1>6. Block * c \in Nat /\ Block * c <= Input(r)
  <2>1. Block * (k - c) >= 0
      BY <1>0, <1>3, <1>5
  <2>2. Block * (k - c) = Block * k - Block * c
      BY <1>0, <1>3, <1>5
  <2>3. Block * k \in Nat /\ Block * c \in Nat
      BY <1>0, <1>3, <1>5
  <2> QED
      BY <1>0, <1>3, <2>1, <2>2, <2>3
<1>7. (Block * c) \div Block = c
    BY <1>0, <1>5, DivExact
<1>8. h = Key(r, Block * c)
    BY <1>5, <1>7 DEF Key, s
<1> QED
    BY <1>2, <1>6, <1>8 DEF h, c

-----------------------------------------------------------------------------
(* The invariant.                                                          *)

\* The requests of a batch under way, its KV in use.
Working == Running \cup (IF phase \in {"evict", "close"} THEN Range(batch) ELSE {})

\* The requests that hold a page, and the locks of the page beyond theirs.
Holding(p) == {r \in Req : locked[r] /\ p \in Up(lastNode[r])}
Spare(p)   == EdgeLock(tree, p) - Cardinality(Holding(p))

Once(s) == \A i, j \in DOMAIN s : s[i] = s[j] => i = j

\* Batches under way: none is empty, and they share no request.
Members(f) == UNION {Range(f[i]) : i \in DOMAIN f}
Orderly(f) ==
  /\ \A i \in DOMAIN f : f[i] # <<>> /\ Once(f[i])
  /\ \A i, j \in DOMAIN f : i # j => Range(f[i]) \cap Range(f[j]) = {}

Typed ==
  /\ setup \in Setups
  /\ request \in SUBSET Req /\ done \in SUBSET Req /\ todo \in SUBSET Req
  /\ inflight \in Seq(Seq(Req)) /\ batch \in Seq(Req)
  /\ computed \in [Req -> Nat] /\ chunk \in [Req -> Nat] /\ generated \in [Req -> Nat]
  /\ locked \in [Req -> BOOLEAN]
  /\ lastNode \in [Req -> DOMAIN tree \cup {Root, None, Gone}]
  /\ phase \in {"run", "match", "evict", "close"}
  /\ phase = "match" => room \in Int
  /\ TreeOK(tree)

\* A request is in one place: the queue, one batch under way, the callback
\* at work on it, or among those that are done.
Places ==
  /\ Once(batch) /\ Orderly(inflight)
  /\ request \cap Running = {} /\ request \cap done = {} /\ Running \cap done = {}
  /\ phase = "run" => batch = <<>>
  /\ phase = "match" => todo \subseteq request /\ todo \cap Range(batch) = {}
  /\ phase \in {"match", "evict"} => Range(batch) \subseteq request
  /\ phase \in {"evict", "close"} => batch # <<>>
  /\ phase = "close" => Range(batch) \cap (request \cup Running \cup done) = {}

\* How far a request may be.
Progress ==
  \A r \in Req :
    /\ computed[r] <= Input(r) + generated[r]
    /\ generated[r] <= Output(r) /\ (generated[r] = Output(r) <=> r \in done)
    /\ IsPrefill(r) => chunk[r] <= Input(r) - computed[r]
    /\ IsPrefill(r) /\ r \in Running \cup Range(batch) => chunk[r] > 0
    /\ locked[r] /\ computed[r] = 0 => r \in Working

\* A holder's node is in the tree, and no page lacks the lock of a holder.
NoLockMissing ==
  /\ \A r \in Req : locked[r] => lastNode[r] \in DOMAIN tree \cup {Root}
  /\ \A p \in Page : Spare(p) >= 0

CountersExact == Books(tree, evictable, protected, npuUsed) /\ npuUsed <= setup.npu

PrefixInv == Typed /\ Places /\ Progress /\ NoLockMissing /\ CountersExact

LEMMA ReqFinite ==
    ASSUME NEW R \in SUBSET Req
    PROVE  IsFiniteSet(R) /\ Cardinality(R) \in Nat
<1>1. IsFiniteSet(Req)
    BY SizeAssumption, FS_Interval DEF Req
<1>2. IsFiniteSet(R)
    BY <1>1, FS_Subset
<1> QED
    BY <1>2, FS_CardinalityType

\* Sums of holders: those that join, and those that leave.
LEMMA CountJoin ==
    ASSUME NEW A \in SUBSET Req, NEW B \in SUBSET Req, A \cap B = {}
    PROVE  Cardinality(A \cup B) = Cardinality(A) + Cardinality(B)
<1>1. /\ IsFiniteSet(A) /\ IsFiniteSet(B)
      /\ Cardinality(A) \in Nat /\ Cardinality(B) \in Nat
    BY ReqFinite
<1>2. Cardinality(A \cup B) = Cardinality(A) + Cardinality(B) - Cardinality(A \cap B)
    BY <1>1, FS_Union
<1>3. Cardinality(A \cap B) = 0
    BY FS_EmptySet
<1>4. Cardinality(A \cup B) = Cardinality(A) + Cardinality(B) - 0
    BY <1>2, <1>3
<1> QED
    BY <1>1, <1>4

LEMMA CountLeave ==
    ASSUME NEW A \in SUBSET Req, NEW B \in SUBSET A
    PROVE  /\ Cardinality(A \ B) = Cardinality(A) - Cardinality(B)
           /\ Cardinality(B) <= Cardinality(A)
<1>1. /\ Cardinality(A) \in Nat /\ Cardinality(B) \in Nat /\ Cardinality(A \ B) \in Nat
    BY ReqFinite
<1>2. Cardinality((A \ B) \cup B) = Cardinality(A \ B) + Cardinality(B)
    BY CountJoin
<1>3. (A \ B) \cup B = A
    OBVIOUS
<1>4. Cardinality(A) = Cardinality(A \ B) + Cardinality(B)
    BY <1>2, <1>3
<1> QED
    BY <1>1, <1>4

LEMMA HoldingType == \A p : Holding(p) \in SUBSET Req /\ Cardinality(Holding(p)) \in Nat
BY ReqFinite DEF Holding

\* What a few requests hold is locked for them.
LEMMA HeldCovered ==
    ASSUME NoLockMissing, TreeOK(tree), NEW R \in SUBSET Req, \A r \in R : locked[r], NEW p \in Page
    PROVE  /\ Above(R, lastNode, p) <= Cardinality(Holding(p))
           /\ Above(R, lastNode, p) <= EdgeLock(tree, p)
<1> DEFINE B == {r \in R : p \in Up(lastNode[r])}
<1>1. B \in SUBSET Holding(p) /\ Holding(p) \in SUBSET Req
    BY DEF Holding
<1>2. Cardinality(B) <= Cardinality(Holding(p))
    BY <1>1, CountLeave
<1>3. Above(R, lastNode, p) = Cardinality(B) /\ B \in SUBSET Req
    BY DEF Above
<1>4. Cardinality(B) \in Nat /\ Cardinality(Holding(p)) \in Nat /\ EdgeLock(tree, p) \in Nat
    BY <1>3, ReqFinite, HoldingType, LockNat
<1>5. EdgeLock(tree, p) - Cardinality(Holding(p)) >= 0
    BY DEF NoLockMissing, Spare
<1> QED
    BY <1>2, <1>3, <1>4, <1>5

LEMMA AboveOne ==
    ASSUME NEW r, NEW at, NEW p
    PROVE  Above({r}, at, p) = IF p \in Up(at[r]) THEN 1 ELSE 0
<1>1. CASE p \in Up(at[r])
  <2>1. {q \in {r} : p \in Up(at[q])} = {r}
      BY <1>1
  <2> QED
      BY <1>1, <2>1, FS_Singleton DEF Above
<1>2. CASE p \notin Up(at[r])
  <2>1. {q \in {r} : p \in Up(at[q])} = {}
      BY <1>2
  <2> QED
      BY <1>2, <2>1, FS_EmptySet DEF Above
<1> QED
    BY <1>1, <1>2

LEMMA CountersType ==
    ASSUME TreeOK(tree), CountersExact
    PROVE  /\ evictable \in Nat /\ protected \in Nat /\ npuUsed \in Nat
           /\ npuUsed = evictable + protected
<1>1. FreeNodes(tree) \in SUBSET DOMAIN tree /\ LockedNodes(tree) \in SUBSET DOMAIN tree
    BY DEF FreeNodes, LockedNodes
<1>2. Tokens(tree, FreeNodes(tree)) \in Nat /\ Tokens(tree, LockedNodes(tree)) \in Nat
    BY <1>1, OwnedFacts
<1> QED
    BY <1>2 DEF CountersExact, Books

\* Growth and new locks, and what Relock makes of the counters.
LEMMA RelockBooks ==
    ASSUME TreeOK(tree), CountersExact, NEW t, TreeOK(t), NEW u, TreeOK(u), DOMAIN u = DOMAIN t,
           NEW grown \in Nat, Relock(t, u, grown),
           Tokens(t, FreeNodes(t)) = Tokens(tree, FreeNodes(tree)) + grown,
           Tokens(t, LockedNodes(t)) = Tokens(tree, LockedNodes(tree))
    PROVE  Books(tree', evictable', protected', npuUsed') /\ npuUsed' = npuUsed + grown
<1> DEFINE up == NewlyLocked(t, u)
           down == NewlyFree(t, u)
           F == Tokens(t, FreeNodes(t))
           L == Tokens(t, LockedNodes(t))
<1>1. /\ up \in Nat /\ down \in Nat /\ F \in Nat /\ L \in Nat
      /\ Tokens(u, FreeNodes(u)) = F - up + down
      /\ Tokens(u, LockedNodes(u)) = L + up - down
    BY LockBooks
<1>2. /\ tree' = u /\ evictable' = evictable + grown - up + down
      /\ protected' = protected + up - down /\ npuUsed' = npuUsed + grown
    BY DEF Relock
<1>3. evictable \in Nat /\ protected \in Nat /\ npuUsed \in Nat /\ npuUsed = evictable + protected
    BY CountersType
<1>4. F = evictable + grown /\ L = protected
    BY DEF CountersExact, Books
<1> HIDE DEF up, down, F, L
<1>5. /\ evictable' = Tokens(tree', FreeNodes(tree'))
      /\ protected' = Tokens(tree', LockedNodes(tree'))
      /\ npuUsed' = evictable' + protected'
  <2>1. evictable' = F - up + down /\ protected' = L + up - down
      BY <1>1, <1>2, <1>3, <1>4
  <2>2. npuUsed' = evictable' + protected'
      BY <1>1, <1>2, <1>3, <1>4
  <2> QED
      BY <1>1, <1>2, <2>1, <2>2
<1> QED
    BY <1>2, <1>5 DEF Books

-----------------------------------------------------------------------------
(* What each action does to the tree.                                      *)

LEMMA MatchTree ==
    ASSUME PrefixInv, NEW r \in Req, MatchNext(r)
    PROVE  /\ TreeOK(tree') /\ DOMAIN tree \subseteq DOMAIN tree' /\ Cached(tree') = Cached(tree)
           /\ \A p : EdgeLock(tree', p) = EdgeLock(tree, p)
           /\ Fresh(r) => HitNode(r) \in DOMAIN tree' \cup {Root}
           /\ CountersExact'
<1>0. TreeOK(tree) /\ setup \in Setups /\ CountersExact
    BY DEF PrefixInv, Typed
<1> DEFINE h == HitNode(r)
           u == WithNodes(tree, {h})
<1>1. /\ tree' = IF Fresh(r) THEN u ELSE tree
      /\ UNCHANGED <<setup, evictable, protected, npuUsed>>
    BY DEF MatchNext
<1>2. CASE ~Fresh(r)
    BY <1>0, <1>1, <1>2 DEF CountersExact, Books
<1>3. CASE Fresh(r)
  <2>1. {h} \in SUBSET (Cached(tree) \cup {Root}) /\ IsFiniteSet({h})
      BY <1>0, HitFacts, FS_Singleton
  <2>2. /\ TreeOK(u) /\ DOMAIN u = DOMAIN tree \cup ({h} \ {Root}) /\ Cached(u) = Cached(tree)
        /\ \A p : EdgeLock(u, p) = EdgeLock(tree, p)
      BY <1>0, <2>1, SplitFacts
  <2>3. /\ Tokens(u, FreeNodes(u)) = Tokens(tree, FreeNodes(tree))
        /\ Tokens(u, LockedNodes(u)) = Tokens(tree, LockedNodes(tree))
    <3> DEFINE grown == Block * Cardinality(Cached(u) \ Cached(tree))
    <3> HIDE DEF u
    <3>1. /\ Tokens(u, FreeNodes(u)) = Tokens(tree, FreeNodes(tree)) + grown
          /\ Tokens(u, LockedNodes(u)) = Tokens(tree, LockedNodes(tree))
        BY <1>0, <2>2, GrowthBooks
    <3>2. Cached(u) \ Cached(tree) = {}
        BY <2>2
    <3>3. grown = 0
        BY <3>2, FS_EmptySet, BlockAssumption
    <3>4. Tokens(tree, FreeNodes(tree)) \in Nat
      <4>1. FreeNodes(tree) \in SUBSET DOMAIN tree
          BY DEF FreeNodes
      <4> QED
          BY <1>0, <4>1, OwnedFacts
    <3> HIDE DEF grown
    <3> QED
        BY <3>1, <3>3, <3>4
  <2> HIDE DEF u, h
  <2>4. tree' = u
      BY <1>1, <1>3
  <2>5. CountersExact'
      BY <1>0, <1>1, <2>3, <2>4 DEF CountersExact, Books
  <2>6. HitNode(r) \in DOMAIN tree' \cup {Root}
      BY <2>2, <2>4 DEF h
  <2> QED
      BY <2>2, <2>4, <2>5, <2>6
<1> QED
    BY <1>2, <1>3

\* Deleting an unlocked leaf takes no lock away.
LEMMA EvictedLocks ==
    ASSUME NEW t, TreeOK(t), NEW n \in FreeLeaves(t), NEW p
    PROVE  EdgeLock(Without(t, n), p) = EdgeLock(t, p)
<1> DEFINE u == Without(t, n)
           D == DOMAIN t
<1>1. /\ TreeOK(u) /\ DOMAIN u = D \ {n}
      /\ \A m \in DOMAIN u : u[m] = t[m] /\ n \notin Upto[m]
    BY EvictedFacts
<1>2. t[n] = 0 /\ n \in D /\ D \in SUBSET Page /\ Closed(D)
    BY DEF FreeLeaves, TreeOK
<1> HIDE DEF u
<1>3. CASE p \notin Cached(t)
  <2>1. p \notin Cached(u)
      BY <1>1, <1>3 DEF Cached
  <2> QED
      BY <1>3, <2>1, NoLockOutside DEF u
<1>4. CASE p \in Cached(t)
  <2>1. PICK m : IsOwner(D, p, m)
      BY <1>2, <1>4, CachedIsPages, OwnerExists
  <2>2. EdgeLock(t, p) = t[m] /\ m \in D
      BY <2>1, LockOfOwner DEF IsOwner
  <2>3. CASE m = n
    <3>1. \A k \in DOMAIN u : p \notin Upto[k]
        BY <1>1, <2>1, <2>3 DEF IsOwner
    <3>2. p \notin Cached(u)
        BY <3>1 DEF Cached
    <3> QED
        BY <1>2, <2>2, <2>3, <3>2, NoLockOutside DEF u
  <2>4. CASE m # n
    <3>1. IsOwner(DOMAIN u, p, m)
        BY <1>1, <2>1, <2>4 DEF IsOwner
    <3>2. EdgeLock(u, p) = u[m]
        BY <1>1, <3>1, LockOfOwner
    <3> QED
        BY <1>1, <2>2, <2>4, <3>2 DEF u
  <2> QED
      BY <2>3, <2>4
<1> QED
    BY <1>3, <1>4

LEMMA EvictTree ==
    ASSUME PrefixInv, NEW n, EvictLeaf(n)
    PROVE  /\ TreeOK(tree') /\ DOMAIN tree' = DOMAIN tree \ {n} /\ n \in DOMAIN tree
           /\ EdgeLock(tree, n) = 0
           /\ \A p : EdgeLock(tree', p) = EdgeLock(tree, p)
           /\ CountersExact'
<1>0. TreeOK(tree) /\ setup \in Setups /\ CountersExact /\ n \in FreeLeaves(tree)
    BY DEF PrefixInv, Typed, EvictLeaf
<1> DEFINE size == Tokens(tree, {n})
<1>1. /\ tree' = Without(tree, n)
      /\ evictable' = evictable - size /\ npuUsed' = npuUsed - size
      /\ UNCHANGED <<setup, protected>>
    BY DEF EvictLeaf
<1>2. /\ TreeOK(tree') /\ DOMAIN tree' = DOMAIN tree \ {n}
      /\ size \in Nat
      /\ Tokens(tree', FreeNodes(tree')) = Tokens(tree, FreeNodes(tree)) - size
      /\ Tokens(tree', LockedNodes(tree')) = Tokens(tree, LockedNodes(tree))
  <2> DEFINE u == Without(tree, n)
  <2>1. /\ TreeOK(u) /\ DOMAIN u = DOMAIN tree \ {n}
        /\ size \in Nat
        /\ Tokens(u, FreeNodes(u)) = Tokens(tree, FreeNodes(tree)) - size
        /\ Tokens(u, LockedNodes(u)) = Tokens(tree, LockedNodes(tree))
      BY <1>0, EvictedFacts
  <2> QED
      BY <1>1, <2>1
<1>3. \A p : EdgeLock(tree', p) = EdgeLock(tree, p)
    BY <1>0, <1>1, EvictedLocks
<1>4. EdgeLock(tree, n) = 0 /\ n \in DOMAIN tree
    BY <1>0, LockOfNode DEF FreeLeaves
<1>5. evictable \in Nat /\ protected \in Nat /\ npuUsed \in Nat /\ npuUsed = evictable + protected
    BY <1>0, CountersType
<1> HIDE DEF size
<1>6. CountersExact'
  <2>1. Books(tree', evictable', protected', npuUsed')
      BY <1>0, <1>1, <1>2, <1>5 DEF CountersExact, Books
  <2>2. npuUsed' <= setup'.npu
    <3>1. setup.npu \in Nat /\ npuUsed <= setup.npu
        BY <1>0, SetupAssumption DEF CountersExact
    <3> QED
        BY <1>1, <1>2, <1>5, <3>1
  <2> QED
      BY <2>1, <2>2 DEF CountersExact
<1> QED
    BY <1>2, <1>3, <1>4, <1>6

\* The prefills that Keep leaves out when the first `fit` of the batch fit.
LeftOut(fit) ==
    {r \in Range(batch) \ {batch[j] : j \in 1..fit} : IsPrefill(r) /\ (locked[r] \/ r \in Joining)}
Pinned == LockedBy(tree, Joining, lastNode)

KeepsFirst(fit) ==
    /\ Relock(tree, UnlockedBy(Pinned, LeftOut(fit), lastNode), 0)
    /\ lastNode' = [r \in Req |-> IF r \in LeftOut(fit) THEN None ELSE lastNode[r]]
    /\ locked' = [r \in Req |-> (locked[r] \/ r \in Joining) /\ r \notin LeftOut(fit)]
    /\ batch' = SubSeq(batch, 1, fit)
    /\ phase' = IF fit = 0 THEN "run" ELSE "evict"

LEMMA KeepCases ==
    ASSUME Keep
    PROVE  /\ \E fit \in 0..Len(batch) : KeepsFirst(fit)
           /\ Gone \notin {lastNode[r] : r \in Joining}
           /\ phase = "match" /\ todo' = {}
           /\ UNCHANGED <<setup, request, inflight, done, computed, chunk, generated>>
BY DEF Keep, KeepsFirst, LeftOut, Pinned, Matched

LEMMA JoiningFacts ==
    ASSUME PrefixInv, Gone \notin {lastNode[r] : r \in Joining}, NEW fit
    PROVE  /\ Joining \in SUBSET Req /\ LeftOut(fit) \in SUBSET Req
           /\ \A r \in Joining : ~locked[r] /\ lastNode[r] \in DOMAIN tree \cup {Root}
           /\ \A r \in LeftOut(fit) : /\ locked[r] \/ r \in Joining
                                      /\ lastNode[r] \in DOMAIN tree \cup {Root}
<1>1. Range(batch) \in SUBSET Req
    BY DEF PrefixInv, Typed, Range
<1>2. Joining \in SUBSET Req /\ LeftOut(fit) \in SUBSET Req
    BY <1>1 DEF Joining, LeftOut
<1>3. \A r \in Joining : lastNode[r] # None /\ lastNode[r] # Gone /\ ~locked[r]
    BY DEF Joining
<1>4. \A r \in Req : lastNode[r] \in DOMAIN tree \cup {Root, None, Gone}
    BY DEF PrefixInv, Typed
<1>5. \A r \in Joining : lastNode[r] \in DOMAIN tree \cup {Root}
    BY <1>2, <1>3, <1>4
<1>6. \A r \in LeftOut(fit) : locked[r] \/ r \in Joining
    BY DEF LeftOut
<1>7. \A r \in Req : locked[r] => lastNode[r] \in DOMAIN tree \cup {Root}
    BY DEF PrefixInv, NoLockMissing
<1> QED
    BY <1>2, <1>3, <1>5, <1>6, <1>7

LEMMA KeepTree ==
    ASSUME PrefixInv, UNCHANGED setup, Gone \notin {lastNode[r] : r \in Joining}, NEW fit, KeepsFirst(fit)
    PROVE  /\ TreeOK(tree') /\ DOMAIN tree' = DOMAIN tree /\ Cached(tree') = Cached(tree)
           /\ \A p : EdgeLock(tree', p)
                       = EdgeLock(tree, p) + Above(Joining, lastNode, p)
                           - Above(LeftOut(fit), lastNode, p)
           /\ CountersExact'
<1> DEFINE J == Joining
           O == LeftOut(fit)
           u == UnlockedBy(Pinned, O, lastNode)
<1>0. TreeOK(tree) /\ setup \in Setups /\ CountersExact /\ NoLockMissing
    BY DEF PrefixInv, Typed
<1>1. /\ J \in SUBSET Req /\ O \in SUBSET Req
      /\ \A r \in J : ~locked[r] /\ lastNode[r] \in DOMAIN tree \cup {Root}
      /\ \A r \in O : /\ locked[r] \/ r \in J
                      /\ lastNode[r] \in DOMAIN tree \cup {Root}
    BY JoiningFacts
<1>2. IsFiniteSet(J) /\ IsFiniteSet(O)
    BY <1>1, ReqFinite
<1> HIDE DEF J, O
<1>3. /\ TreeOK(Pinned) /\ DOMAIN Pinned = DOMAIN tree /\ Cached(Pinned) = Cached(tree)
      /\ \A p : EdgeLock(Pinned, p) = EdgeLock(tree, p) + Above(J, lastNode, p)
  <2>1. Pinned = LockedBy(tree, J, lastNode)
      BY DEF Pinned, J
  <2>2. \A p : EdgeLock(LockedBy(tree, J, lastNode), p) = EdgeLock(tree, p) + Above(J, lastNode, p)
      BY <1>0, <1>1, <1>2, LockedPages
  <2>3. LET w == LockedBy(tree, J, lastNode)
        IN  TreeOK(w) /\ DOMAIN w = DOMAIN tree /\ Cached(w) = Cached(tree)
      BY <1>0, <1>2, LockedFacts
  <2> QED
      BY <2>1, <2>2, <2>3
<1>4. \A n \in DOMAIN Pinned : Above(O, lastNode, n) <= EdgeLock(Pinned, n)
  <2>1. ASSUME NEW n \in DOMAIN tree
        PROVE  Above(O, lastNode, n) <= EdgeLock(tree, n) + Above(J, lastNode, n)
    <3> DEFINE A == {r \in O : locked[r]}
               a == {r \in A : n \in Up(lastNode[r])}
               j == {r \in J : n \in Up(lastNode[r])}
               o == {r \in O : n \in Up(lastNode[r])}
    <3>1. n \in Page
        BY <1>0 DEF TreeOK
    <3>2. A \in SUBSET Req
        BY <1>1
    <3>3. Above(A, lastNode, n) <= EdgeLock(tree, n)
        BY <1>0, <3>1, <3>2, HeldCovered
    <3>4. /\ a \in SUBSET Req /\ j \in SUBSET Req /\ a \cap j = {} /\ o \in SUBSET (a \cup j)
          /\ a \cup j \in SUBSET Req /\ o \in SUBSET Req
        BY <1>1
    <3>5. /\ Above(A, lastNode, n) = Cardinality(a) /\ Above(J, lastNode, n) = Cardinality(j)
          /\ Above(O, lastNode, n) = Cardinality(o)
        BY DEF Above
    <3> HIDE DEF a, j, o, A
    <3>6. Cardinality(a \cup j) = Cardinality(a) + Cardinality(j)
        BY <3>4, CountJoin
    <3>7. Cardinality(o) <= Cardinality(a \cup j)
        BY <3>4, CountLeave
    <3>8. /\ Cardinality(o) \in Nat /\ Cardinality(a) \in Nat /\ Cardinality(j) \in Nat
          /\ EdgeLock(tree, n) \in Nat
        BY <1>0, <3>4, ReqFinite, LockNat
    <3> QED
        BY <3>3, <3>5, <3>6, <3>7, <3>8
  <2> QED
      BY <1>3, <2>1
<1>5. \A r \in O : lastNode[r] \in DOMAIN Pinned \cup {Root}
    BY <1>1, <1>3
<1>6. /\ TreeOK(u) /\ DOMAIN u = DOMAIN Pinned /\ Cached(u) = Cached(Pinned)
      /\ \A p : EdgeLock(u, p) = EdgeLock(Pinned, p) - Above(O, lastNode, p)
    BY <1>2, <1>3, <1>4, <1>5, UnlockedPages
<1>7. Relock(tree, u, 0) /\ tree' = u
    BY DEF KeepsFirst, Relock, O
<1> HIDE DEF u
<1>8. Books(tree', evictable', protected', npuUsed') /\ npuUsed' = npuUsed
  <2>1. DOMAIN u = DOMAIN tree
      BY <1>3, <1>6
  <2>2. /\ Tokens(tree, FreeNodes(tree)) = Tokens(tree, FreeNodes(tree)) + 0
        /\ npuUsed + 0 = npuUsed
    <3>1. FreeNodes(tree) \in SUBSET DOMAIN tree
        BY DEF FreeNodes
    <3> QED
        BY <1>0, <3>1, OwnedFacts, CountersType
  <2>3. Books(tree', evictable', protected', npuUsed') /\ npuUsed' = npuUsed + 0
      BY <1>0, <1>6, <1>7, <2>1, <2>2, RelockBooks
  <2> QED
      BY <2>2, <2>3
<1>9. CountersExact'
    BY <1>0, <1>8 DEF CountersExact
<1>10. ASSUME NEW p
       PROVE  EdgeLock(tree', p)
                = EdgeLock(tree, p) + Above(J, lastNode, p) - Above(O, lastNode, p)
  <2>1. EdgeLock(u, p) = EdgeLock(Pinned, p) - Above(O, lastNode, p)
      BY <1>6
  <2>2. EdgeLock(Pinned, p) = EdgeLock(tree, p) + Above(J, lastNode, p)
      BY <1>3
  <2>3. EdgeLock(tree', p) = EdgeLock(u, p)
      BY <1>7
  <2>4. EdgeLock(tree', p) = EdgeLock(Pinned, p) - Above(O, lastNode, p)
      BY <2>1, <2>3
  <2>5. /\ EdgeLock(tree, p) \in Nat /\ Above(J, lastNode, p) \in Nat
        /\ Above(O, lastNode, p) \in Nat
      BY <1>0, <1>2, LockNat, AboveNat
  <2> QED
      BY <2>2, <2>4, <2>5
<1> QED
    BY <1>3, <1>6, <1>7, <1>9, <1>10 DEF J, O

\* Where a marked decode is reloaded, and where the others stay.
Reload == [r \in Req |-> IF r \in Reloaded THEN HitNode(r) ELSE lastNode[r]]

LEMMA DispatchTree ==
    ASSUME PrefixInv, Dispatch
    PROVE  /\ Reloaded \in SUBSET Req /\ lastNode' = Reload
           /\ TreeOK(tree') /\ DOMAIN tree \subseteq DOMAIN tree' /\ Cached(tree') = Cached(tree)
           /\ \A r \in Reloaded : Reload[r] \in DOMAIN tree' \cup {Root}
           /\ \A p : EdgeLock(tree', p) = EdgeLock(tree, p) + Above(Reloaded, Reload, p)
           /\ CountersExact'
<1> DEFINE hits == {HitNode(r) : r \in Reloaded}
           t == WithNodes(tree, hits)
           u == LockedBy(t, Reloaded, Reload)
<1>0. TreeOK(tree) /\ setup \in Setups /\ CountersExact
    BY DEF PrefixInv, Typed
<1>1. Relock(t, u, 0) /\ lastNode' = Reload /\ UNCHANGED setup
    BY DEF Dispatch, Reload
<1>2. Reloaded \in SUBSET Req /\ IsFiniteSet(Reloaded)
  <2>1. Range(batch) \in SUBSET Req
      BY DEF PrefixInv, Typed, Range
  <2>2. Reloaded \in SUBSET Req
      BY <2>1 DEF Reloaded
  <2> QED
      BY <2>2, ReqFinite
<1>3. hits \in SUBSET (Cached(tree) \cup {Root}) /\ IsFiniteSet(hits)
  <2>1. \A r \in Reloaded : HitNode(r) \in Cached(tree) \cup {Root}
      BY <1>0, <1>2, HitFacts
  <2> DEFINE f == [r \in Reloaded |-> HitNode(r)]
  <2>2. f \in Surjection(Reloaded, hits)
      BY DEF Surjection
  <2>3. IsFiniteSet(hits)
      BY <1>2, <2>2, FS_Surjection
  <2> QED
      BY <2>1, <2>3
<1>4. /\ TreeOK(t) /\ DOMAIN t = DOMAIN tree \cup (hits \ {Root}) /\ Cached(t) = Cached(tree)
      /\ \A p : EdgeLock(t, p) = EdgeLock(tree, p)
    BY <1>0, <1>3, SplitFacts
<1>5. \A r \in Reloaded : Reload[r] \in DOMAIN t \cup {Root}
  <2>1. ASSUME NEW r \in Reloaded
        PROVE  Reload[r] \in DOMAIN t \cup {Root}
    <3>1. Reload[r] = HitNode(r) /\ HitNode(r) \in hits
        BY <1>2 DEF Reload
    <3> QED
        BY <1>4, <3>1
  <2> QED
      BY <2>1
<1> HIDE DEF hits, t
<1>6. /\ TreeOK(u) /\ DOMAIN u = DOMAIN t /\ Cached(u) = Cached(t)
    BY <1>2, <1>4, LockedFacts
<1>7. \A p : EdgeLock(u, p) = EdgeLock(t, p) + Above(Reloaded, Reload, p)
    BY <1>2, <1>4, <1>5, LockedPages
<1>8. tree' = u
    BY <1>1 DEF Relock
<1> HIDE DEF u
<1>9. /\ Tokens(t, FreeNodes(t)) = Tokens(tree, FreeNodes(tree)) + 0
      /\ Tokens(t, LockedNodes(t)) = Tokens(tree, LockedNodes(tree))
  <2> DEFINE grown == Block * Cardinality(Cached(t) \ Cached(tree))
  <2>1. /\ Tokens(t, FreeNodes(t)) = Tokens(tree, FreeNodes(tree)) + grown
        /\ Tokens(t, LockedNodes(t)) = Tokens(tree, LockedNodes(tree))
      BY <1>0, <1>4, GrowthBooks
  <2>2. Cached(t) \ Cached(tree) = {}
      BY <1>4
  <2>3. grown = 0
      BY <2>2, FS_EmptySet, BlockAssumption
  <2> HIDE DEF grown
  <2> QED
      BY <2>1, <2>3
<1>10. Books(tree', evictable', protected', npuUsed') /\ npuUsed' = npuUsed + 0
    BY <1>0, <1>1, <1>4, <1>6, <1>9, RelockBooks
<1>11. CountersExact'
    BY <1>0, <1>1, <1>10, CountersType DEF CountersExact
<1> QED
    BY <1>1, <1>2, <1>4, <1>5, <1>6, <1>7, <1>8, <1>11

\* How far the step that ends takes a request.
LEMMA AfterFacts ==
    ASSUME PrefixInv, NEW r \in Req, r \notin done
    PROVE  /\ After(r) \in Nat /\ Input(r) \in Nat \ {0} /\ Output(r) \in Nat \ {0}
           /\ After(r) <= Input(r) + generated[r] + (IF Emits(r) THEN 1 ELSE 0)
           /\ IsPrefill(r) => After(r) <= Input(r)
           /\ generated[r] + 1 <= Output(r)
           /\ Finishes(r) <=> Emits(r) /\ generated[r] + 1 = Output(r)
           /\ r \in Range(batch) => After(r) > 0
           /\ ~Finishes(r) => After(r) < Input(r) + Output(r)
<1>1. Input(r) \in Nat \ {0} /\ Output(r) \in Nat \ {0}
    BY SetupAssumption DEF PrefixInv, Typed, Input, Output
<1>2. computed[r] \in Nat /\ chunk[r] \in Nat /\ generated[r] \in Nat
    BY DEF PrefixInv, Typed
<1>3. /\ computed[r] <= Input(r) + generated[r]
      /\ generated[r] <= Output(r) /\ generated[r] # Output(r)
      /\ IsPrefill(r) => chunk[r] <= Input(r) - computed[r]
      /\ IsPrefill(r) /\ r \in Range(batch) => chunk[r] > 0
    BY DEF PrefixInv, Progress
<1>4. After(r) = computed[r] + (IF IsPrefill(r) THEN chunk[r] ELSE 1)
    BY DEF After
<1>5. /\ IsPrefill(r) <=> computed[r] < Input(r)
      /\ Emits(r) <=> After(r) >= Input(r)
      /\ Finishes(r) <=> Emits(r) /\ generated[r] + 1 >= Output(r)
    BY DEF IsPrefill, Emits, Finishes
<1>6. CASE IsPrefill(r)
  <2>1. After(r) = computed[r] + chunk[r]
      BY <1>4, <1>6
  <2> QED
      BY <1>1, <1>2, <1>3, <1>5, <1>6, <2>1
<1>7. CASE ~IsPrefill(r)
  <2>1. After(r) = computed[r] + 1
      BY <1>4, <1>7
  <2> QED
      BY <1>1, <1>2, <1>3, <1>5, <1>7, <2>1
<1> QED
    BY <1>6, <1>7

\* The tree when the KV of a step has been stored.
LEMMA GrownFacts ==
    ASSUME PrefixInv, NEW r \in Req, r \notin done
    PROVE  /\ TreeOK(Grown(r)) /\ DOMAIN tree \subseteq DOMAIN Grown(r)
           /\ Cached(tree) \subseteq Cached(Grown(r))
           /\ Result(r) \in DOMAIN Grown(r) \cup {Root}
           /\ \A p : EdgeLock(Grown(r), p) = EdgeLock(tree, p)
<1> DEFINE w == WithPrompt(r)
           x == IF Finishes(r) THEN Input(r) + Output(r) - 1 ELSE After(r)
<1>0. TreeOK(tree) /\ setup \in Setups
    BY DEF PrefixInv, Typed
<1>1. /\ Input(r) \in Nat \ {0} /\ Output(r) \in Nat \ {0} /\ After(r) \in Nat
      /\ ~Finishes(r) => After(r) < Input(r) + Output(r)
    BY AfterFacts
<1>2. Key(r, Input(r)) \in Page \cup {Root}
    BY <1>0, <1>1, KeyFacts
<1>3. TreeOK(w) /\ DOMAIN tree \subseteq DOMAIN w /\ Cached(tree) \subseteq Cached(w)
      /\ \A p : EdgeLock(w, p) = EdgeLock(tree, p)
  <2> DEFINE v == Inserted(tree, Key(r, Input(r)))
  <2>1. /\ TreeOK(v) /\ DOMAIN tree \subseteq DOMAIN v
        /\ Cached(v) = Cached(tree) \cup Up(Key(r, Input(r)))
        /\ \A p : EdgeLock(v, p) = EdgeLock(tree, p)
      BY <1>0, <1>2, InsertedFacts
  <2>2. w = v \/ w = tree
      BY DEF WithPrompt
  <2> HIDE DEF v, w
  <2> QED
      BY <1>0, <2>1, <2>2
<1>4. x \in Nat /\ x < Input(r) + Output(r)
    BY <1>1
<1>5. Result(r) = Key(r, x)
    BY DEF Result
<1> HIDE DEF x, w
<1>6. Result(r) \in Page \cup {Root}
    BY <1>0, <1>4, <1>5, KeyFacts
<1>7. Grown(r) = Inserted(w, Result(r))
    BY DEF Grown, w
<1>8. LET v == Inserted(w, Result(r))
      IN  /\ TreeOK(v) /\ DOMAIN w \subseteq DOMAIN v /\ Result(r) \in DOMAIN v \cup {Root}
          /\ Cached(v) = Cached(w) \cup Up(Result(r))
          /\ \A p : EdgeLock(v, p) = EdgeLock(w, p)
    BY <1>3, <1>6, InsertedFacts
<1> QED
    BY <1>3, <1>7, <1>8

LEMMA CloseTree ==
    ASSUME PrefixInv, NEW r \in Req, r \notin done, Close(r)
    PROVE  /\ TreeOK(tree') /\ DOMAIN tree \subseteq DOMAIN tree'
           /\ Cached(tree) \subseteq Cached(tree')
           /\ Result(r) \in DOMAIN tree' \cup {Root}
           /\ \A p \in Page : EdgeLock(tree', p)
                  = EdgeLock(tree, p)
                      - (IF locked[r] /\ p \in Up(lastNode[r]) THEN 1 ELSE 0)
                      + (IF ~Finishes(r) /\ p \in Up(Result(r)) THEN 1 ELSE 0)
           /\ CountersExact'
<1> DEFINE g == Grown(r)
           v == IF HoldsOld(r) THEN UnlockedBy(g, {r}, lastNode) ELSE g
           u == LockedBy(v, {r}, Fixed(r))
           old(p) == IF locked[r] /\ p \in Up(lastNode[r]) THEN 1 ELSE 0
           new(p) == IF ~Finishes(r) /\ p \in Up(Result(r)) THEN 1 ELSE 0
<1>0. TreeOK(tree) /\ setup \in Setups /\ CountersExact /\ NoLockMissing
    BY DEF PrefixInv, Typed
<1>1. /\ TreeOK(g) /\ DOMAIN tree \subseteq DOMAIN g /\ Cached(tree) \subseteq Cached(g)
      /\ Result(r) \in DOMAIN g \cup {Root}
      /\ \A p : EdgeLock(g, p) = EdgeLock(tree, p)
    BY GrownFacts
<1>2. /\ Relock(g, u, Growth(r)) /\ tree' = u /\ UNCHANGED setup
      /\ npuUsed + Growth(r) <= setup.npu
    BY DEF Close, Relocked, Relock, Fits
<1>3. IsFiniteSet({r}) /\ {r} \in SUBSET Req
    BY FS_Singleton
<1>4. Growth(r) = Block * Cardinality(Cached(g) \ Cached(tree))
    BY DEF Growth
<1> HIDE DEF g
<1>5. /\ Growth(r) \in Nat
      /\ Tokens(g, FreeNodes(g)) = Tokens(tree, FreeNodes(tree)) + Growth(r)
      /\ Tokens(g, LockedNodes(g)) = Tokens(tree, LockedNodes(tree))
  <2> DEFINE grown == Block * Cardinality(Cached(g) \ Cached(tree))
  <2>1. /\ grown \in Nat
        /\ Tokens(g, FreeNodes(g)) = Tokens(tree, FreeNodes(tree)) + grown
        /\ Tokens(g, LockedNodes(g)) = Tokens(tree, LockedNodes(tree))
      BY <1>0, <1>1, GrowthBooks
  <2> QED
      BY <1>4, <2>1
<1>6. /\ TreeOK(v) /\ DOMAIN v = DOMAIN g /\ Cached(v) = Cached(g)
      /\ \A p \in Page : EdgeLock(v, p) = EdgeLock(tree, p) - old(p)
  <2>1. CASE ~locked[r]
    <3>1. v = g
        BY <2>1 DEF HoldsOld
    <3>2. ASSUME NEW p \in Page
          PROVE  EdgeLock(v, p) = EdgeLock(tree, p) - old(p)
      <4>1. EdgeLock(v, p) = EdgeLock(tree, p) /\ old(p) = 0 /\ EdgeLock(tree, p) \in Nat
          BY <1>0, <1>1, <2>1, <3>1, LockNat
      <4> QED
          BY <4>1
    <3> QED
        BY <1>1, <3>1, <3>2
  <2>2. CASE locked[r]
    <3>1. v = UnlockedBy(g, {r}, lastNode)
        BY <2>2 DEF HoldsOld
    <3>2. \A q \in {r} : lastNode[q] \in DOMAIN g \cup {Root}
        BY <1>0, <1>1, <2>2 DEF NoLockMissing
    <3>3. \A n \in DOMAIN g : Above({r}, lastNode, n) <= EdgeLock(g, n)
      <4>1. ASSUME NEW n \in DOMAIN g
            PROVE  Above({r}, lastNode, n) <= EdgeLock(g, n)
        <5>1. n \in Page
            BY <1>1 DEF TreeOK
        <5>2. Above({r}, lastNode, n) <= EdgeLock(tree, n)
            BY <1>0, <1>3, <2>2, <5>1, HeldCovered
        <5> QED
            BY <1>1, <5>2
      <4> QED
          BY <4>1
    <3>4. LET w == UnlockedBy(g, {r}, lastNode)
          IN  /\ TreeOK(w) /\ DOMAIN w = DOMAIN g /\ Cached(w) = Cached(g)
              /\ \A p : EdgeLock(w, p) = EdgeLock(g, p) - Above({r}, lastNode, p)
        BY <1>1, <1>3, <3>2, <3>3, UnlockedPages
    <3>5. \A p : Above({r}, lastNode, p) = old(p)
        BY <2>2, AboveOne
    <3> HIDE DEF v, old
    <3>6. ASSUME NEW p \in Page
          PROVE  EdgeLock(v, p) = EdgeLock(tree, p) - old(p)
      <4>1. EdgeLock(v, p) = EdgeLock(g, p) - Above({r}, lastNode, p)
          BY <3>1, <3>4
      <4>2. EdgeLock(g, p) = EdgeLock(tree, p) /\ Above({r}, lastNode, p) = old(p)
          BY <1>1, <3>5
      <4> QED
          BY <4>1, <4>2
    <3> QED
        BY <3>1, <3>4, <3>6
  <2> HIDE DEF v, old
  <2> QED
      BY <2>1, <2>2
<1> HIDE DEF v
<1>7. /\ Fixed(r)[r] = IF Finishes(r) THEN Root ELSE Result(r)
      /\ \A q \in {r} : Fixed(r)[q] \in DOMAIN v \cup {Root}
    BY <1>1, <1>6 DEF Fixed
<1>8. /\ TreeOK(u) /\ DOMAIN u = DOMAIN v /\ Cached(u) = Cached(v)
    BY <1>3, <1>6, LockedFacts
<1>9. \A p : EdgeLock(u, p) = EdgeLock(v, p) + Above({r}, Fixed(r), p)
    BY <1>3, <1>6, <1>7, LockedPages
<1>10. \A p : Above({r}, Fixed(r), p) = new(p)
  <2>1. ASSUME NEW p
        PROVE  Above({r}, Fixed(r), p) = new(p)
    <3>1. Above({r}, Fixed(r), p) = IF p \in Up(Fixed(r)[r]) THEN 1 ELSE 0
        BY AboveOne
    <3>2. p \in Up(Fixed(r)[r]) <=> ~Finishes(r) /\ p \in Up(Result(r))
        BY <1>7 DEF Up
    <3> QED
        BY <3>1, <3>2
  <2> QED
      BY <2>1
<1> HIDE DEF u, old, new
<1>11. \A p \in Page : EdgeLock(tree', p) = EdgeLock(tree, p) - old(p) + new(p)
  <2>1. ASSUME NEW p \in Page
        PROVE  EdgeLock(tree', p) = EdgeLock(tree, p) - old(p) + new(p)
    <3>1. EdgeLock(tree', p) = EdgeLock(v, p) + new(p)
        BY <1>2, <1>9, <1>10
    <3>2. EdgeLock(v, p) = EdgeLock(tree, p) - old(p)
        BY <1>6
    <3> QED
        BY <3>1, <3>2
  <2> QED
      BY <2>1
<1>12. DOMAIN u = DOMAIN g
    BY <1>6, <1>8
<1>13. Books(tree', evictable', protected', npuUsed') /\ npuUsed' = npuUsed + Growth(r)
    BY <1>0, <1>1, <1>2, <1>5, <1>8, <1>12, RelockBooks
<1>14. CountersExact'
    BY <1>2, <1>13 DEF CountersExact
<1>15. /\ TreeOK(tree') /\ DOMAIN tree \subseteq DOMAIN tree' /\ Cached(tree) \subseteq Cached(tree')
       /\ Result(r) \in DOMAIN tree' \cup {Root}
    BY <1>1, <1>2, <1>6, <1>8, <1>12
<1> QED
    BY <1>11, <1>14, <1>15 DEF old, new

-----------------------------------------------------------------------------
(* Locks and holders, action by action.                                    *)

LEMMA SpareType ==
    ASSUME TreeOK(tree), NEW p
    PROVE  EdgeLock(tree, p) \in Nat /\ Cardinality(Holding(p)) \in Nat /\ Spare(p) \in Int
<1>1. EdgeLock(tree, p) \in Nat /\ Cardinality(Holding(p)) \in Nat
    BY LockNat, HoldingType
<1> QED
    BY <1>1 DEF Spare

\* A request that is matched holds nothing.
LEMMA FreshUnlocked ==
    ASSUME PrefixInv, NEW r \in Req, MatchNext(r)
    PROVE  ~Fresh(r) \/ ~locked[r]
<1>1. phase = "match" /\ r \in todo
    BY DEF MatchNext
<1>2. r \notin Running /\ Working = Running
    BY <1>1 DEF PrefixInv, Places, Working
<1> QED
    BY <1>2 DEF PrefixInv, Progress, Fresh

LEMMA MatchLocks ==
    ASSUME PrefixInv, NEW r \in Req, MatchNext(r)
    PROVE  NoLockMissing' /\ \A p \in Page : Spare(p)' = Spare(p)
<1>1. /\ DOMAIN tree \subseteq DOMAIN tree' /\ \A p : EdgeLock(tree', p) = EdgeLock(tree, p)
    BY MatchTree
<1>2. /\ locked' = locked
      /\ lastNode' = [lastNode EXCEPT ![r] = IF Fresh(r) THEN HitNode(r) ELSE @]
      /\ lastNode \in [Req -> DOMAIN tree \cup {Root, None, Gone}]
    BY DEF MatchNext, PrefixInv, Typed
<1>3. ~Fresh(r) \/ ~locked[r]
    BY FreshUnlocked
<1>4. \A q \in Req : locked[q] => lastNode'[q] = lastNode[q]
    BY <1>2, <1>3
<1>5. \A p : Holding(p)' = Holding(p)
    BY <1>2, <1>4 DEF Holding
<1>6. \A p \in Page : Spare(p)' = Spare(p)
    BY <1>1, <1>5 DEF Spare
<1>7. NoLockMissing'
    BY <1>1, <1>2, <1>4, <1>6 DEF PrefixInv, NoLockMissing
<1> QED
    BY <1>6, <1>7

LEMMA EvictLocks ==
    ASSUME PrefixInv, NEW n, EvictLeaf(n)
    PROVE  NoLockMissing' /\ \A p \in Page : Spare(p)' = Spare(p)
<1>0. TreeOK(tree) /\ NoLockMissing /\ DOMAIN tree \in SUBSET Page
    BY DEF PrefixInv, Typed, TreeOK
<1>1. /\ DOMAIN tree' = DOMAIN tree \ {n} /\ n \in DOMAIN tree /\ EdgeLock(tree, n) = 0
      /\ \A p : EdgeLock(tree', p) = EdgeLock(tree, p)
    BY EvictTree
<1>2. /\ locked' = locked
      /\ lastNode' = [q \in Req |-> IF lastNode[q] = n THEN Gone ELSE lastNode[q]]
    BY DEF EvictLeaf
<1>3. ASSUME NEW q \in Req, locked[q]
      PROVE  lastNode[q] # n
  <2> SUFFICES ASSUME lastNode[q] = n PROVE FALSE
      OBVIOUS
  <2>1. n \in Page /\ n \in Up(lastNode[q])
      BY <1>0, <1>1, PageOrder, PageAssumption DEF Up
  <2>2. \A s \in {q} : locked[s]
      BY <1>3
  <2>3. Above({q}, lastNode, n) <= EdgeLock(tree, n)
      BY <1>0, <2>1, <2>2, HeldCovered
  <2>4. Above({q}, lastNode, n) = 1
      BY <2>1, AboveOne
  <2> QED
      BY <1>1, <2>3, <2>4
<1>4. \A q \in Req : locked[q] => lastNode'[q] = lastNode[q]
    BY <1>2, <1>3
<1>5. \A p : Holding(p)' = Holding(p)
    BY <1>2, <1>4 DEF Holding
<1>6. \A p \in Page : Spare(p)' = Spare(p)
    BY <1>1, <1>5 DEF Spare
<1>7. NoLockMissing'
    BY <1>0, <1>1, <1>2, <1>3, <1>4, <1>6 DEF NoLockMissing
<1> QED
    BY <1>6, <1>7

LEMMA KeepLocks ==
    ASSUME PrefixInv, UNCHANGED setup, Gone \notin {lastNode[r] : r \in Joining},
           NEW fit, KeepsFirst(fit)
    PROVE  NoLockMissing' /\ \A p \in Page : Spare(p)' = Spare(p)
<1> DEFINE J == Joining
           O == LeftOut(fit)
<1>0. TreeOK(tree) /\ NoLockMissing
    BY DEF PrefixInv, Typed
<1>1. /\ J \in SUBSET Req /\ O \in SUBSET Req
      /\ \A r \in J : ~locked[r] /\ lastNode[r] \in DOMAIN tree \cup {Root}
      /\ \A r \in O : locked[r] \/ r \in J
    BY JoiningFacts
<1>2. /\ lastNode' = [r \in Req |-> IF r \in O THEN None ELSE lastNode[r]]
      /\ locked' = [r \in Req |-> (locked[r] \/ r \in J) /\ r \notin O]
    BY DEF KeepsFirst
<1>3. /\ DOMAIN tree' = DOMAIN tree
      /\ \A p : EdgeLock(tree', p)
                  = EdgeLock(tree, p) + Above(J, lastNode, p) - Above(O, lastNode, p)
    BY KeepTree
<1> HIDE DEF J, O
<1>4. \A r \in Req : locked'[r] <=> (locked[r] \/ r \in J) /\ r \notin O
    BY <1>2
<1>5. ASSUME NEW p \in Page
      PROVE  Spare(p)' = Spare(p)
  <2> DEFINE A == Holding(p)
             j == {r \in J : p \in Up(lastNode[r])}
             o == {r \in O : p \in Up(lastNode[r])}
  <2>1. Holding(p)' = (A \cup j) \ o
    <3>1. \A r \in Req : r \in Holding(p)'
              <=> ((locked[r] \/ r \in J) /\ r \notin O) /\ p \in Up(lastNode[r])
        BY <1>2, <1>4 DEF Holding
    <3>2. Holding(p)' \subseteq Req
        BY DEF Holding
    <3> QED
        BY <1>1, <3>1, <3>2 DEF Holding
  <2>2. A \in SUBSET Req /\ j \in SUBSET Req /\ A \cap j = {} /\ o \in SUBSET (A \cup j)
        /\ A \cup j \in SUBSET Req /\ o \in SUBSET Req
      BY <1>1 DEF Holding
  <2>3. Above(J, lastNode, p) = Cardinality(j) /\ Above(O, lastNode, p) = Cardinality(o)
      BY DEF Above
  <2>4. Spare(p) = EdgeLock(tree, p) - Cardinality(A)
      BY DEF Spare
  <2>5. Spare(p)' = EdgeLock(tree', p) - Cardinality(Holding(p)')
      BY DEF Spare
  <2> HIDE DEF A, j, o
  <2>6. Cardinality(A \cup j) = Cardinality(A) + Cardinality(j)
      BY <2>2, CountJoin
  <2>7. Cardinality((A \cup j) \ o) = Cardinality(A \cup j) - Cardinality(o)
      BY <2>2, CountLeave
  <2>8. /\ Cardinality(A) \in Nat /\ Cardinality(j) \in Nat /\ Cardinality(o) \in Nat
        /\ EdgeLock(tree, p) \in Nat
      BY <1>0, <2>2, ReqFinite, LockNat
  <2>9. Cardinality(Holding(p)') = Cardinality(A) + Cardinality(j) - Cardinality(o)
      BY <2>1, <2>6, <2>7, <2>8
  <2>10. EdgeLock(tree', p) = EdgeLock(tree, p) + Cardinality(j) - Cardinality(o)
      BY <1>3, <2>3
  <2> QED
      BY <2>4, <2>5, <2>8, <2>9, <2>10
<1>6. \A r \in Req : locked'[r] => lastNode'[r] \in DOMAIN tree' \cup {Root}
    BY <1>0, <1>1, <1>2, <1>3, <1>4 DEF NoLockMissing
<1>7. NoLockMissing'
    BY <1>0, <1>5, <1>6 DEF NoLockMissing
<1> QED
    BY <1>5, <1>7

\* A reloaded decode takes another lock and gives none back.
LEMMA DispatchLocks ==
    ASSUME PrefixInv, Dispatch
    PROVE  /\ NoLockMissing' /\ \A p \in Page : Spare(p)' >= Spare(p)
           /\ Reloaded = {} => \A p \in Page : Spare(p)' = Spare(p)
<1> DEFINE R == Reloaded
<1>0. TreeOK(tree) /\ NoLockMissing
    BY DEF PrefixInv, Typed
<1>1. /\ R \in SUBSET Req /\ lastNode' = Reload
      /\ DOMAIN tree \subseteq DOMAIN tree'
      /\ \A r \in R : Reload[r] \in DOMAIN tree' \cup {Root}
      /\ \A p : EdgeLock(tree', p) = EdgeLock(tree, p) + Above(R, Reload, p)
    BY DispatchTree
<1>2. locked' = locked
    BY DEF Dispatch
<1>3. \A r \in Req : r \notin R => Reload[r] = lastNode[r]
    BY DEF Reload
<1> HIDE DEF R
<1>4. ASSUME NEW p \in Page
      PROVE  Spare(p)' >= Spare(p) /\ (R = {} => Spare(p)' = Spare(p))
  <2> DEFINE A == Holding(p)
             new == {r \in R : p \in Up(Reload[r])}
             B == Holding(p)'
  <2>1. B \in SUBSET Req /\ A \in SUBSET Req /\ new \in SUBSET Req
      BY <1>1 DEF Holding
  <2>2. B \subseteq A \cup new
      BY <1>1, <1>2, <1>3 DEF Holding
  <2>3. R = {} => B = A /\ new = {}
      BY <1>1, <1>2, <1>3 DEF Holding
  <2>4. /\ Spare(p) = EdgeLock(tree, p) - Cardinality(A)
        /\ Spare(p)' = EdgeLock(tree', p) - Cardinality(B)
        /\ EdgeLock(tree', p) = EdgeLock(tree, p) + Cardinality(new)
      BY <1>1 DEF Spare, Above
  <2> HIDE DEF A, B, new
  <2>5. /\ IsFiniteSet(A) /\ IsFiniteSet(new) /\ Cardinality(A) \in Nat
        /\ Cardinality(new) \in Nat /\ Cardinality(B) \in Nat /\ EdgeLock(tree, p) \in Nat
      BY <1>0, <2>1, ReqFinite, LockNat
  <2>6. Cardinality(B) <= Cardinality(A \cup new)
      BY <2>1, <2>2, CountLeave
  <2>7. /\ Cardinality(A \cup new) = Cardinality(A) + Cardinality(new \ A)
        /\ Cardinality(new \ A) <= Cardinality(new)
    <3>1. new \ A \in SUBSET Req /\ A \cap (new \ A) = {} /\ new \ A \in SUBSET new
          /\ A \cup (new \ A) = A \cup new
        BY <2>1
    <3>2. Cardinality(A \cup (new \ A)) = Cardinality(A) + Cardinality(new \ A)
        BY <2>1, <3>1, CountJoin
    <3>3. Cardinality(new \ A) <= Cardinality(new)
        BY <2>1, <3>1, CountLeave
    <3> QED
        BY <3>1, <3>2, <3>3
  <2>8. Cardinality(new \ A) \in Nat /\ Cardinality(A \cup new) \in Nat
    <3>1. new \ A \in SUBSET Req /\ A \cup new \in SUBSET Req
        BY <2>1
    <3> QED
        BY <3>1, ReqFinite
  <2>9. Cardinality(B) <= Cardinality(A) + Cardinality(new)
      BY <2>5, <2>6, <2>7, <2>8
  <2>10. R = {} => Cardinality(B) = Cardinality(A) /\ Cardinality(new) = 0
      BY <2>3, FS_EmptySet
  <2> QED
      BY <2>4, <2>5, <2>9, <2>10
<1>5. \A r \in Req : locked'[r] => lastNode'[r] \in DOMAIN tree' \cup {Root}
    BY <1>0, <1>1, <1>2, <1>3 DEF NoLockMissing
<1>6. \A p \in Page : Spare(p)' >= 0
  <2>1. ASSUME NEW p \in Page
        PROVE  Spare(p)' >= 0
    <3>1. Spare(p) >= 0 /\ Spare(p) \in Int
        BY <1>0, SpareType DEF NoLockMissing
    <3>2. TreeOK(tree')
        BY DispatchTree
    <3>3. Spare(p)' \in Int
      <4>1. EdgeLock(tree', p) \in Nat
          BY <3>2, LockNat
      <4>2. Holding(p)' \in SUBSET Req
          BY DEF Holding
      <4>3. Cardinality(Holding(p)') \in Nat
          BY <4>2, ReqFinite
      <4>4. Spare(p)' = EdgeLock(tree', p) - Cardinality(Holding(p)')
          BY DEF Spare
      <4> QED
          BY <4>1, <4>3, <4>4
    <3> QED
        BY <1>4, <3>1, <3>3
  <2> QED
      BY <2>1
<1>7. NoLockMissing'
    BY <1>5, <1>6 DEF NoLockMissing
<1> QED
    BY <1>4, <1>7 DEF R

LEMMA CloseLocks ==
    ASSUME PrefixInv, NEW r \in Req, r \notin done, Close(r)
    PROVE  NoLockMissing' /\ \A p \in Page : Spare(p)' = Spare(p)
<1> DEFINE old(p) == IF locked[r] /\ p \in Up(lastNode[r]) THEN 1 ELSE 0
           new(p) == IF ~Finishes(r) /\ p \in Up(Result(r)) THEN 1 ELSE 0
<1>0. /\ TreeOK(tree) /\ NoLockMissing /\ locked \in [Req -> BOOLEAN]
      /\ lastNode \in [Req -> DOMAIN tree \cup {Root, None, Gone}]
    BY DEF PrefixInv, Typed
<1>1. /\ DOMAIN tree \subseteq DOMAIN tree' /\ Result(r) \in DOMAIN tree' \cup {Root}
      /\ \A p \in Page : EdgeLock(tree', p) = EdgeLock(tree, p) - old(p) + new(p)
    BY CloseTree
<1>2. /\ lastNode' = [lastNode EXCEPT ![r] = IF Finishes(r) THEN None ELSE Result(r)]
      /\ locked' = [locked EXCEPT ![r] = ~Finishes(r)]
    BY DEF Close
<1>3. /\ \A q \in Req \ {r} : (locked'[q] <=> locked[q]) /\ lastNode'[q] = lastNode[q]
      /\ locked'[r] <=> ~Finishes(r)
      /\ ~Finishes(r) => lastNode'[r] = Result(r)
    BY <1>0, <1>2
<1>4. ASSUME NEW p \in Page
      PROVE  Spare(p)' = Spare(p)
  <2> DEFINE A == Holding(p)
             B == Holding(p)'
             C == Holding(p) \ {r}
  <2>1. A \in SUBSET Req /\ B \in SUBSET Req /\ C \in SUBSET Req
      BY DEF Holding
  <2>2. r \in A <=> locked[r] /\ p \in Up(lastNode[r])
      BY DEF Holding
  <2>3. r \in B <=> ~Finishes(r) /\ p \in Up(Result(r))
      BY <1>3 DEF Holding
  <2>4. B \ {r} = C
    <3>1. \A q \in Req \ {r} : q \in B <=> q \in A
        BY <1>3 DEF Holding
    <3> QED
        BY <2>1, <3>1
  <2>5. /\ Spare(p) = EdgeLock(tree, p) - Cardinality(A)
        /\ Spare(p)' = EdgeLock(tree', p) - Cardinality(B)
      BY DEF Spare
  <2>6. old(p) = (IF r \in A THEN 1 ELSE 0) /\ new(p) = (IF r \in B THEN 1 ELSE 0)
      BY <2>2, <2>3
  <2>7. EdgeLock(tree', p) = EdgeLock(tree, p) - old(p) + new(p)
      BY <1>1
  <2> HIDE DEF A, B, old, new
  <2>8. \A S \in SUBSET Req : S \ {r} = C => Cardinality(S) = Cardinality(C) + (IF r \in S THEN 1 ELSE 0)
    <3>1. ASSUME NEW S \in SUBSET Req, S \ {r} = C
          PROVE  Cardinality(S) = Cardinality(C) + (IF r \in S THEN 1 ELSE 0)
      <4>0. Cardinality(C) \in Nat
          BY <2>1, ReqFinite
      <4>1. CASE r \notin S
        <5>1. S = C
            BY <3>1, <4>1
        <5> QED
            BY <4>0, <4>1, <5>1
      <4>2. CASE r \in S
        <5>1. S = C \cup {r} /\ C \cap {r} = {} /\ {r} \in SUBSET Req
            BY <3>1, <4>2
        <5>2. Cardinality(C \cup {r}) = Cardinality(C) + Cardinality({r})
            BY <2>1, <5>1, CountJoin
        <5> QED
            BY <4>2, <5>1, <5>2, FS_Singleton
      <4> QED
          BY <4>1, <4>2
    <3> QED
        BY <3>1
  <2>9. A \ {r} = C
      BY DEF A
  <2>10. Cardinality(A) = Cardinality(C) + old(p) /\ Cardinality(B) = Cardinality(C) + new(p)
      BY <2>1, <2>4, <2>6, <2>8, <2>9
  <2>11. old(p) \in Nat /\ new(p) \in Nat
      BY <2>6
  <2>12. Cardinality(C) \in Nat /\ EdgeLock(tree, p) \in Nat
      BY <1>0, <2>1, ReqFinite, LockNat
  <2> HIDE DEF C
  <2> QED
      BY <2>5, <2>7, <2>10, <2>11, <2>12
<1>5. \A q \in Req : locked'[q] => lastNode'[q] \in DOMAIN tree' \cup {Root}
    BY <1>0, <1>1, <1>3 DEF NoLockMissing
<1>6. NoLockMissing'
    BY <1>0, <1>4, <1>5 DEF NoLockMissing
<1> QED
    BY <1>4, <1>6

-----------------------------------------------------------------------------
(* Where the requests are.                                                 *)

LEMMA JoinSeq ==
    ASSUME NEW U, NEW s \in Seq(U), NEW x \in U
    PROVE  /\ Append(s, x) \in Seq(U) /\ Append(s, x) # <<>>
           /\ Range(Append(s, x)) = Range(s) \cup {x}
           /\ DOMAIN Append(s, x) = DOMAIN s \cup {Len(s) + 1} /\ Len(s) + 1 \notin DOMAIN s
           /\ \A i \in DOMAIN s : Append(s, x)[i] = s[i]
           /\ Append(s, x)[Len(s) + 1] = x
           /\ Once(s) /\ x \notin Range(s) => Once(Append(s, x))
<1> DEFINE t == Append(s, x)
           n == Len(s)
<1>1. /\ t \in Seq(U) /\ Len(t) = n + 1 /\ n \in Nat /\ DOMAIN s = 1..n /\ DOMAIN t = 1..(n + 1)
      /\ \A i \in 1..n : t[i] = s[i]
      /\ t[n + 1] = x
    OBVIOUS
<1> HIDE DEF t, n
<1>2. DOMAIN t = DOMAIN s \cup {n + 1} /\ n + 1 \notin DOMAIN s
    BY <1>1
<1>3. \A i \in DOMAIN s : t[i] = s[i]
    BY <1>1
<1>4. Range(t) = Range(s) \cup {x}
    BY <1>1, <1>2, <1>3 DEF Range
<1>5. t # <<>>
    BY <1>1
<1>6. Once(s) /\ x \notin Range(s) => Once(t)
    BY <1>1, <1>2, <1>3 DEF Once, Range
<1> QED
    BY <1>1, <1>2, <1>3, <1>4, <1>5, <1>6 DEF t, n

LEMMA LeaveSeq ==
    ASSUME NEW U, NEW s \in Seq(U), s # <<>>
    PROVE  /\ Head(s) \in U /\ Tail(s) \in Seq(U) /\ Head(s) \in Range(s)
           /\ 1 \in DOMAIN s /\ s[1] = Head(s)
           /\ \A i \in DOMAIN Tail(s) : /\ i + 1 \in DOMAIN s /\ i + 1 # 1
                                        /\ Tail(s)[i] = s[i + 1]
           /\ \A i \in DOMAIN s \ {1} : i - 1 \in DOMAIN Tail(s) /\ Tail(s)[i - 1] = s[i]
           /\ Range(s) = {Head(s)} \cup Range(Tail(s))
           /\ Once(s) => Once(Tail(s)) /\ Head(s) \notin Range(Tail(s))
<1> DEFINE t == Tail(s)
           n == Len(s)
<1>1. /\ Head(s) \in U /\ t \in Seq(U) /\ n \in Nat /\ n > 0
      /\ DOMAIN s = 1..n /\ DOMAIN t = 1..(n - 1) /\ s[1] = Head(s)
      /\ \A i \in 1..(n - 1) : t[i] = s[i + 1]
    OBVIOUS
<1> HIDE DEF t, n
<1>2. 1 \in DOMAIN s
    BY <1>1
<1>3. \A i \in DOMAIN t : i + 1 \in DOMAIN s /\ i + 1 # 1 /\ t[i] = s[i + 1] /\ i \in Int
    BY <1>1
<1>4. \A i \in DOMAIN s \ {1} : i - 1 \in DOMAIN t /\ t[i - 1] = s[i]
  <2>1. ASSUME NEW i \in DOMAIN s \ {1}
        PROVE  i - 1 \in DOMAIN t /\ t[i - 1] = s[i]
    <3>1. i \in 2..n
        BY <1>1
    <3>2. i - 1 \in 1..(n - 1) /\ (i - 1) + 1 = i
        BY <1>1, <3>1
    <3> QED
        BY <1>1, <3>2
  <2> QED
      BY <2>1
<1>5. Range(s) = {Head(s)} \cup Range(t)
  <2>1. ASSUME NEW x
        PROVE  x \in Range(s) <=> x = Head(s) \/ x \in Range(t)
    <3>1. ASSUME NEW i \in DOMAIN s, x = s[i]
          PROVE  x = Head(s) \/ x \in Range(t)
        BY <1>1, <1>4, <3>1 DEF Range
    <3>2. ASSUME NEW i \in DOMAIN t, x = t[i]
          PROVE  x \in Range(s)
        BY <1>3, <3>2 DEF Range
    <3>3. Head(s) \in Range(s)
        BY <1>1, <1>2 DEF Range
    <3> QED
        BY <3>1, <3>2, <3>3 DEF Range
  <2> QED
      BY <2>1
<1>6. Once(s) => Once(t)
  <2> SUFFICES ASSUME Once(s), NEW i \in DOMAIN t, NEW j \in DOMAIN t, t[i] = t[j]
               PROVE  i = j
      BY DEF Once
  <2>1. s[i + 1] = s[j + 1] /\ i + 1 \in DOMAIN s /\ j + 1 \in DOMAIN s /\ i \in Int /\ j \in Int
      BY <1>3
  <2>2. i + 1 = j + 1
      BY <2>1 DEF Once
  <2> QED
      BY <2>1, <2>2
<1>7. Once(s) => Head(s) \notin Range(t)
  <2> SUFFICES ASSUME Once(s), NEW i \in DOMAIN t, t[i] = Head(s)
               PROVE  FALSE
      BY DEF Range
  <2>1. s[i + 1] = s[1] /\ i + 1 \in DOMAIN s /\ i + 1 # 1
      BY <1>1, <1>3
  <2> QED
      BY <1>2, <2>1 DEF Once
<1> QED
    BY <1>1, <1>2, <1>3, <1>4, <1>5, <1>6, <1>7 DEF t

LEMMA FirstOfSeq ==
    ASSUME NEW U, NEW s \in Seq(U), NEW n \in 0..Len(s)
    PROVE  LET t == SubSeq(s, 1, n)
           IN  /\ t \in Seq(U)
               /\ Range(t) = {s[j] : j \in 1..n} /\ Range(t) \subseteq Range(s)
               /\ Once(s) => Once(t)
               /\ t = <<>> <=> n = 0
<1> DEFINE t == SubSeq(s, 1, n)
<1>1. /\ t \in Seq(U) /\ Len(t) = n /\ n \in Nat
      /\ DOMAIN t = 1..n /\ DOMAIN s = 1..Len(s) /\ 1..n \subseteq 1..Len(s)
      /\ \A i \in 1..n : t[i] = s[i]
  <2>1. \A i \in 1..n : s[i] \in U
      OBVIOUS
  <2> QED
      BY <2>1
<1> HIDE DEF t
<1>2. Range(t) = {s[j] : j \in 1..n} /\ Range(t) \subseteq Range(s)
    BY <1>1 DEF Range
<1>3. Once(s) => Once(t)
    BY <1>1 DEF Once
<1>4. t = <<>> <=> n = 0
    BY <1>1
<1> QED
    BY <1>1, <1>2, <1>3, <1>4 DEF t

LEMMA BatchSent ==
    ASSUME NEW f \in Seq(Seq(Req)), Orderly(f), NEW b \in Seq(Req), b # <<>>, Once(b),
           Range(b) \cap Members(f) = {}
    PROVE  LET g == Append(f, b)
           IN  g \in Seq(Seq(Req)) /\ Orderly(g) /\ Members(g) = Members(f) \cup Range(b)
<1> DEFINE g == Append(f, b)
           n == Len(f) + 1
<1>1. /\ g \in Seq(Seq(Req)) /\ DOMAIN g = DOMAIN f \cup {n} /\ n \notin DOMAIN f
      /\ \A i \in DOMAIN f : g[i] = f[i]
      /\ g[n] = b
    BY JoinSeq
<1> HIDE DEF g, n
<1>2. \A i \in DOMAIN f : Range(f[i]) \subseteq Members(f)
    BY DEF Members
<1>3. Members(g) = Members(f) \cup Range(b)
    BY <1>1 DEF Members
<1>4. Orderly(g)
    BY <1>1, <1>2 DEF Orderly
<1> QED
    BY <1>1, <1>3, <1>4 DEF g

LEMMA BatchBack ==
    ASSUME NEW f \in Seq(Seq(Req)), Orderly(f), f # <<>>
    PROVE  LET b == Head(f)
           IN  /\ b \in Seq(Req) /\ b # <<>> /\ Once(b)
               /\ Tail(f) \in Seq(Seq(Req)) /\ Orderly(Tail(f))
               /\ Members(f) = Range(b) \cup Members(Tail(f))
               /\ Range(b) \cap Members(Tail(f)) = {}
<1> DEFINE g == Tail(f)
           b == Head(f)
<1>1. /\ b \in Seq(Req) /\ g \in Seq(Seq(Req)) /\ 1 \in DOMAIN f /\ f[1] = b
      /\ \A i \in DOMAIN g : i + 1 \in DOMAIN f /\ i + 1 # 1 /\ g[i] = f[i + 1]
      /\ \A i \in DOMAIN f \ {1} : i - 1 \in DOMAIN g /\ g[i - 1] = f[i]
    BY LeaveSeq
<1>2. \A i \in DOMAIN g : i \in Int
    BY <1>1
<1> HIDE DEF g, b
<1>3. b # <<>> /\ Once(b)
    BY <1>1 DEF Orderly
<1>4. Orderly(g)
  <2>1. \A i \in DOMAIN g : g[i] # <<>> /\ Once(g[i])
      BY <1>1 DEF Orderly
  <2>2. ASSUME NEW i \in DOMAIN g, NEW j \in DOMAIN g, i # j
        PROVE  Range(g[i]) \cap Range(g[j]) = {}
    <3>1. i + 1 # j + 1
        BY <1>2, <2>2
    <3> QED
        BY <1>1, <3>1 DEF Orderly
  <2> QED
      BY <2>1, <2>2 DEF Orderly
<1>5. \A x : x \in Members(f) <=> x \in Range(b) \/ x \in Members(g)
  <2>1. ASSUME NEW x, NEW i \in DOMAIN f, x \in Range(f[i])
        PROVE  x \in Range(b) \/ x \in Members(g)
      BY <1>1, <2>1, ZenonT(30) DEF Members
  <2>2. ASSUME NEW x, NEW i \in DOMAIN g, x \in Range(g[i])
        PROVE  x \in Members(f)
      BY <1>1, <2>2 DEF Members
  <2>3. \A x \in Range(b) : x \in Members(f)
      BY <1>1 DEF Members
  <2> QED
      BY <2>1, <2>2, <2>3 DEF Members
<1>6. Range(b) \cap Members(g) = {}
  <2> SUFFICES ASSUME NEW x \in Range(b), NEW i \in DOMAIN g, x \in Range(g[i])
               PROVE  FALSE
      BY DEF Members
  <2> QED
      BY <1>1 DEF Orderly
<1> QED
    BY <1>1, <1>3, <1>4, <1>5, <1>6 DEF g, b

-----------------------------------------------------------------------------
(* The invariant, action by action.                                        *)

LEMMA InitHolds == Init => PrefixInv
<1> SUFFICES ASSUME Init PROVE PrefixInv
    OBVIOUS
<1>1. /\ setup \in Setups /\ request = {} /\ done = {} /\ todo = {} /\ inflight = <<>> /\ batch = <<>>
      /\ computed = [r \in Req |-> 0] /\ chunk = [r \in Req |-> 0] /\ generated = [r \in Req |-> 0]
      /\ locked = [r \in Req |-> FALSE] /\ lastNode = [r \in Req |-> None]
      /\ phase = "run" /\ room = 0
      /\ evictable = 0 /\ protected = 0 /\ npuUsed = 0
    BY DEF Init
<1>2. DOMAIN tree = {}
    BY DEF Init
<1>3. \A r \in Req : Input(r) \in Nat \ {0} /\ Output(r) \in Nat \ {0}
    BY <1>1, SetupAssumption DEF Input, Output
<1>4. TreeOK(tree)
  <2>1. IsFiniteSet({})
      BY FS_EmptySet
  <2> QED
      BY <1>2, <2>1 DEF TreeOK, Closed
<1>5. DOMAIN inflight = {} /\ Running = {} /\ Range(batch) = {} /\ Orderly(inflight) /\ Once(batch)
  <2>1. DOMAIN inflight = {} /\ DOMAIN batch = {}
      BY <1>1
  <2> QED
      BY <2>1 DEF Running, Range, Orderly, Once
<1>6. Typed
    BY <1>1, <1>4 DEF Typed
<1>7. Places
    BY <1>1, <1>5 DEF Places
<1>8. Progress
    BY <1>1, <1>3, <1>5 DEF Progress, IsPrefill
<1>9. NoLockMissing
  <2>1. ASSUME NEW p \in Page
        PROVE  Spare(p) >= 0
    <3>1. p \notin Cached(tree)
        BY <1>2 DEF Cached
    <3>2. EdgeLock(tree, p) = 0
        BY <3>1, NoLockOutside
    <3>3. Holding(p) = {}
        BY <1>1 DEF Holding
    <3>4. Cardinality(Holding(p)) = 0
        BY <3>3, FS_EmptySet
    <3> QED
        BY <3>2, <3>4 DEF Spare
  <2> QED
      BY <1>1, <2>1 DEF NoLockMissing
<1>10. CountersExact
  <2>1. FreeNodes(tree) = {} /\ LockedNodes(tree) = {}
      BY <1>2 DEF FreeNodes, LockedNodes
  <2>2. Tokens(tree, {}) = 0
    <3>1. UNION {Edge(tree, n) : n \in {}} = {}
        OBVIOUS
    <3>2. Cardinality(UNION {Edge(tree, n) : n \in {}}) = 0
        BY <3>1, FS_EmptySet
    <3>3. Block * 0 = 0
        BY BlockAssumption
    <3> QED
        BY <3>2, <3>3 DEF Tokens
  <2>3. setup.npu \in Nat
      BY <1>1, SetupAssumption
  <2> QED
      BY <1>1, <2>1, <2>2, <2>3 DEF CountersExact, Books
<1> QED
    BY <1>6, <1>7, <1>8, <1>9, <1>10 DEF PrefixInv

\* Steps that leave the tree, the locks and the nodes of requests alone.
LEMMA TreeFrame ==
    ASSUME PrefixInv, UNCHANGED <<setup, tree, evictable, protected, npuUsed, locked, lastNode>>
    PROVE  /\ NoLockMissing' /\ CountersExact' /\ TreeOK(tree')
           /\ \A p \in Page : Spare(p)' = Spare(p)
<1>1. \A p : Spare(p)' = Spare(p)
    BY DEF Spare, Holding
<1>2. NoLockMissing'
    BY <1>1 DEF PrefixInv, NoLockMissing
<1>3. CountersExact'
    BY DEF PrefixInv, CountersExact, Books
<1>4. TreeOK(tree')
    BY DEF PrefixInv, Typed
<1> QED
    BY <1>1, <1>2, <1>3, <1>4

LEMMA ArriveKeeps ==
    ASSUME PrefixInv, NEW r \in Req, Arrive(r)
    PROVE  PrefixInv'
<1>1. /\ phase = "run" /\ r \notin request \cup Running \cup done \cup Range(batch)
      /\ request' = request \cup {r}
      /\ UNCHANGED <<setup, tree, evictable, protected, npuUsed, inflight, done, computed, chunk,
                     generated, lastNode, locked, phase, todo, batch, room>>
    BY DEF Arrive, Arrived, treeVars, reqVars, callVars
<1>2. NoLockMissing' /\ CountersExact' /\ TreeOK(tree')
    BY <1>1, TreeFrame
<1>3. Running' = Running /\ Working' = Working
    BY <1>1 DEF Running, Working
<1>4. Typed'
    BY <1>1, <1>2 DEF PrefixInv, Typed
<1>5. Places'
    BY <1>1, <1>3 DEF PrefixInv, Places
<1>6. Progress'
    BY <1>1, <1>3 DEF PrefixInv, Progress, Input, Output, IsPrefill
<1> QED
    BY <1>2, <1>4, <1>5, <1>6 DEF PrefixInv

LEMMA BeginKeeps ==
    ASSUME PrefixInv, Begin
    PROVE  PrefixInv'
<1>1. /\ phase = "run" /\ phase' = "match" /\ todo' = Considered /\ room' = setup.tokens
      /\ UNCHANGED <<setup, tree, evictable, protected, npuUsed, request, inflight, done, computed,
                     chunk, generated, lastNode, locked, batch>>
    BY DEF Begin, treeVars, reqVars
<1>2. NoLockMissing' /\ CountersExact' /\ TreeOK(tree')
    BY <1>1, TreeFrame
<1>3. Running' = Running /\ Working' = Working
    BY <1>1 DEF Running, Working
<1>4. Considered \in SUBSET request /\ setup.tokens \in Int /\ batch = <<>>
  <2>1. setup \in Setups
      BY DEF PrefixInv, Typed
  <2> QED
      BY <1>1, <2>1, SetupAssumption DEF Considered, BatchReq, PrefixInv, Places
<1>5. Range(batch) = {}
    BY <1>4 DEF Range
<1>6. Typed'
    BY <1>1, <1>2, <1>4 DEF PrefixInv, Typed
<1>7. Places'
    BY <1>1, <1>3, <1>4, <1>5 DEF PrefixInv, Places
<1>8. Progress'
    BY <1>1, <1>3 DEF PrefixInv, Progress, Input, Output, IsPrefill
<1> QED
    BY <1>2, <1>6, <1>7, <1>8 DEF PrefixInv

\* What a match makes of the request.
LEMMA MatchGrant ==
    ASSUME PrefixInv, NEW r \in Req, MatchNext(r)
    PROVE  /\ Ready(r) \in Nat /\ Wanted(r) \in Nat /\ room \in Int
           /\ Ready(r) <= Input(r) + generated[r] /\ Ready(r) >= computed[r]
           /\ IsPrefill(r) /\ Wanted(r) > 0 /\ Ready(r) < Input(r) => Wanted(r) <= Input(r) - Ready(r)
           /\ IsPrefill(r) /\ Wanted(r) = 0 => Ready(r) >= Input(r)
           /\ ~IsPrefill(r) => Ready(r) >= Input(r)
<1> DEFINE left == Input(r) - Ready(r)
<1>0. /\ TreeOK(tree) /\ setup \in Setups /\ computed[r] \in Nat /\ generated[r] \in Nat
      /\ phase = "match" /\ room \in Int /\ (~setup.chunked \/ room > 0)
      /\ computed[r] <= Input(r) + generated[r]
    BY DEF PrefixInv, Typed, Progress, MatchNext
<1>1. /\ Input(r) \in Nat \ {0} /\ setup.threshold \in Nat
      /\ IsPrefill(r) <=> computed[r] < Input(r)
    BY <1>0, SetupAssumption DEF Input, IsPrefill
<1>2. /\ Ready(r) \in Nat /\ Ready(r) <= Input(r) + generated[r] /\ Ready(r) >= computed[r]
      /\ IsPrefill(r) => Ready(r) <= Input(r)
  <2> DEFINE found == Block * Cardinality(Up(HitNode(r)))
  <2>1. found \in Nat /\ found <= Input(r)
      BY <1>0, HitFacts
  <2>2. Ready(r) = IF computed[r] = 0 THEN found ELSE computed[r]
      BY DEF Ready, Fresh
  <2> HIDE DEF found
  <2> QED
      BY <1>0, <1>1, <2>1, <2>2
<1>3. CASE ~IsPrefill(r)
  <2>1. Wanted(r) = 1
      BY <1>3 DEF Wanted
  <2> QED
      BY <1>0, <1>1, <1>2, <1>3, <2>1
<1>4. CASE IsPrefill(r) /\ ~setup.chunked
  <2>1. Wanted(r) = IF left >= 1 THEN left ELSE 1
      BY <1>4 DEF Wanted, Larger
  <2> QED
      BY <1>0, <1>1, <1>2, <1>4, <2>1
<1>5. CASE IsPrefill(r) /\ setup.chunked
  <2> DEFINE cut == IF 0 < setup.threshold THEN Smaller(setup.threshold, left) ELSE left
  <2>1. Wanted(r) = IF cut <= room THEN cut ELSE room
      BY <1>5 DEF Wanted, Smaller
  <2>2. cut \in Nat /\ cut <= left /\ (cut = 0 => left = 0)
      BY <1>1, <1>2, <1>5 DEF Smaller
  <2> HIDE DEF cut
  <2> QED
      BY <1>0, <1>1, <1>2, <1>5, <2>1, <2>2
<1> QED
    BY <1>3, <1>4, <1>5

LEMMA MatchKeeps ==
    ASSUME PrefixInv, NEW r \in Req, MatchNext(r)
    PROVE  PrefixInv'
<1> DEFINE grant == Wanted(r)
<1>1. /\ phase = "match" /\ r \in todo
      /\ computed' = [computed EXCEPT ![r] = Ready(r)]
      /\ lastNode' = [lastNode EXCEPT ![r] = IF Fresh(r) THEN HitNode(r) ELSE @]
      /\ chunk' = [chunk EXCEPT ![r] = IF IsPrefill(r) /\ grant > 0 THEN grant ELSE @]
      /\ batch' = IF 0 < grant /\ grant <= room THEN Append(batch, r) ELSE batch
      /\ room' = room - grant
      /\ todo' = IF grant = 0 THEN {} ELSE todo \ {r}
      /\ UNCHANGED <<setup, request, inflight, done, generated, locked, phase>>
    BY DEF MatchNext
<1>2. /\ Ready(r) \in Nat /\ grant \in Nat /\ room \in Int
      /\ Ready(r) <= Input(r) + generated[r] /\ Ready(r) >= computed[r]
      /\ IsPrefill(r) /\ grant > 0 /\ Ready(r) < Input(r) => grant <= Input(r) - Ready(r)
      /\ IsPrefill(r) /\ grant = 0 => Ready(r) >= Input(r)
      /\ ~IsPrefill(r) => Ready(r) >= Input(r)
    BY MatchGrant
<1> HIDE DEF grant
<1>3. /\ setup \in Setups /\ request \in SUBSET Req /\ batch \in Seq(Req) /\ todo \in SUBSET Req
      /\ computed \in [Req -> Nat] /\ chunk \in [Req -> Nat] /\ generated \in [Req -> Nat]
      /\ lastNode \in [Req -> DOMAIN tree \cup {Root, None, Gone}]
    BY DEF PrefixInv, Typed
<1>4. /\ Once(batch) /\ todo \subseteq request /\ todo \cap Range(batch) = {}
      /\ Range(batch) \subseteq request /\ request \cap Running = {}
    BY <1>1 DEF PrefixInv, Places
<1>5. Running' = Running /\ Working = Running /\ Working' = Running
    BY <1>1 DEF Running, Working
<1>6. TreeOK(tree') /\ DOMAIN tree \subseteq DOMAIN tree' /\ CountersExact'
      /\ (Fresh(r) => HitNode(r) \in DOMAIN tree' \cup {Root})
    BY MatchTree
<1>7. NoLockMissing'
    BY MatchLocks
<1>8. batch' \in Seq(Req) /\ Once(batch') /\ Range(batch') \subseteq Range(batch) \cup {r}
      /\ (r \in Range(batch') => grant > 0)
  <2>1. CASE 0 < grant /\ grant <= room
    <3>1. batch' = Append(batch, r) /\ r \notin Range(batch)
        BY <1>1, <1>4, <2>1
    <3>2. /\ Append(batch, r) \in Seq(Req)
          /\ Range(Append(batch, r)) = Range(batch) \cup {r}
          /\ Once(Append(batch, r))
        BY <1>3, <1>4, <3>1, JoinSeq
    <3> QED
        BY <2>1, <3>1, <3>2
  <2>2. CASE ~(0 < grant /\ grant <= room)
    <3>1. batch' = batch /\ r \notin Range(batch)
        BY <1>1, <1>4, <2>2
    <3> QED
        BY <1>3, <1>4, <3>1
  <2> QED
      BY <2>1, <2>2
<1>9. lastNode' \in [Req -> DOMAIN tree' \cup {Root, None, Gone}]
    BY <1>1, <1>3, <1>6
<1>10. Typed'
  <2>1. computed' \in [Req -> Nat] /\ chunk' \in [Req -> Nat] /\ room' \in Int
      BY <1>1, <1>2, <1>3
  <2>2. todo' \in SUBSET Req
      BY <1>1, <1>3
  <2> QED
      BY <1>1, <1>6, <1>8, <1>9, <2>1, <2>2 DEF PrefixInv, Typed
<1>11. Places'
  <2>1. todo' \subseteq request /\ todo' \cap Range(batch') = {}
      BY <1>1, <1>4, <1>8
  <2>2. Range(batch') \subseteq request
      BY <1>1, <1>4, <1>8
  <2> QED
      BY <1>1, <1>5, <1>8, <2>1, <2>2 DEF PrefixInv, Places
<1>12. Progress'
  <2> SUFFICES ASSUME NEW q \in Req
               PROVE  /\ computed'[q] <= Input(q) + generated[q]
                      /\ generated[q] <= Output(q) /\ (generated[q] = Output(q) <=> q \in done)
                      /\ computed'[q] < Input(q) => chunk'[q] <= Input(q) - computed'[q]
                      /\ computed'[q] < Input(q) /\ q \in Running \cup Range(batch') => chunk'[q] > 0
                      /\ locked[q] /\ computed'[q] = 0 => q \in Running
      BY <1>1, <1>5 DEF Progress, IsPrefill, Input, Output
  <2>0. /\ computed[q] <= Input(q) + generated[q]
        /\ generated[q] <= Output(q) /\ (generated[q] = Output(q) <=> q \in done)
        /\ computed[q] < Input(q) => chunk[q] <= Input(q) - computed[q]
        /\ computed[q] < Input(q) /\ q \in Running \cup Range(batch) => chunk[q] > 0
        /\ locked[q] /\ computed[q] = 0 => q \in Running
      BY <1>5 DEF PrefixInv, Progress, IsPrefill
  <2>1. CASE q # r
    <3>1. computed'[q] = computed[q] /\ chunk'[q] = chunk[q]
        BY <1>1, <1>3, <2>1
    <3>2. q \in Range(batch') => q \in Range(batch)
        BY <1>8, <2>1
    <3> QED
        BY <2>0, <3>1, <3>2
  <2>2. CASE q = r
    <3>1. /\ computed'[r] = Ready(r)
          /\ chunk'[r] = IF IsPrefill(r) /\ grant > 0 THEN grant ELSE chunk[r]
        BY <1>1, <1>3
    <3>2. r \notin Running /\ computed[r] \in Nat
        BY <1>1, <1>3, <1>4
    <3>3. computed'[r] <= Input(r) + generated[r]
        BY <1>2, <3>1
    <3>4. computed'[r] < Input(r) => IsPrefill(r) /\ grant > 0 /\ chunk'[r] = grant
        BY <1>2, <3>1, SetupAssumption, <1>3 DEF Input
    <3>5. computed'[r] < Input(r) => chunk'[r] <= Input(r) - computed'[r] /\ chunk'[r] > 0
        BY <1>2, <3>1, <3>4
    <3>6. locked[r] /\ computed'[r] = 0 => r \in Running
        BY <1>2, <2>0, <2>2, <3>1, <3>2
    <3> QED
        BY <2>0, <2>2, <3>3, <3>5, <3>6
  <2> QED
      BY <2>1, <2>2
<1> QED
    BY <1>6, <1>7, <1>10, <1>11, <1>12 DEF PrefixInv

LEMMA KeepKeeps ==
    ASSUME PrefixInv, Keep
    PROVE  PrefixInv'
<1>1. PICK fit \in 0..Len(batch) : KeepsFirst(fit)
    BY KeepCases
<1>2. /\ Gone \notin {lastNode[r] : r \in Joining} /\ phase = "match" /\ todo' = {}
      /\ UNCHANGED <<setup, request, inflight, done, computed, chunk, generated>>
    BY KeepCases
<1> DEFINE O == LeftOut(fit)
           J == Joining
           upto == {batch[j] : j \in 1..fit}
<1>3. /\ lastNode' = [r \in Req |-> IF r \in O THEN None ELSE lastNode[r]]
      /\ locked' = [r \in Req |-> (locked[r] \/ r \in J) /\ r \notin O]
      /\ batch' = SubSeq(batch, 1, fit)
      /\ phase' = IF fit = 0 THEN "run" ELSE "evict"
    BY <1>1 DEF KeepsFirst
<1>4. /\ TreeOK(tree') /\ DOMAIN tree' = DOMAIN tree /\ CountersExact'
    BY <1>1, <1>2, KeepTree
<1>5. NoLockMissing'
    BY <1>1, <1>2, KeepLocks
<1>6. /\ batch \in Seq(Req) /\ Once(batch) /\ Range(batch) \subseteq request /\ request \cap Running = {}
    BY <1>2 DEF PrefixInv, Typed, Places
<1>7. /\ batch' \in Seq(Req) /\ Range(batch') = upto /\ upto \subseteq Range(batch) /\ Once(batch')
      /\ (batch' = <<>> <=> fit = 0)
    BY <1>3, <1>6, FirstOfSeq
<1>8. Running' = Running /\ Working = Running
    BY <1>2 DEF Running, Working
<1>9. \A r \in J : r \in Range(batch) /\ IsPrefill(r)
    BY DEF Joining
<1>10. \A r \in Range(batch) : r \notin upto /\ r \in J => r \in O
    BY <1>9 DEF LeftOut
<1>11. fit = 0 => upto = {}
    OBVIOUS
<1> HIDE DEF O, J, upto
<1>12. Typed'
  <2>1. locked' \in [Req -> BOOLEAN]
      BY <1>3
  <2>2. lastNode' \in [Req -> DOMAIN tree' \cup {Root, None, Gone}]
      BY <1>3, <1>4 DEF PrefixInv, Typed
  <2>3. phase' \in {"run", "evict"}
      BY <1>3
  <2> QED
      BY <1>2, <1>4, <1>7, <2>1, <2>2, <2>3 DEF PrefixInv, Typed
<1>13. Places'
  <2>1. phase' = "run" \/ phase' = "evict"
      BY <1>3
  <2>2. phase' = "run" <=> batch' = <<>>
      BY <1>3, <1>7
  <2> QED
      BY <1>2, <1>6, <1>7, <1>8, <2>1, <2>2 DEF PrefixInv, Places
<1>14. Progress'
  <2>1. \A r \in Req : locked'[r] /\ computed[r] = 0 => r \in Working'
    <3> SUFFICES ASSUME NEW r \in Req, locked'[r], computed[r] = 0
                 PROVE  r \in Working'
        OBVIOUS
    <3>1. (locked[r] \/ r \in J) /\ r \notin O
        BY <1>3
    <3>2. CASE locked[r]
        BY <1>8, <3>2 DEF PrefixInv, Progress, Working
    <3>3. CASE r \in J
      <4>1. r \in upto
          BY <1>9, <1>10, <3>1, <3>3
      <4>2. phase' = "evict"
          BY <1>3, <1>11, <4>1
      <4> QED
          BY <1>7, <4>1, <4>2 DEF Working
    <3> QED
        BY <3>1, <3>2, <3>3
  <2>2. \A r \in Running \cup Range(batch') : r \in Running \cup Range(batch)
      BY <1>7
  <2> QED
      BY <1>2, <1>8, <2>1, <2>2 DEF PrefixInv, Progress, Input, Output, IsPrefill
<1> QED
    BY <1>4, <1>5, <1>12, <1>13, <1>14 DEF PrefixInv

LEMMA EvictKeeps ==
    ASSUME PrefixInv, NEW n, EvictLeaf(n)
    PROVE  PrefixInv'
<1>1. /\ lastNode' = [r \in Req |-> IF lastNode[r] = n THEN Gone ELSE lastNode[r]]
      /\ phase = "evict"
      /\ UNCHANGED <<setup, request, inflight, done, computed, chunk, generated, locked, phase,
                     todo, batch>>
    BY DEF EvictLeaf
<1>2. TreeOK(tree') /\ DOMAIN tree' = DOMAIN tree \ {n} /\ CountersExact'
    BY EvictTree
<1>3. NoLockMissing'
    BY EvictLocks
<1>4. Running' = Running /\ Working' = Working
    BY <1>1 DEF Running, Working
<1>5. Typed'
  <2>1. lastNode' \in [Req -> DOMAIN tree' \cup {Root, None, Gone}]
      BY <1>1, <1>2 DEF PrefixInv, Typed
  <2> QED
      BY <1>1, <1>2, <2>1 DEF PrefixInv, Typed
<1>6. Places'
    BY <1>1, <1>4 DEF PrefixInv, Places
<1>7. Progress'
    BY <1>1, <1>4 DEF PrefixInv, Progress, Input, Output, IsPrefill
<1> QED
    BY <1>2, <1>3, <1>5, <1>6, <1>7 DEF PrefixInv

LEMMA DispatchKeeps ==
    ASSUME PrefixInv, Dispatch
    PROVE  PrefixInv'
<1>1. /\ phase = "evict" /\ phase' = "run" /\ batch' = <<>>
      /\ request' = request \ Range(batch) /\ inflight' = Append(inflight, batch)
      /\ UNCHANGED <<setup, done, computed, chunk, generated, locked, todo>>
    BY DEF Dispatch
<1>2. /\ Reloaded \in SUBSET Req /\ lastNode' = Reload
      /\ TreeOK(tree') /\ DOMAIN tree \subseteq DOMAIN tree' /\ CountersExact'
      /\ \A r \in Reloaded : Reload[r] \in DOMAIN tree' \cup {Root}
    BY DispatchTree
<1>3. NoLockMissing'
    BY DispatchLocks
<1>4. /\ inflight \in Seq(Seq(Req)) /\ batch \in Seq(Req)
      /\ Orderly(inflight) /\ Once(batch) /\ batch # <<>> /\ Range(batch) \subseteq request
      /\ request \cap Running = {} /\ request \cap done = {} /\ Running \cap done = {}
    BY <1>1 DEF PrefixInv, Typed, Places
<1>5. /\ Running = Members(inflight) /\ Running' = Members(inflight')
      /\ Working = Running \cup Range(batch)
    BY <1>1 DEF Running, Members, Working
<1>6. Range(batch) \cap Members(inflight) = {}
    BY <1>4, <1>5
<1>7. /\ inflight' \in Seq(Seq(Req)) /\ Orderly(inflight')
      /\ Running' = Running \cup Range(batch)
  <2>1. LET g == Append(inflight, batch)
        IN  g \in Seq(Seq(Req)) /\ Orderly(g) /\ Members(g) = Members(inflight) \cup Range(batch)
      BY <1>4, <1>6, BatchSent
  <2> QED
      BY <1>1, <1>5, <2>1
<1>8. Range(batch') = {} /\ batch' \in Seq(Req) /\ Once(batch')
    BY <1>1 DEF Range, Once
<1>9. Typed'
  <2>1. lastNode' \in [Req -> DOMAIN tree' \cup {Root, None, Gone}]
    <3>1. \A r \in Req : Reload[r] \in DOMAIN tree' \cup {Root, None, Gone}
      <4>1. ASSUME NEW r \in Req
            PROVE  Reload[r] \in DOMAIN tree' \cup {Root, None, Gone}
        <5>1. lastNode[r] \in DOMAIN tree \cup {Root, None, Gone}
            BY DEF PrefixInv, Typed
        <5>2. r \notin Reloaded => Reload[r] = lastNode[r]
            BY DEF Reload
        <5> QED
            BY <1>2, <5>1, <5>2
      <4> QED
          BY <4>1
    <3>2. Reload \in [Req -> {Reload[r] : r \in Req}]
        BY DEF Reload
    <3> QED
        BY <1>2, <3>1, <3>2
  <2>2. request' \in SUBSET Req
      BY <1>1 DEF PrefixInv, Typed
  <2> QED
      BY <1>1, <1>2, <1>7, <1>8, <2>1, <2>2 DEF PrefixInv, Typed
<1>10. Places'
    BY <1>1, <1>4, <1>7, <1>8 DEF Places
<1>11. Progress'
  <2>1. Working' = Working
      BY <1>1, <1>5, <1>7 DEF Working
  <2>2. \A r : r \in Running' \cup Range(batch') => r \in Running \cup Range(batch)
      BY <1>7, <1>8
  <2> QED
      BY <1>1, <2>1, <2>2 DEF PrefixInv, Progress, Input, Output, IsPrefill
<1> QED
    BY <1>2, <1>3, <1>9, <1>10, <1>11 DEF PrefixInv

LEMMA AddDoneKeeps ==
    ASSUME PrefixInv, AddDone
    PROVE  PrefixInv'
<1>1. /\ phase = "run" /\ phase' = "close" /\ inflight # <<>>
      /\ batch' = Head(inflight) /\ inflight' = Tail(inflight)
      /\ UNCHANGED <<setup, tree, evictable, protected, npuUsed, request, done, computed, chunk,
                     generated, lastNode, locked, todo>>
    BY DEF AddDone, treeVars, reqVars
<1>2. NoLockMissing' /\ CountersExact' /\ TreeOK(tree')
    BY <1>1, TreeFrame
<1>3. /\ inflight \in Seq(Seq(Req)) /\ Orderly(inflight)
      /\ request \cap Running = {} /\ request \cap done = {} /\ Running \cap done = {}
    BY DEF PrefixInv, Typed, Places
<1>4. LET b == Head(inflight)
      IN  /\ b \in Seq(Req) /\ b # <<>> /\ Once(b)
          /\ Tail(inflight) \in Seq(Seq(Req)) /\ Orderly(Tail(inflight))
          /\ Members(inflight) = Range(b) \cup Members(Tail(inflight))
          /\ Range(b) \cap Members(Tail(inflight)) = {}
    BY <1>1, <1>3, BatchBack
<1>5. /\ batch' \in Seq(Req) /\ batch' # <<>> /\ Once(batch')
      /\ inflight' \in Seq(Seq(Req)) /\ Orderly(inflight')
      /\ Running = Range(batch') \cup Running' /\ Range(batch') \cap Running' = {}
  <2>1. Running = Members(inflight) /\ Running' = Members(inflight')
      BY DEF Running, Members
  <2> QED
      BY <1>1, <1>4, <2>1
<1>6. Typed'
    BY <1>1, <1>2, <1>5 DEF PrefixInv, Typed
<1>7. Places'
    BY <1>1, <1>3, <1>5 DEF Places
<1>8. Progress'
  <2>1. Working' = Working
      BY <1>1, <1>5 DEF Working
  <2>2. \A r : r \in Running' \cup Range(batch') => r \in Running \cup Range(batch)
      BY <1>5
  <2> QED
      BY <1>1, <2>1, <2>2 DEF PrefixInv, Progress, Input, Output, IsPrefill
<1> QED
    BY <1>2, <1>6, <1>7, <1>8 DEF PrefixInv

\* The request whose step ends is nowhere else.
LEMMA ClosePlace ==
    ASSUME PrefixInv, NEW r \in Req, Close(r)
    PROVE  /\ r = Head(batch) /\ r \notin request \cup Running \cup done
           /\ Range(batch) = {r} \cup Range(Tail(batch)) /\ r \notin Range(Tail(batch))
           /\ Tail(batch) \in Seq(Req) /\ Once(Tail(batch))
           /\ Range(batch) \cap (request \cup Running \cup done) = {}
<1>1. /\ phase = "close" /\ r = Head(batch)
    BY DEF Close
<1>2. /\ batch \in Seq(Req) /\ batch # <<>> /\ Once(batch)
      /\ Range(batch) \cap (request \cup Running \cup done) = {}
    BY <1>1 DEF PrefixInv, Typed, Places
<1>3. /\ Head(batch) \in Range(batch) /\ Range(batch) = {Head(batch)} \cup Range(Tail(batch))
      /\ Tail(batch) \in Seq(Req) /\ Once(Tail(batch)) /\ Head(batch) \notin Range(Tail(batch))
    BY <1>2, LeaveSeq
<1> QED
    BY <1>1, <1>2, <1>3

LEMMA CloseKeeps ==
    ASSUME PrefixInv, NEW r \in Req, Close(r)
    PROVE  PrefixInv'
<1>1. /\ r = Head(batch) /\ r \notin request \cup Running \cup done
      /\ Range(batch) = {r} \cup Range(Tail(batch)) /\ r \notin Range(Tail(batch))
      /\ Tail(batch) \in Seq(Req) /\ Once(Tail(batch))
      /\ Range(batch) \cap (request \cup Running \cup done) = {}
    BY ClosePlace
<1>2. /\ phase = "close"
      /\ computed' = [computed EXCEPT ![r] = After(r)]
      /\ chunk' = [chunk EXCEPT ![r] = IF IsPrefill(r) THEN 0 ELSE @]
      /\ generated' = [generated EXCEPT ![r] = IF Emits(r) THEN @ + 1 ELSE @]
      /\ lastNode' = [lastNode EXCEPT ![r] = IF Finishes(r) THEN None ELSE Result(r)]
      /\ locked' = [locked EXCEPT ![r] = ~Finishes(r)]
      /\ request' = IF Finishes(r) THEN request ELSE request \cup {r}
      /\ done' = IF Finishes(r) THEN done \cup {r} ELSE done
      /\ batch' = Tail(batch)
      /\ phase' = IF Tail(batch) = <<>> THEN "run" ELSE "close"
      /\ UNCHANGED <<setup, inflight, todo>>
    BY DEF Close
<1>3. /\ TreeOK(tree') /\ DOMAIN tree \subseteq DOMAIN tree' /\ CountersExact'
      /\ Result(r) \in DOMAIN tree' \cup {Root}
    BY <1>1, CloseTree
<1>4. NoLockMissing'
    BY <1>1, CloseLocks
<1>5. /\ After(r) \in Nat /\ Input(r) \in Nat \ {0} /\ Output(r) \in Nat \ {0}
      /\ After(r) <= Input(r) + generated[r] + (IF Emits(r) THEN 1 ELSE 0)
      /\ generated[r] + 1 <= Output(r)
      /\ Finishes(r) <=> Emits(r) /\ generated[r] + 1 = Output(r)
      /\ r \in Range(batch) => After(r) > 0
    BY <1>1, AfterFacts
<1>6. /\ computed \in [Req -> Nat] /\ chunk \in [Req -> Nat] /\ generated \in [Req -> Nat]
      /\ locked \in [Req -> BOOLEAN]
      /\ lastNode \in [Req -> DOMAIN tree \cup {Root, None, Gone}]
    BY DEF PrefixInv, Typed
<1>7. Running' = Running /\ Working = Running \cup Range(batch)
    BY <1>2 DEF Running, Working
<1>8. Typed'
  <2>1. computed' \in [Req -> Nat] /\ chunk' \in [Req -> Nat] /\ generated' \in [Req -> Nat]
      BY <1>2, <1>5, <1>6
  <2>2. locked' \in [Req -> BOOLEAN]
      BY <1>2, <1>6
  <2>3. lastNode' \in [Req -> DOMAIN tree' \cup {Root, None, Gone}]
      BY <1>2, <1>3, <1>6
  <2>4. /\ request' \in SUBSET Req /\ done' \in SUBSET Req
        /\ phase' \in {"run", "close"}
      BY <1>2 DEF PrefixInv, Typed
  <2> QED
      BY <1>1, <1>2, <1>3, <2>1, <2>2, <2>3, <2>4 DEF PrefixInv, Typed
<1>9. Places'
  <2>1. request \cap Running = {} /\ request \cap done = {} /\ Running \cap done = {} /\ Orderly(inflight)
      BY DEF PrefixInv, Places
  <2>2. (phase' = "run" /\ batch' = <<>>) \/ (phase' = "close" /\ batch' # <<>>)
    <3>1. CASE Tail(batch) = <<>>
        BY <1>2, <3>1
    <3>2. CASE Tail(batch) # <<>>
        BY <1>2, <3>2
    <3> QED
        BY <3>1, <3>2
  <2>3. /\ request' \cap Running' = {} /\ request' \cap done' = {} /\ Running' \cap done' = {}
      BY <1>1, <1>2, <1>7, <2>1
  <2>4. Range(batch') \cap (request' \cup Running' \cup done') = {}
      BY <1>1, <1>2, <1>7
  <2> QED
      BY <1>1, <1>2, <2>1, <2>2, <2>3, <2>4 DEF Places
<1>10. Progress'
  <2> SUFFICES ASSUME NEW q \in Req
               PROVE  /\ computed'[q] <= Input(q) + generated'[q]
                      /\ generated'[q] <= Output(q) /\ (generated'[q] = Output(q) <=> q \in done')
                      /\ computed'[q] < Input(q) => chunk'[q] <= Input(q) - computed'[q]
                      /\ computed'[q] < Input(q) /\ q \in Running' \cup Range(batch') => chunk'[q] > 0
                      /\ locked'[q] /\ computed'[q] = 0 => q \in Working'
      BY <1>2 DEF Progress, IsPrefill, Input, Output
  <2>1. CASE q # r
    <3>1. /\ computed'[q] = computed[q] /\ chunk'[q] = chunk[q] /\ generated'[q] = generated[q]
          /\ locked'[q] = locked[q] /\ (q \in done' <=> q \in done)
        BY <1>2, <1>6, <2>1
    <3>2. q \in Running' \cup Range(batch') <=> q \in Running \cup Range(batch)
        BY <1>1, <1>2, <1>7, <2>1
    <3>3. Working' = Running' \cup Range(batch')
      <4>1. CASE batch' = <<>>
        <5>1. Range(batch') = {}
            BY <4>1 DEF Range
        <5> QED
            BY <1>2, <4>1, <5>1 DEF Working
      <4>2. CASE batch' # <<>>
          BY <1>2, <4>2 DEF Working
      <4> QED
          BY <4>1, <4>2
    <3>4. q \in Working' <=> q \in Working
        BY <1>7, <3>2, <3>3
    <3> QED
        BY <3>1, <3>2, <3>4 DEF PrefixInv, Progress, IsPrefill
  <2>2. CASE q = r
    <3>1. /\ computed'[r] = After(r) /\ chunk'[r] = IF IsPrefill(r) THEN 0 ELSE chunk[r]
          /\ generated'[r] = IF Emits(r) THEN generated[r] + 1 ELSE generated[r]
          /\ generated[r] \in Nat /\ computed[r] \in Nat /\ chunk[r] \in Nat
        BY <1>2, <1>6
    <3>2. r \in done' <=> Finishes(r)
        BY <1>1, <1>2
    <3>3. r \notin Running' \cup Range(batch') /\ computed'[r] > 0
        BY <1>1, <1>2, <1>5, <1>7, <3>1
    <3>4. computed'[r] <= Input(r) + generated'[r]
        BY <1>5, <3>1
    <3>5. generated'[r] <= Output(r) /\ (generated'[r] = Output(r) <=> r \in done')
        BY <1>5, <3>1, <3>2
    <3>6. computed'[r] < Input(r) => chunk'[r] <= Input(r) - computed'[r]
      <4>1. CASE IsPrefill(r)
          BY <1>5, <3>1, <4>1
      <4>2. CASE ~IsPrefill(r)
        <5>1. After(r) = computed[r] + 1 /\ computed[r] >= Input(r)
            BY <1>5, <3>1, <4>2 DEF After, IsPrefill
        <5> QED
            BY <1>5, <3>1, <5>1
      <4> QED
          BY <4>1, <4>2
    <3> QED
        BY <2>2, <3>3, <3>4, <3>5, <3>6
  <2> QED
      BY <2>1, <2>2
<1> QED
    BY <1>3, <1>4, <1>8, <1>9, <1>10 DEF PrefixInv

-----------------------------------------------------------------------------
(* The theorems.                                                           *)

LEMMA StutterKeeps ==
    ASSUME PrefixInv, UNCHANGED vars
    PROVE  PrefixInv'
<1>1. UNCHANGED <<setup, tree, evictable, protected, npuUsed, request, inflight, done, computed, chunk,
                  generated, lastNode, locked, phase, todo, batch, room>>
    BY DEF vars, treeVars, reqVars, callVars
<1>2. NoLockMissing' /\ CountersExact' /\ TreeOK(tree')
    BY <1>1, TreeFrame
<1>3. Running' = Running /\ Working' = Working
    BY <1>1 DEF Running, Working
<1>4. Typed'
    BY <1>1, <1>2 DEF PrefixInv, Typed
<1>5. Places'
    BY <1>1, <1>3 DEF PrefixInv, Places
<1>6. Progress'
    BY <1>1, <1>3 DEF PrefixInv, Progress, Input, Output, IsPrefill
<1> QED
    BY <1>2, <1>4, <1>5, <1>6 DEF PrefixInv

LEMMA StepKeeps == PrefixInv /\ [Next]_vars => PrefixInv'
<1> SUFFICES ASSUME PrefixInv, [Next]_vars PROVE PrefixInv'
    OBVIOUS
<1>1. ASSUME NEW r \in Req, Arrive(r) PROVE PrefixInv'
    BY <1>1, ArriveKeeps
<1>2. CASE Begin
    BY <1>2, BeginKeeps
<1>3. CASE Keep
    BY <1>3, KeepKeeps
<1>4. CASE Dispatch
    BY <1>4, DispatchKeeps
<1>5. CASE AddDone
    BY <1>5, AddDoneKeeps
<1>6. ASSUME NEW n \in Page, EvictLeaf(n) PROVE PrefixInv'
    BY <1>6, EvictKeeps
<1>7. ASSUME NEW r \in Req, MatchNext(r) PROVE PrefixInv'
    BY <1>7, MatchKeeps
<1>8. ASSUME NEW r \in Req, Close(r) PROVE PrefixInv'
    BY <1>8, CloseKeeps
<1>9. CASE UNCHANGED vars
    BY <1>9, StutterKeeps
<1> QED
    BY <1>1, <1>2, <1>3, <1>4, <1>5, <1>6, <1>7, <1>8, <1>9 DEF Next, Serve

\* Requests, batches, locks and counters keep to the invariant, whatever is
\* split, grown, locked, evicted and reloaded in between.
THEOREM PrefixInvariant == Spec => []PrefixInv
<1>1. Init => PrefixInv
    BY InitHolds
<1>2. PrefixInv /\ [Next]_vars => PrefixInv'
    BY StepKeeps
<1> QED
    BY <1>1, <1>2, PTL DEF Spec

\* The counters admission reads are those of the tree: no order of splits,
\* insertions, locks and evictions makes them drift, and none goes over the
\* memory of the instance.
THEOREM BooksAlwaysExact == Spec => []BooksExact
<1>1. PrefixInv => BooksExact
    BY DEF PrefixInv, CountersExact, Books, FreeNodes, LockedNodes, BooksExact
<1> QED
    BY <1>1, PrefixInvariant, PTL

\* No lock is ever missing: a node is locked at least once for every request
\* that holds it or a node below it, so evict cannot take the KV of one.
HoldersCovered ==
    \A n \in DOMAIN tree :
        tree[n] >= Cardinality({r \in Req : locked[r] /\ n \in Up(lastNode[r])})

THEOREM HoldersNeverEvicted == Spec => []HoldersCovered
<1>1. PrefixInv => HoldersCovered
  <2> SUFFICES ASSUME PrefixInv, NEW n \in DOMAIN tree
               PROVE  tree[n] >= Cardinality(Holding(n))
      BY DEF HoldersCovered, Holding
  <2>1. TreeOK(tree) /\ n \in Page /\ EdgeLock(tree, n) = tree[n]
      BY LockOfNode DEF PrefixInv, Typed, TreeOK
  <2>2. Spare(n) >= 0 /\ Spare(n) = tree[n] - Cardinality(Holding(n))
      BY <2>1 DEF PrefixInv, NoLockMissing, Spare
  <2>3. tree[n] \in Nat /\ Cardinality(Holding(n)) \in Nat
      BY <2>1, SpareType
  <2> QED
      BY <2>2, <2>3
<1> QED
    BY <1>1, PrefixInvariant, PTL

-----------------------------------------------------------------------------
(* Without marked decodes.                                                 *)

\* schedule has marked no decode for a reload: the reload takes a lock that
\* nothing gives back, and moves the request to the node of its prompt.
NoneMarked == \A r \in Req : ~evict[r]

NoSpare == \A p \in Page : Spare(p) = 0

LEMMA MarkedFacts ==
    ASSUME PrefixInv, NoneMarked
    PROVE  Reloaded = {} /\ Reload = lastNode
<1>1. Range(batch) \in SUBSET Req
    BY DEF PrefixInv, Typed, Range
<1>2. Reloaded = {}
    BY <1>1 DEF Reloaded, NoneMarked
<1>3. lastNode = [r \in Req |-> lastNode[r]]
    BY DEF PrefixInv, Typed
<1> QED
    BY <1>2, <1>3 DEF Reload

\* Who changes what a page is locked beyond its holders.
OnlyReloads == (Dispatch /\ Reloaded # {}) \/ \A p \in Page : Spare(p)' = Spare(p)

LEMMA StepSpare == PrefixInv /\ [Next]_vars => OnlyReloads
<1> SUFFICES ASSUME PrefixInv, [Next]_vars PROVE OnlyReloads
    OBVIOUS
<1> USE DEF OnlyReloads
<1>1. CASE UNCHANGED <<setup, tree, evictable, protected, npuUsed, locked, lastNode>>
    BY <1>1, TreeFrame
<1>2. ASSUME NEW r \in Req, Arrive(r) PROVE OnlyReloads
    BY <1>1, <1>2 DEF Arrive, treeVars, reqVars
<1>3. CASE Begin \/ AddDone
    BY <1>1, <1>3 DEF Begin, AddDone, treeVars, reqVars
<1>4. CASE Keep
    BY <1>4, KeepCases, KeepLocks
<1>5. CASE Dispatch
    BY <1>5, DispatchLocks
<1>6. ASSUME NEW n \in Page, EvictLeaf(n) PROVE OnlyReloads
    BY <1>6, EvictLocks
<1>7. ASSUME NEW r \in Req, MatchNext(r) PROVE OnlyReloads
    BY <1>7, MatchLocks
<1>8. ASSUME NEW r \in Req, Close(r) PROVE OnlyReloads
    BY <1>8, ClosePlace, CloseLocks
<1>9. CASE UNCHANGED vars
    BY <1>1, <1>9 DEF vars, treeVars, reqVars
<1> QED
    BY <1>2, <1>3, <1>4, <1>5, <1>6, <1>7, <1>8, <1>9 DEF Next, Serve

\* A lock that nobody gives back comes from the reload of a marked decode
\* and from nothing else.
THEOREM OnlyReloadsLeak == Spec => [][OnlyReloads]_vars
<1>1. PrefixInv /\ [Next]_vars => OnlyReloads
    BY StepSpare
<1> QED
    BY <1>1, PrefixInvariant, PTL DEF Spec

LEMMA StepNoSpare == PrefixInv /\ NoneMarked /\ NoSpare /\ [Next]_vars => NoSpare'
<1> SUFFICES ASSUME PrefixInv, NoneMarked, NoSpare, [Next]_vars PROVE NoSpare'
    OBVIOUS
<1>1. \A p \in Page : Spare(p)' = Spare(p)
    BY StepSpare, MarkedFacts DEF OnlyReloads
<1> QED
    BY <1>1 DEF NoSpare

\* As long as no decode is reloaded, the locks of every node are exactly
\* those of its holders: none is left that nobody gives back.
THEOREM LocksAlwaysMatch == Spec /\ []NoneMarked => []LocksMatchHolders
<1>1. Init => NoSpare
  <2> SUFFICES ASSUME Init, NEW p \in Page PROVE Spare(p) = 0
      BY DEF NoSpare
  <2>1. DOMAIN tree = {} /\ locked = [r \in Req |-> FALSE]
      BY DEF Init
  <2>2. p \notin Cached(tree)
      BY <2>1 DEF Cached
  <2>3. Holding(p) = {}
      BY <2>1 DEF Holding
  <2>4. EdgeLock(tree, p) = 0 /\ Cardinality(Holding(p)) = 0
      BY <2>2, <2>3, NoLockOutside, FS_EmptySet
  <2> QED
      BY <2>4 DEF Spare
<1>2. PrefixInv /\ NoneMarked /\ NoSpare /\ [Next]_vars => NoSpare'
    BY StepNoSpare
<1>3. PrefixInv /\ NoSpare => LocksMatchHolders
  <2> SUFFICES ASSUME PrefixInv, NoSpare, NEW n \in DOMAIN tree
               PROVE  tree[n] = Cardinality(Holding(n))
      BY DEF LocksMatchHolders, Holding
  <2>1. TreeOK(tree) /\ n \in Page /\ EdgeLock(tree, n) = tree[n]
      BY LockOfNode DEF PrefixInv, Typed, TreeOK
  <2>2. tree[n] - Cardinality(Holding(n)) = 0
      BY <2>1 DEF NoSpare, Spare
  <2>3. tree[n] \in Nat /\ Cardinality(Holding(n)) \in Nat
      BY <2>1, SpareType
  <2> QED
      BY <2>2, <2>3
<1> QED
    BY <1>1, <1>2, <1>3, PrefixInvariant, PTL DEF Spec

\* The node of a request is that of the prefix it has computed.
OnKey == \A r \in Req : lastNode[r] \in {None, Gone, Key(r, computed[r])}

LEMMA StepOnKey == PrefixInv /\ NoneMarked /\ OnKey /\ [Next]_vars => OnKey'
<1> SUFFICES ASSUME PrefixInv, NoneMarked, OnKey, [Next]_vars PROVE OnKey'
    OBVIOUS
<1>0. /\ setup \in Setups /\ TreeOK(tree)
      /\ computed \in [Req -> Nat] /\ lastNode \in [Req -> DOMAIN tree \cup {Root, None, Gone}]
    BY DEF PrefixInv, Typed
<1>1. CASE UNCHANGED <<setup, computed>> /\ \A r \in Req : lastNode'[r] \in {lastNode[r], None, Gone}
    BY <1>1 DEF OnKey, Key
<1>2. ASSUME NEW r \in Req, Arrive(r) PROVE OnKey'
    BY <1>1, <1>2 DEF Arrive, reqVars
<1>3. CASE Begin \/ AddDone
    BY <1>1, <1>3 DEF Begin, AddDone, reqVars
<1>4. CASE Keep
    BY <1>1, <1>4, KeepCases DEF KeepsFirst
<1>5. CASE Dispatch
  <2>1. lastNode' = lastNode
      BY <1>5, DispatchTree, MarkedFacts
  <2> QED
      BY <1>1, <1>5, <2>1 DEF Dispatch
<1>6. ASSUME NEW n \in Page, EvictLeaf(n) PROVE OnKey'
    BY <1>1, <1>6 DEF EvictLeaf
<1>7. ASSUME NEW r \in Req, MatchNext(r) PROVE OnKey'
  <2>1. /\ computed' = [computed EXCEPT ![r] = Ready(r)]
        /\ lastNode' = [lastNode EXCEPT ![r] = IF Fresh(r) THEN HitNode(r) ELSE @]
        /\ setup' = setup
      BY <1>7 DEF MatchNext
  <2>2. HitNode(r) = Key(r, Block * Cardinality(Up(HitNode(r))))
      BY <1>0, HitFacts
  <2>3. Fresh(r) => lastNode'[r] = Key(r, computed'[r])
      BY <1>0, <2>1, <2>2 DEF Ready
  <2>4. ~Fresh(r) => lastNode'[r] = lastNode[r] /\ computed'[r] = computed[r]
      BY <1>0, <2>1 DEF Ready
  <2>5. \A q \in Req \ {r} : lastNode'[q] = lastNode[q] /\ computed'[q] = computed[q]
      BY <1>0, <2>1
  <2> QED
      BY <2>1, <2>3, <2>4, <2>5 DEF OnKey, Key
<1>8. ASSUME NEW r \in Req, Close(r) PROVE OnKey'
  <2>1. /\ computed' = [computed EXCEPT ![r] = After(r)]
        /\ lastNode' = [lastNode EXCEPT ![r] = IF Finishes(r) THEN None ELSE Result(r)]
        /\ setup' = setup
      BY <1>8 DEF Close
  <2>2. ~Finishes(r) => Result(r) = Key(r, After(r))
      BY DEF Result
  <2>3. lastNode'[r] \in {None, Key(r, computed'[r])}
      BY <1>0, <2>1, <2>2
  <2>4. \A q \in Req \ {r} : lastNode'[q] = lastNode[q] /\ computed'[q] = computed[q]
      BY <1>0, <2>1
  <2> QED
      BY <2>1, <2>3, <2>4 DEF OnKey, Key
<1>9. CASE UNCHANGED vars
    BY <1>1, <1>9 DEF vars, reqVars
<1> QED
    BY <1>2, <1>3, <1>4, <1>5, <1>6, <1>7, <1>8, <1>9 DEF Next, Serve

\* A locked request finds all it counts as computed in the tree.
HeldOnCached == \A r \in Req : locked[r] => Up(Key(r, computed[r])) \subseteq Cached(tree)

LEMMA OnKeyCached == PrefixInv /\ OnKey => HeldOnCached
<1> SUFFICES ASSUME PrefixInv, OnKey, NEW r \in Req, locked[r]
             PROVE  Up(Key(r, computed[r])) \subseteq Cached(tree)
    BY DEF HeldOnCached
<1>1. lastNode[r] \in DOMAIN tree \cup {Root} /\ DOMAIN tree \in SUBSET Page
    BY DEF PrefixInv, NoLockMissing, Typed, TreeOK
<1>2. lastNode[r] # None /\ lastNode[r] # Gone
    BY <1>1, SizeAssumption
<1>3. lastNode[r] = Key(r, computed[r])
    BY <1>2 DEF OnKey
<1> QED
    BY <1>1, <1>3 DEF Up, Cached

LEMMA HeldAlwaysCached == Spec /\ []NoneMarked => []HeldOnCached
<1>1. Init => OnKey
    BY DEF Init, OnKey
<1>2. PrefixInv /\ NoneMarked /\ OnKey /\ [Next]_vars => OnKey'
    BY StepOnKey
<1>3. PrefixInv /\ OnKey => HeldOnCached
    BY OnKeyCached
<1> QED
    BY <1>1, <1>2, <1>3, PrefixInvariant, PTL DEF Spec

\* As long as no decode is reloaded, a batch whose requests all hold their
\* locks computes on KV that is in the tree.
THEOREM LockedWorkIsCached ==
    Spec /\ []NoneMarked => []((\A r \in Working : locked[r]) => ComputesOnCached)
<1>1. PrefixInv /\ HeldOnCached => ((\A r \in Working : locked[r]) => ComputesOnCached)
  <2>1. ASSUME PrefixInv
        PROVE  Working \in SUBSET Req
    <3>1. /\ inflight \in Seq(Seq(Req)) /\ Range(batch) \subseteq Req
        BY <2>1 DEF PrefixInv, Typed, Range
    <3>2. Running \subseteq Req
      <4>1. \A i \in DOMAIN inflight : inflight[i] \in Seq(Req)
          BY <3>1
      <4> QED
          BY <4>1 DEF Running, Range
    <3> QED
        BY <3>1, <3>2 DEF Working
  <2> QED
      BY <2>1 DEF HeldOnCached, ComputesOnCached, Working
<1> QED
    BY <1>1, HeldAlwaysCached, PrefixInvariant, PTL

-----------------------------------------------------------------------------
(* The token service.                                                      *)

LEMMA StepServes ==
    ASSUME PrefixInv, [Next]_vars
    PROVE  [Service!Next]_<<setup.output, Arrived, generated, done>>
<1> DEFINE Hidden == UNCHANGED <<setup.output, Arrived, generated, done>>
<1>0. /\ generated \in [Req -> Nat]
      /\ request \in SUBSET Req /\ batch \in Seq(Req) /\ inflight \in Seq(Seq(Req))
    BY DEF PrefixInv, Typed
<1>1. ASSUME NEW r \in Req, Arrive(r)
      PROVE  Service!Next
  <2>1. /\ r \notin Arrived /\ request' = request \cup {r}
        /\ UNCHANGED <<setup, inflight, done, generated, batch>>
      BY <1>1 DEF Arrive, reqVars, callVars
  <2>2. Arrived' = Arrived \cup {r}
      BY <2>1 DEF Arrived, Running
  <2>3. Service!Accept(r)
      BY <2>1, <2>2 DEF Service!Accept
  <2> QED
      BY <2>3 DEF Service!Next
<1>2. CASE Begin
    BY <1>2 DEF Begin, reqVars, Arrived, Running
<1>3. CASE Keep
  <2>1. phase = "match" /\ UNCHANGED <<setup, request, inflight, done, generated>>
      BY <1>3, KeepCases
  <2>2. Range(batch) \subseteq request
      BY <2>1 DEF PrefixInv, Places
  <2>3. Range(batch') \subseteq Range(batch)
    <3>1. PICK fit \in 0..Len(batch) : KeepsFirst(fit)
        BY <1>3, KeepCases
    <3> QED
        BY <1>0, <3>1, FirstOfSeq DEF KeepsFirst
  <2>4. Arrived' = Arrived
      BY <2>1, <2>2, <2>3 DEF Arrived, Running
  <2> QED
      BY <2>1, <2>4
<1>4. CASE Dispatch
  <2>1. /\ phase = "evict" /\ request' = request \ Range(batch) /\ batch' = <<>>
        /\ inflight' = Append(inflight, batch)
        /\ UNCHANGED <<setup, done, generated>>
      BY <1>4 DEF Dispatch
  <2>2. Range(batch) \subseteq request
      BY <2>1 DEF PrefixInv, Places
  <2>3. Running' = Running \cup Range(batch)
    <3>1. /\ Orderly(inflight) /\ Once(batch) /\ batch # <<>> /\ request \cap Running = {}
        BY <2>1 DEF PrefixInv, Places
    <3>2. Running = Members(inflight) /\ Running' = Members(inflight')
        BY DEF Running, Members
    <3>3. Range(batch) \cap Members(inflight) = {}
        BY <2>2, <3>1, <3>2
    <3>4. Members(Append(inflight, batch)) = Members(inflight) \cup Range(batch)
        BY <1>0, <3>1, <3>3, BatchSent
    <3> QED
        BY <2>1, <3>2, <3>4
  <2>4. Range(batch') = {}
      BY <2>1 DEF Range
  <2>5. Arrived' = Arrived
      BY <2>1, <2>2, <2>3, <2>4 DEF Arrived
  <2> QED
      BY <2>1, <2>5
<1>5. CASE AddDone
  <2>1. /\ phase = "run" /\ inflight # <<>> /\ batch' = Head(inflight) /\ inflight' = Tail(inflight)
        /\ UNCHANGED <<setup, request, done, generated>>
      BY <1>5 DEF AddDone, reqVars
  <2>2. Range(batch) = {}
    <3>1. batch = <<>>
        BY <2>1 DEF PrefixInv, Places
    <3> QED
        BY <3>1 DEF Range
  <2>3. Running = Range(batch') \cup Running'
    <3>1. Orderly(inflight)
        BY DEF PrefixInv, Places
    <3>2. Members(inflight) = Range(Head(inflight)) \cup Members(Tail(inflight))
        BY <1>0, <2>1, <3>1, BatchBack
    <3> QED
        BY <2>1, <3>2 DEF Running, Members
  <2>4. Arrived' = Arrived
      BY <2>1, <2>2, <2>3 DEF Arrived
  <2> QED
      BY <2>1, <2>4
<1>6. ASSUME NEW n \in Page, EvictLeaf(n)
      PROVE  Hidden
    BY <1>6 DEF EvictLeaf, Arrived, Running
<1>7. ASSUME NEW r \in Req, MatchNext(r)
      PROVE  Hidden
  <2>1. /\ phase = "match" /\ r \in todo
        /\ batch' = Append(batch, r) \/ batch' = batch
        /\ UNCHANGED <<setup, request, inflight, done, generated>>
      BY <1>7 DEF MatchNext
  <2>2. r \in request
      BY <2>1 DEF PrefixInv, Places
  <2>3. Range(batch') \subseteq Range(batch) \cup {r} /\ Range(batch) \subseteq Range(batch')
    <3>1. Range(Append(batch, r)) = Range(batch) \cup {r}
        BY <1>0, JoinSeq
    <3> QED
        BY <2>1, <3>1
  <2>4. Arrived' = Arrived
      BY <2>1, <2>2, <2>3 DEF Arrived, Running
  <2> QED
      BY <2>1, <2>4
<1>8. ASSUME NEW r \in Req, Close(r)
      PROVE  [Service!Next]_<<setup.output, Arrived, generated, done>>
  <2>1. /\ r \notin request \cup Running \cup done
        /\ Range(batch) = {r} \cup Range(Tail(batch))
      BY <1>8, ClosePlace
  <2>2. /\ generated' = [generated EXCEPT ![r] = IF Emits(r) THEN @ + 1 ELSE @]
        /\ request' = IF Finishes(r) THEN request ELSE request \cup {r}
        /\ done' = IF Finishes(r) THEN done \cup {r} ELSE done
        /\ batch' = Tail(batch)
        /\ UNCHANGED <<setup, inflight>>
      BY <1>8 DEF Close
  <2>3. Arrived' = Arrived
      BY <2>1, <2>2 DEF Arrived, Running
  <2>4. Finishes(r) <=> Emits(r) /\ generated[r] + 1 = setup.output[r]
      BY <2>1, AfterFacts DEF Output
  <2>5. CASE ~Emits(r)
    <3>1. generated' = generated /\ done' = done
        BY <1>0, <2>2, <2>4, <2>5
    <3> QED
        BY <2>2, <2>3, <3>1
  <2>6. CASE Emits(r)
    <3> DEFINE S == {r}
    <3>1. S # {} /\ S \subseteq Arrived \ done
        BY <2>1 DEF Arrived
    <3>2. generated' = [q \in Req |-> IF q \in S THEN generated[q] + 1 ELSE generated[q]]
        BY <1>0, <2>2, <2>6
    <3>3. done' = done \cup {q \in S : generated[q] + 1 = setup.output[q]}
        BY <2>2, <2>4, <2>6
    <3>4. Service!Emit(S)
        BY <2>2, <2>3, <3>1, <3>2, <3>3 DEF Service!Emit
    <3> QED
        BY <3>4 DEF Service!Next
  <2> QED
      BY <2>5, <2>6
<1>9. CASE UNCHANGED vars
    BY <1>9 DEF vars, reqVars, callVars, Arrived, Running
<1> QED
    BY <1>1, <1>2, <1>3, <1>4, <1>5, <1>6, <1>7, <1>8, <1>9 DEF Next, Serve

\* The instance implements the token service, whatever it finds in the cache,
\* shares, evicts and computes again.
THEOREM PrefixImplements == Spec => ServesTokens
<1>1. Init => Service!Init
  <2> SUFFICES ASSUME Init PROVE Service!Init
      OBVIOUS
  <2>1. setup.output \in [Req -> Nat \ {0}]
      BY SetupAssumption DEF Init
  <2>2. Arrived = {}
    <3>1. Range(batch) = {} /\ Running = {} /\ request = {} /\ done = {}
        BY DEF Init, Range, Running
    <3> QED
        BY <3>1 DEF Arrived
  <2> QED
      BY <2>1, <2>2 DEF Init, Service!Init
<1>2. PrefixInv /\ [Next]_vars => [Service!Next]_<<setup.output, Arrived, generated, done>>
    BY StepServes
<1> QED
    BY <1>1, <1>2, PrefixInvariant, PTL DEF Spec, ServesTokens, Service!Spec
=============================================================================
