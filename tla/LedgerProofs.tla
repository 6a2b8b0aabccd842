---------------------------- MODULE LedgerProofs ----------------------------
(***************************************************************************)
(* Facts about the data structures of the models.  First what a single     *)
(* assignment to a map of reservations does to its total, by counting: the *)
(* column of cells above one owner is replaced.  Then what cutting,        *)
(* rejoining and filtering does to a queue.                                *)
(***************************************************************************)
EXTENDS BoundedTotals, Queues, FiniteSetTheorems, FunctionTheorems, SequenceTheorems, TLAPS

\* The cells above one owner.
Column(f, s) == {s} \X (1..f[s])

\* The cells of a bounded map over finitely many owners are finitely many.
LEMMA CellsFinite ==
    ASSUME NEW S, IsFiniteSet(S), NEW cap \in Nat, NEW f \in [S -> 0..cap]
    PROVE  IsFiniteSet(Cells(f, cap)) /\ Total(f, cap) \in Nat
<1>1. IsFiniteSet(1..cap)
    BY FS_Interval
<1>2. IsFiniteSet(S \X (1..cap))
    BY <1>1, FS_Product
<1>3. Cells(f, cap) \in SUBSET (S \X (1..cap))
    BY DEF Cells
<1>4. IsFiniteSet(Cells(f, cap))
    BY <1>2, <1>3, FS_Subset
<1> QED
    BY <1>4, FS_CardinalityType DEF Total

\* A column has as many cells as its owner has units.
LEMMA ColumnSize ==
    ASSUME NEW f, NEW s, f[s] \in Nat
    PROVE  IsFiniteSet(Column(f, s)) /\ Cardinality(Column(f, s)) = f[s]
<1>1. IsFiniteSet(1..f[s]) /\ Cardinality(1..f[s]) = f[s]
    BY FS_Interval
<1>2. IsFiniteSet({s}) /\ Cardinality({s}) = 1
    BY FS_Singleton
<1>3. Cardinality(Column(f, s)) = 1 * f[s] /\ IsFiniteSet(Column(f, s))
    BY <1>1, <1>2, FS_Product DEF Column
<1> QED
    BY <1>3

\* The cells are the column of s and the cells of the others, separately.
LEMMA SplitColumn ==
    ASSUME NEW S, IsFiniteSet(S), NEW cap \in Nat, NEW f \in [S -> 0..cap], NEW s \in S
    PROVE  Total(f, cap) = Cardinality(Cells(f, cap) \ Column(f, s)) + f[s]
<1>1. Column(f, s) \subseteq Cells(f, cap)
    BY DEF Column, Cells
<1>2. Cells(f, cap) \cap Column(f, s) = Column(f, s)
    BY <1>1
<1>3. f[s] \in Nat
    OBVIOUS
<1>4. Cardinality(Column(f, s)) = f[s]
    BY <1>3, ColumnSize
<1>5. IsFiniteSet(Cells(f, cap)) /\ Total(f, cap) \in Nat
    BY CellsFinite
<1>6. Cardinality(Cells(f, cap) \ Column(f, s))
        = Cardinality(Cells(f, cap)) - Cardinality(Cells(f, cap) \cap Column(f, s))
    BY <1>5, FS_Difference
<1>7. Cardinality(Cells(f, cap) \ Column(f, s)) = Total(f, cap) - f[s]
    BY <1>2, <1>4, <1>6 DEF Total
<1> QED
    BY <1>3, <1>5, <1>7

\* Changing one entry changes the total by the difference of that entry.
LEMMA TotalUpdate ==
    ASSUME NEW S, IsFiniteSet(S), NEW cap \in Nat,
           NEW f \in [S -> 0..cap], NEW g \in [S -> 0..cap], NEW s \in S,
           \A t \in S \ {s} : g[t] = f[t]
    PROVE  Total(g, cap) = Total(f, cap) - f[s] + g[s]
<1>1. Cells(g, cap) \ Column(g, s) = Cells(f, cap) \ Column(f, s)
  <2> DEFINE Others == {c \in S \X (1..cap) : c[1] # s /\ c[2] <= f[c[1]]}
  <2>1. Cells(f, cap) \ Column(f, s) = Others
      BY DEF Cells, Column
  <2>2. Cells(g, cap) \ Column(g, s) = Others
      BY DEF Cells, Column
  <2> QED
      BY <2>1, <2>2
<1>2. /\ Total(f, cap) = Cardinality(Cells(f, cap) \ Column(f, s)) + f[s]
      /\ Total(g, cap) = Cardinality(Cells(g, cap) \ Column(g, s)) + g[s]
    BY SplitColumn
<1>3. IsFiniteSet(Cells(f, cap) \ Column(f, s))
    BY CellsFinite, FS_Difference
<1>4. Cardinality(Cells(f, cap) \ Column(f, s)) \in Nat
    BY <1>3, FS_CardinalityType
<1>5. f[s] \in 0..cap /\ g[s] \in 0..cap
    OBVIOUS
<1>6. Total(g, cap) = Cardinality(Cells(f, cap) \ Column(f, s)) + g[s]
    BY <1>1, <1>2, Zenon
<1>7. Total(f, cap) = Cardinality(Cells(f, cap) \ Column(f, s)) + f[s]
    BY <1>2
<1> HIDE DEF Total
<1> QED
    BY <1>4, <1>5, <1>6, <1>7

\* A map that is zero everywhere has total zero, and a positive entry counts.
LEMMA TotalZero ==
    ASSUME NEW S, IsFiniteSet(S), NEW cap \in Nat, NEW f \in [S -> 0..cap],
           \A s \in S : f[s] = 0
    PROVE  Total(f, cap) = 0
<1>1. Cells(f, cap) = {}
    BY DEF Cells
<1> QED
    BY <1>1, FS_EmptySet DEF Total

\* One entry is never more than the total.
LEMMA EntryInTotal ==
    ASSUME NEW S, IsFiniteSet(S), NEW cap \in Nat, NEW f \in [S -> 0..cap], NEW s \in S
    PROVE  f[s] <= Total(f, cap)
<1>1. IsFiniteSet(Cells(f, cap) \ Column(f, s))
    BY CellsFinite, FS_Difference
<1>2. Cardinality(Cells(f, cap) \ Column(f, s)) \in Nat
    BY <1>1, FS_CardinalityType
<1> QED
    BY <1>2, SplitColumn

\* A larger map has a larger total.
LEMMA TotalMonotone ==
    ASSUME NEW S, IsFiniteSet(S), NEW cap \in Nat,
           NEW f \in [S -> 0..cap], NEW g \in [S -> 0..cap],
           \A s \in S : f[s] <= g[s]
    PROVE  Total(f, cap) <= Total(g, cap)
<1>1. IsFiniteSet(Cells(g, cap))
    BY CellsFinite
<1>2. Cells(f, cap) \subseteq Cells(g, cap)
  <2> SUFFICES ASSUME NEW c \in Cells(f, cap) PROVE c \in Cells(g, cap)
      OBVIOUS
  <2>1. c \in S \X (1..cap) /\ c[2] <= f[c[1]]
      BY DEF Cells
  <2>2. f[c[1]] \in 0..cap /\ g[c[1]] \in 0..cap /\ f[c[1]] <= g[c[1]] /\ c[2] \in 1..cap
      BY <2>1
  <2>3. c[2] <= g[c[1]]
      BY <2>1, <2>2
  <2> QED
      BY <2>1, <2>3 DEF Cells
<1> QED
    BY <1>1, <1>2, FS_Subset DEF Total

\* The cells of f + g are those of f and, shifted up, those of g.
LEMMA TotalPlus ==
    ASSUME NEW S, IsFiniteSet(S), NEW cap \in Nat,
           NEW f \in [S -> 0..cap], NEW g \in [S -> 0..cap], NEW h \in [S -> 0..cap],
           \A s \in S : h[s] = f[s] + g[s]
    PROVE  Total(h, cap) = Total(f, cap) + Total(g, cap)
<1> DEFINE Above == {c \in S \X (1..cap) : f[c[1]] < c[2] /\ c[2] <= h[c[1]]}
           shift == [c \in Above |-> <<c[1], c[2] - f[c[1]]>>]
<1>1. \A s \in S : f[s] \in 0..cap /\ g[s] \in 0..cap /\ h[s] \in 0..cap
    OBVIOUS
<1>2. Cells(h, cap) = Cells(f, cap) \cup Above
  <2>1. ASSUME NEW s \in S, NEW n \in 1..cap
        PROVE  n <= h[s] <=> (n <= f[s] \/ (f[s] < n /\ n <= h[s]))
      BY <1>1
  <2>2. Cells(h, cap) = {c \in S \X (1..cap) : c[2] <= h[c[1]]}
      BY DEF Cells
  <2>3. Cells(f, cap) = {c \in S \X (1..cap) : c[2] <= f[c[1]]}
      BY DEF Cells
  <2> QED
      BY <2>1, <2>2, <2>3
<1>3. Cells(f, cap) \cap Above = {}
    BY <1>1 DEF Cells
<1>4. IsFiniteSet(Cells(f, cap)) /\ IsFiniteSet(Cells(h, cap)) /\ IsFiniteSet(Cells(g, cap))
    BY CellsFinite
<1>5. IsFiniteSet(Above)
    BY <1>2, <1>4, FS_Subset
<1>6. shift \in Bijection(Above, Cells(g, cap))
  <2>1. shift \in [Above -> Cells(g, cap)]
    <3> SUFFICES ASSUME NEW c \in Above
                 PROVE  <<c[1], c[2] - f[c[1]]>> \in Cells(g, cap)
        OBVIOUS
    <3>1. c[1] \in S /\ c[2] \in 1..cap /\ f[c[1]] < c[2] /\ c[2] <= h[c[1]]
        OBVIOUS
    <3>2. c[2] - f[c[1]] \in 1..cap /\ c[2] - f[c[1]] <= g[c[1]]
        BY <1>1, <3>1
    <3> QED
        BY <3>1, <3>2 DEF Cells
  <2>2. \A c, e \in Above : shift[c] = shift[e] => c = e
    <3> SUFFICES ASSUME NEW c \in Above, NEW e \in Above, shift[c] = shift[e]
                 PROVE  c = e
        OBVIOUS
    <3>1. c[1] = e[1] /\ c[2] - f[c[1]] = e[2] - f[e[1]]
        OBVIOUS
    <3>2. c[2] \in Int /\ e[2] \in Int /\ f[c[1]] \in Int
        BY <1>1
    <3>3. c[2] = e[2]
        BY <3>1, <3>2
    <3> QED
        BY <3>1, <3>3
  <2>3. ASSUME NEW e \in Cells(g, cap) PROVE \E c \in Above : shift[c] = e
    <3>1. e \in S \X (1..cap) /\ e[1] \in S /\ e[2] \in 1..cap /\ e[2] <= g[e[1]]
        BY DEF Cells
    <3> DEFINE c == <<e[1], e[2] + f[e[1]]>>
    <3>2. c[2] \in 1..cap /\ f[c[1]] < c[2] /\ c[2] <= h[c[1]]
        BY <1>1, <3>1
    <3>3. c \in Above
        BY <3>1, <3>2
    <3>4. c[2] - f[c[1]] = e[2]
        BY <1>1, <3>1
    <3>5. shift[c] = e
        BY <3>1, <3>3, <3>4
    <3> QED
        BY <3>3, <3>5
  <2> HIDE DEF shift, Above
  <2> QED
      BY <2>1, <2>2, <2>3, Fun_IsBij
<1>7. Cardinality(Cells(g, cap)) = Cardinality(Above)
    BY <1>5, <1>6, FS_Bijection DEF ExistsBijection
<1>8. Cardinality(Cells(h, cap))
        = Cardinality(Cells(f, cap)) + Cardinality(Above) - Cardinality({})
    BY <1>2, <1>3, <1>4, <1>5, FS_Union
<1>9. Cardinality(Cells(f, cap)) \in Nat /\ Cardinality(Above) \in Nat
    BY <1>4, <1>5, FS_CardinalityType
<1> HIDE DEF Above
<1> QED
    BY <1>7, <1>8, <1>9, FS_EmptySet DEF Total

\* A map whose positive entries can be placed, each on an entry of its own and
\* at least as large, of another map has the smaller total.
LEMMA TotalInto ==
    ASSUME NEW S, IsFiniteSet(S), NEW T, IsFiniteSet(T), NEW cap \in Nat, NEW bound \in Nat,
           NEW f \in [S -> 0..cap], NEW g \in [T -> 0..bound], NEW e,
           \A s \in S : f[s] > 0 => e[s] \in T /\ f[s] <= g[e[s]],
           \A s, t \in S : f[s] > 0 /\ f[t] > 0 /\ e[s] = e[t] => s = t
    PROVE  Total(f, cap) <= Total(g, bound)
<1> DEFINE h == [c \in Cells(f, cap) |-> <<e[c[1]], c[2]>>]
<1>1. ASSUME NEW c \in Cells(f, cap)
      PROVE  /\ c[1] \in S /\ c[2] \in Nat /\ f[c[1]] > 0 /\ <<e[c[1]], c[2]>> \in Cells(g, bound)
             /\ c = <<c[1], c[2]>>
  <2>1. c \in S \X (1..cap) /\ c[2] <= f[c[1]]
      BY DEF Cells
  <2>2. c[1] \in S /\ c[2] \in 1..cap /\ f[c[1]] \in 0..cap /\ c = <<c[1], c[2]>>
      BY <2>1
  <2>3. f[c[1]] > 0
      BY <2>1, <2>2
  <2>4. e[c[1]] \in T /\ f[c[1]] <= g[e[c[1]]] /\ g[e[c[1]]] \in 0..bound
      BY <2>2, <2>3
  <2>5. c[2] \in 1..bound /\ c[2] <= g[e[c[1]]]
      BY <2>1, <2>2, <2>4
  <2> QED
      BY <2>2, <2>3, <2>4, <2>5 DEF Cells
<1>2. h \in [Cells(f, cap) -> Cells(g, bound)]
    BY <1>1
<1>3. ASSUME NEW c \in Cells(f, cap), NEW b \in Cells(f, cap), h[c] = h[b]
      PROVE  c = b
  <2>1. e[c[1]] = e[b[1]] /\ c[2] = b[2]
      BY <1>3
  <2>2. c[1] = b[1]
      BY <1>1, <2>1
  <2> QED
      BY <1>1, <2>1, <2>2
<1>4. h \in Injection(Cells(f, cap), Cells(g, bound))
  <2> HIDE DEF h
  <2> QED
      BY <1>2, <1>3, Fun_IsInj
<1>5. IsFiniteSet(Cells(g, bound))
    BY CellsFinite
<1> HIDE DEF h
<1> QED
    BY <1>4, <1>5, FS_Injection DEF Total

-----------------------------------------------------------------------------
(* Induction, in the form the provers can use: over sets of numbers.       *)

\* A set of natural numbers that is not empty has a least member.
LEMMA LeastMember ==
    ASSUME NEW T, T \subseteq Nat, T # {}
    PROVE  \E x \in T : \A y \in T : x <= y
<1>1. PICK x \in T : \A y \in T : ~ (<<y, x>> \in OpToRel(<,Nat))
    BY NatLessThanWellFounded, WFMin
<1>2. \A y \in T : ~ (y < x)
    BY <1>1 DEF OpToRel
<1> QED
    BY <1>2

\* What holds of 0 and of the successor of every number it holds of.
LEMMA SetInduction ==
    ASSUME NEW S, 0 \in S, \A n \in Nat : n \in S => n + 1 \in S
    PROVE  Nat \subseteq S
<1> DEFINE T == Nat \ S
<1> SUFFICES ASSUME T # {} PROVE FALSE
    OBVIOUS
<1>1. PICK x \in T : \A y \in T : x <= y
    BY LeastMember
<1>2. x # 0 /\ x \in Nat
    OBVIOUS
<1>3. x - 1 \in Nat /\ x - 1 \in S
    BY <1>1, <1>2
<1> QED
    BY <1>3

\* Positions that leave no gap are counted by their last.
LEMMA InitialSegment ==
    ASSUME NEW m \in Nat, NEW S \in SUBSET (1..m), \A i \in S, j \in 1..m : j <= i => j \in S
    PROVE  Cardinality(S) \in 0..m /\ S = 1..Cardinality(S)
<1>0. \A n \in Nat : Cardinality(1..n) = n
    BY FS_Interval
<1>1. CASE S = 1..m
    BY <1>0, <1>1
<1>2. CASE S # 1..m
  <2> DEFINE T == (1..m) \ S
  <2>0. T # {} /\ T \subseteq Nat
    <3>1. S \subseteq 1..m /\ 1..m \subseteq Nat
        OBVIOUS
    <3> QED
        BY <1>2, <3>1
  <2>1. PICK x \in T : \A y \in T : x <= y
      BY <2>0, LeastMember
  <2>2. x \in 1..m /\ x - 1 \in Nat /\ x - 1 \in 0..m
      BY <2>1
  <2>3. S = 1..(x - 1)
    <3>1. ASSUME NEW i \in S PROVE i \in 1..(x - 1)
      <4>1. ~(x <= i)
          BY <2>2
      <4> QED
          BY <2>2, <4>1
    <3>2. ASSUME NEW i \in 1..(x - 1) PROVE i \in S
      <4>1. i \in 1..m /\ ~(x <= i)
          BY <2>2
      <4> QED
          BY <2>1, <4>1
    <3> QED
        BY <3>1, <3>2
  <2>4. Cardinality(1..(x - 1)) = x - 1
      BY <1>0, <2>2
  <2> QED
      BY <2>2, <2>3, <2>4
<1> QED
    BY <1>1, <1>2

-----------------------------------------------------------------------------
(* Queues.                                                                 *)

\* The positions of a member.
At(x, s) == {i \in DOMAIN s : s[i] = x}

LEMMA OccType ==
    ASSUME NEW U, NEW s \in Seq(U), NEW x
    PROVE  /\ IsFiniteSet(At(x, s)) /\ Occurrences(x, s) = Cardinality(At(x, s))
           /\ Occurrences(x, s) \in Nat
           /\ Occurrences(x, s) = 0 <=> \A i \in DOMAIN s : s[i] # x
<1>1. IsFiniteSet(DOMAIN s)
    BY FS_Interval
<1>2. At(x, s) \in SUBSET DOMAIN s
    BY DEF At
<1>3. IsFiniteSet(At(x, s))
    BY <1>1, <1>2, FS_Subset
<1>4. Occurrences(x, s) = Cardinality(At(x, s))
    BY DEF Occurrences, At
<1>5. Cardinality(At(x, s)) = 0 <=> At(x, s) = {}
    BY <1>3, FS_EmptySet
<1> QED
    BY <1>3, <1>4, <1>5, FS_CardinalityType DEF At

LEMMA OccEmpty ==
    ASSUME NEW x
    PROVE  Occurrences(x, <<>>) = 0
<1>1. {i \in DOMAIN <<>> : <<>>[i] = x} = {}
    OBVIOUS
<1> QED
    BY <1>1, FS_EmptySet DEF Occurrences

LEMMA OccConcat ==
    ASSUME NEW U, NEW s \in Seq(U), NEW t \in Seq(U), NEW x
    PROVE  Occurrences(x, s \o t) = Occurrences(x, s) + Occurrences(x, t)
<1> DEFINE n == Len(s)
           B == {i \in (n + 1)..(n + Len(t)) : t[i - n] = x}
           f == [i \in At(x, t) |-> i + n]
<1>1. s \o t \in Seq(U) /\ n \in Nat /\ Len(t) \in Nat
    OBVIOUS
<1>2. At(x, s \o t) = At(x, s) \cup B /\ At(x, s) \cap B = {}
  <2>1. DOMAIN (s \o t) = 1..(n + Len(t)) /\ DOMAIN s = 1..n
      OBVIOUS
  <2>2. \A i \in 1..n : (s \o t)[i] = s[i]
      OBVIOUS
  <2>3. \A i \in (n + 1)..(n + Len(t)) : (s \o t)[i] = t[i - n]
      OBVIOUS
  <2>4. 1..(n + Len(t)) = (1..n) \cup ((n + 1)..(n + Len(t)))
      BY <1>1
  <2>5. (1..n) \cap ((n + 1)..(n + Len(t))) = {}
      BY <1>1
  <2> HIDE DEF n
  <2> QED
      BY <2>1, <2>2, <2>3, <2>4, <2>5 DEF At
<1>3. f \in Bijection(At(x, t), B)
  <2>1. DOMAIN t = 1..Len(t)
      OBVIOUS
  <2>2. f \in [At(x, t) -> B]
      BY <1>1, <2>1 DEF At
  <2>3. \A i, j \in At(x, t) : f[i] = f[j] => i = j
      BY <1>1, <2>1 DEF At
  <2>4. \A j \in B : \E i \in At(x, t) : f[i] = j
    <3> SUFFICES ASSUME NEW j \in B PROVE \E i \in At(x, t) : f[i] = j
        OBVIOUS
    <3>1. j - n \in At(x, t) /\ f[j - n] = j
        BY <1>1, <2>1 DEF At
    <3> QED
        BY <3>1
  <2> HIDE DEF f, B
  <2> QED
      BY <2>2, <2>3, <2>4, Fun_IsBij
<1>4. IsFiniteSet(At(x, s)) /\ IsFiniteSet(At(x, t)) /\ IsFiniteSet(At(x, s \o t))
    BY <1>1, OccType
<1>5. IsFiniteSet(B) /\ Cardinality(B) = Cardinality(At(x, t))
  <2> HIDE DEF B, f
  <2> QED
    BY <1>3, <1>4, FS_Bijection DEF ExistsBijection
<1>6. Cardinality(At(x, s \o t)) = Cardinality(At(x, s)) + Cardinality(B) - Cardinality({})
  <2> HIDE DEF B, f
  <2> QED
      BY <1>2, <1>4, <1>5, FS_Union
<1>7. Cardinality(At(x, s)) \in Nat /\ Cardinality(At(x, t)) \in Nat
    BY <1>4, FS_CardinalityType
<1> HIDE DEF B, f, n
<1>8. /\ Occurrences(x, s \o t) = Cardinality(At(x, s \o t))
      /\ Occurrences(x, s) = Cardinality(At(x, s))
      /\ Occurrences(x, t) = Cardinality(At(x, t))
    BY DEF Occurrences, At
<1>9. Cardinality({}) = 0
    BY FS_EmptySet
<1> QED
    BY <1>5, <1>6, <1>7, <1>8, <1>9

LEMMA OccOne ==
    ASSUME NEW x, NEW y
    PROVE  Occurrences(x, <<y>>) = IF x = y THEN 1 ELSE 0
<1>1. DOMAIN <<y>> = {1} /\ <<y>>[1] = y
    OBVIOUS
<1>2. {i \in DOMAIN <<y>> : <<y>>[i] = x} = IF x = y THEN {1} ELSE {}
    BY <1>1
<1> QED
    BY <1>2, FS_EmptySet, FS_Singleton DEF Occurrences

LEMMA OccAppend ==
    ASSUME NEW U, NEW s \in Seq(U), NEW y \in U, NEW x
    PROVE  Occurrences(x, Append(s, y)) = Occurrences(x, s) + (IF x = y THEN 1 ELSE 0)
<1>1. Append(s, y) = s \o <<y>>
    BY AppendIsConcat
<1>2. <<y>> \in Seq(U)
    OBVIOUS
<1>3. Occurrences(x, s \o <<y>>) = Occurrences(x, s) + Occurrences(x, <<y>>)
    BY <1>2, OccConcat
<1> QED
    BY <1>1, <1>3, OccOne

LEMMA OccTail ==
    ASSUME NEW U, NEW s \in Seq(U), s # <<>>, NEW x
    PROVE  /\ Head(s) \in U /\ Tail(s) \in Seq(U)
           /\ Occurrences(x, s) = (IF x = Head(s) THEN 1 ELSE 0) + Occurrences(x, Tail(s))
<1>1. Head(s) \in U /\ Tail(s) \in Seq(U) /\ <<Head(s)>> \in Seq(U)
    OBVIOUS
<1>2. s = <<Head(s)>> \o Tail(s)
    OBVIOUS
<1>3. Occurrences(x, <<Head(s)>> \o Tail(s)) = Occurrences(x, <<Head(s)>>) + Occurrences(x, Tail(s))
    BY <1>1, OccConcat
<1> QED
    BY <1>1, <1>2, <1>3, OccOne

LEMMA OccCut ==
    ASSUME NEW U, NEW s \in Seq(U), NEW n \in 0..Len(s), NEW x
    PROVE  LET a == SubSeq(s, 1, n)
               b == SubSeq(s, n + 1, Len(s))
           IN  /\ a \in Seq(U) /\ Len(a) = n /\ \A i \in 1..n : a[i] = s[i]
               /\ b \in Seq(U) /\ Len(b) = Len(s) - n
               /\ Occurrences(x, s) = Occurrences(x, a) + Occurrences(x, b)
<1> DEFINE a == SubSeq(s, 1, n)
           b == SubSeq(s, n + 1, Len(s))
<1>1. a \in Seq(U) /\ Len(a) = n /\ \A i \in 1..n : a[i] = s[i]
    OBVIOUS
<1>2. b \in Seq(U) /\ Len(b) = Len(s) - n /\ \A i \in 1..(Len(s) - n) : b[i] = s[n + i]
    OBVIOUS
<1>3. s = a \o b
  <2>1. 1 \in 1..(Len(s) + 1) /\ n \in (1 - 1)..Len(s) /\ Len(s) \in n..Len(s)
      OBVIOUS
  <2>2. SubSeq(s, 1, n) \o SubSeq(s, n + 1, Len(s)) = SubSeq(s, 1, Len(s))
      BY <2>1, ConcatAdjacentSubSeq
  <2>3. SubSeq(s, 1, Len(s)) = s
      BY SubSeqFull
  <2> QED
      BY <2>2, <2>3
<1> HIDE DEF a, b
<1>4. Occurrences(x, a \o b) = Occurrences(x, a) + Occurrences(x, b)
    BY <1>1, <1>2, OccConcat
<1> QED
    BY <1>1, <1>2, <1>3, <1>4 DEF a, b

\* A list without its i-th member.
LEMMA OccRemove ==
    ASSUME NEW U, NEW s \in Seq(U), NEW i \in DOMAIN s, NEW x
    PROVE  LET t == SubSeq(s, 1, i - 1) \o SubSeq(s, i + 1, Len(s))
           IN  /\ t \in Seq(U)
               /\ Occurrences(x, s) = Occurrences(x, t) + (IF x = s[i] THEN 1 ELSE 0)
<1> DEFINE a == SubSeq(s, 1, i - 1)
           b == SubSeq(s, i, Len(s))
           c == SubSeq(s, i + 1, Len(s))
<1>1. i \in 1..Len(s) /\ Len(s) \in Nat /\ i - 1 \in 0..Len(s) /\ (i - 1) + 1 = i
    OBVIOUS
<1>2. /\ a \in Seq(U) /\ b \in Seq(U) /\ Len(b) = Len(s) - (i - 1)
      /\ Occurrences(x, s) = Occurrences(x, a) + Occurrences(x, b)
    BY <1>1, OccCut
<1>3. b # <<>> /\ Head(b) = s[i] /\ Tail(b) = c
  <2>1. b # <<>> /\ Head(b) = s[i]
      BY <1>1, <1>2
  <2>2. c \in Seq(U) /\ Len(c) = Len(s) - i /\ \A j \in 1..(Len(s) - i) : c[j] = s[i + j]
      BY <1>1
  <2>3. Tail(b) \in Seq(U) /\ Len(Tail(b)) = Len(s) - i
      BY <1>1, <1>2, <2>1
  <2>4. ASSUME NEW j \in 1..(Len(s) - i)
        PROVE  Tail(b)[j] = s[i + j]
    <3>1. \A k \in 1..Len(b) : b[k] = s[i + k - 1]
        BY <1>1, <1>2, SMTT(30)
    <3>2. j + 1 \in 1..Len(b) /\ i + (j + 1) - 1 = i + j
        BY <1>1, <1>2
    <3>3. Tail(b)[j] = b[j + 1]
        BY <1>2, <2>1, <2>3
    <3> QED
        BY <3>1, <3>2, <3>3
  <2> QED
      BY <2>1, <2>2, <2>3, <2>4, SeqEqual
<1>4. /\ c \in Seq(U)
      /\ Occurrences(x, b) = (IF x = s[i] THEN 1 ELSE 0) + Occurrences(x, c)
    BY <1>2, <1>3, OccTail
<1> HIDE DEF a, b, c
<1>5. a \o c \in Seq(U) /\ Occurrences(x, a \o c) = Occurrences(x, a) + Occurrences(x, c)
    BY <1>2, <1>4, OccConcat
<1>6. Occurrences(x, a) \in Nat /\ Occurrences(x, c) \in Nat
    BY <1>2, <1>4, OccType
<1> QED
    BY <1>2, <1>4, <1>5, <1>6 DEF a, c

LEMMA OccMember ==
    ASSUME NEW U, NEW s \in Seq(U), NEW x
    PROVE  Occurrences(x, s) > 0 <=> \E i \in DOMAIN s : s[i] = x
<1>1. Occurrences(x, s) \in Nat /\ (Occurrences(x, s) = 0 <=> \A i \in DOMAIN s : s[i] # x)
    BY OccType
<1> QED
    BY <1>1

\* What occurs at most once has one position.
LEMMA OccOnce ==
    ASSUME NEW U, NEW s \in Seq(U), NEW x, Occurrences(x, s) <= 1,
           NEW i \in DOMAIN s, NEW j \in DOMAIN s, s[i] = x, s[j] = x
    PROVE  i = j
<1> SUFFICES ASSUME i # j PROVE FALSE
    OBVIOUS
<1>1. IsFiniteSet(At(x, s)) /\ Occurrences(x, s) = Cardinality(At(x, s))
    BY OccType
<1>2. {i} \cup {j} \in SUBSET At(x, s)
    BY DEF At
<1>3. IsFiniteSet({i}) /\ Cardinality({i}) = 1
    BY FS_Singleton
<1>4. Cardinality({i} \cup {j}) = 2
  <2>1. j \notin {i}
      OBVIOUS
  <2>2. Cardinality({i} \cup {j}) = Cardinality({i}) + 1
      BY <1>3, <2>1, FS_AddElement
  <2> DEFINE pair == {i} \cup {j}
             one == {i}
  <2>3. Cardinality(pair) = Cardinality(one) + 1 /\ Cardinality(one) = 1
      BY <1>3, <2>2
  <2> HIDE DEF pair, one
  <2>4. Cardinality(pair) = 2
      BY <2>3
  <2> QED
      BY <2>4 DEF pair
<1>5. 2 <= Cardinality(At(x, s)) /\ Cardinality(At(x, s)) \in Nat
    BY <1>1, <1>2, <1>4, FS_Subset, FS_CardinalityType
<1> QED
    BY <1>1, <1>5

\* The equation by which Only is defined.
LEMMA OnlyUnfolds ==
    ASSUME NEW U, NEW s \in Seq(U), NEW K
    PROVE  \E kept \in [0..Len(s) -> Seq(U)] :
               /\ Only(s, K) = kept[Len(s)]
               /\ \A i \in 0..Len(s) : kept[i] =
                      IF i = 0 THEN <<>>
                      ELSE IF s[i] \in K THEN Append(kept[i - 1], s[i]) ELSE kept[i - 1]
<1> DEFINE Solves(g, n) == \A i \in 0..n : g[i] =
                      IF i = 0 THEN <<>>
                      ELSE IF s[i] \in K THEN Append(g[i - 1], s[i]) ELSE g[i - 1]
           S == {n \in Nat : n <= Len(s) => \E g \in [0..n -> Seq(U)] : Solves(g, n)}
<1>0. Len(s) \in Nat /\ \A i \in 1..Len(s) : s[i] \in U
    OBVIOUS
<1>1. 0 \in S
  <2> DEFINE g == [i \in 0..0 |-> <<>>]
  <2>1. g \in [0..0 -> Seq(U)] /\ Solves(g, 0)
      OBVIOUS
  <2> QED
      BY <2>1
<1>2. ASSUME NEW n \in Nat, n \in S PROVE n + 1 \in S
  <2> SUFFICES ASSUME n + 1 <= Len(s)
               PROVE  \E g \in [0..(n + 1) -> Seq(U)] : Solves(g, n + 1)
      BY SMTT(30)
  <2>0. n <= Len(s)
      BY <1>0
  <2>1. PICK g \in [0..n -> Seq(U)] : Solves(g, n)
    <3> HIDE DEF Solves
    <3> QED
      BY <1>2, <2>0
  <2> DEFINE next == IF s[n + 1] \in K THEN Append(g[n], s[n + 1]) ELSE g[n]
             h == [i \in 0..(n + 1) |-> IF i <= n THEN g[i] ELSE next]
  <2>2. next \in Seq(U)
      BY <1>0, <2>1
  <2>3. h \in [0..(n + 1) -> Seq(U)]
      BY <2>1, <2>2
  <2>4. Solves(h, n + 1)
    <3> SUFFICES ASSUME NEW i \in 0..(n + 1)
                 PROVE  h[i] = IF i = 0 THEN <<>>
                               ELSE IF s[i] \in K THEN Append(h[i - 1], s[i]) ELSE h[i - 1]
        OBVIOUS
    <3>1. CASE i <= n
      <4>1. h[i] = g[i] /\ i \in 0..n /\ (i # 0 => h[i - 1] = g[i - 1])
          BY <3>1
      <4> HIDE DEF h, next
      <4> QED
          BY <2>1, <4>1
    <3>2. CASE i = n + 1
      <4>1. h[i] = next /\ i # 0 /\ h[i - 1] = g[n]
          BY <3>2
      <4> QED
          BY <3>2, <4>1
    <3> QED
        BY <3>1, <3>2
  <2> QED
      BY <2>3, <2>4
<1>3. Nat \subseteq S
  <2> HIDE DEF S
  <2> QED
      BY <1>1, <1>2, SetInduction
<1>4. PICK g \in [0..Len(s) -> Seq(U)] : Solves(g, Len(s))
  <2> HIDE DEF Solves
  <2> QED
    BY <1>0, <1>3
<1> DEFINE kept == CHOOSE f : f = [i \in 0..Len(s) |->
                      IF i = 0 THEN <<>>
                      ELSE IF s[i] \in K THEN Append(f[i - 1], s[i]) ELSE f[i - 1]]
<1>5. g = [i \in 0..Len(s) |->
                      IF i = 0 THEN <<>>
                      ELSE IF s[i] \in K THEN Append(g[i - 1], s[i]) ELSE g[i - 1]]
    BY <1>4
<1>6. kept = [i \in 0..Len(s) |->
                      IF i = 0 THEN <<>>
                      ELSE IF s[i] \in K THEN Append(kept[i - 1], s[i]) ELSE kept[i - 1]]
    BY <1>5
<1>7. Only(s, K) = kept[Len(s)]
    BY DEF Only
<1> HIDE DEF kept
<1>8. Solves(kept, Len(s))
    BY <1>6
<1> DEFINE T == {n \in Nat : n <= Len(s) => kept[n] \in Seq(U)}
<1>9. 0 \in T
  <2>1. kept[0] = <<>>
      BY <1>0, <1>8
  <2>2. <<>> \in Seq(U)
      OBVIOUS
  <2> QED
      BY <2>1, <2>2
<1>10. ASSUME NEW n \in Nat, n \in T PROVE n + 1 \in T
  <2> SUFFICES ASSUME n + 1 <= Len(s) PROVE kept[n + 1] \in Seq(U)
      OBVIOUS
  <2>1. kept[n] \in Seq(U) /\ n + 1 \in 0..Len(s) /\ s[n + 1] \in U /\ (n + 1) - 1 = n
      BY <1>0, <1>10
  <2>2. kept[n + 1] = IF s[n + 1] \in K THEN Append(kept[n], s[n + 1]) ELSE kept[n]
      BY <1>8, <2>1
  <2> QED
      BY <2>1, <2>2
<1>11. Nat \subseteq T
  <2> HIDE DEF T
  <2> QED
      BY <1>9, <1>10, SetInduction
<1>12. kept \in [0..Len(s) -> Seq(U)]
  <2>1. \A n \in 0..Len(s) : kept[n] \in Seq(U)
      BY <1>0, <1>11
  <2> QED
      BY <1>6, <2>1
<1> QED
    BY <1>7, <1>8, <1>12

\* Only keeps every occurrence of the members of K, and nothing else.
LEMMA OnlyFacts ==
    ASSUME NEW U, NEW s \in Seq(U), NEW K
    PROVE  /\ Only(s, K) \in Seq(U)
           /\ \A x : Occurrences(x, Only(s, K)) = IF x \in K THEN Occurrences(x, s) ELSE 0
<1>1. PICK kept \in [0..Len(s) -> Seq(U)] :
               /\ Only(s, K) = kept[Len(s)]
               /\ \A i \in 0..Len(s) : kept[i] =
                      IF i = 0 THEN <<>>
                      ELSE IF s[i] \in K THEN Append(kept[i - 1], s[i]) ELSE kept[i - 1]
    BY OnlyUnfolds, SMTT(30)
<1>0. Len(s) \in Nat /\ \A i \in 1..Len(s) : s[i] \in U
    OBVIOUS
<1>2. ASSUME NEW x
      PROVE  Occurrences(x, Only(s, K)) = IF x \in K THEN Occurrences(x, s) ELSE 0
  <2> DEFINE S == {n \in Nat : n <= Len(s) =>
                      Occurrences(x, kept[n])
                          = IF x \in K THEN Occurrences(x, SubSeq(s, 1, n)) ELSE 0}
  <2>1. 0 \in S
    <3>0. 0 \in 0..Len(s)
        BY <1>0
    <3>1. kept[0] = <<>> /\ SubSeq(s, 1, 0) = <<>>
        BY <1>1, <3>0
    <3> QED
        BY <3>1, OccEmpty
  <2>2. ASSUME NEW n \in Nat, n \in S PROVE n + 1 \in S
    <3> SUFFICES ASSUME n + 1 <= Len(s)
                 PROVE  Occurrences(x, kept[n + 1])
                          = IF x \in K THEN Occurrences(x, SubSeq(s, 1, n + 1)) ELSE 0
        OBVIOUS
    <3> DEFINE p == SubSeq(s, 1, n)
               y == s[n + 1]
    <3>1. n \in 0..Len(s) /\ n + 1 \in 0..Len(s) /\ (n + 1) - 1 = n /\ y \in U /\ p \in Seq(U)
        BY <1>0
    <3>2. SubSeq(s, 1, n + 1) = Append(p, y)
        BY <3>1
    <3>3. kept[n] \in Seq(U) /\ kept[n + 1] = IF y \in K THEN Append(kept[n], y) ELSE kept[n]
      <4>1. kept[n] \in Seq(U)
          BY <3>1
      <4>2. n + 1 # 0
          OBVIOUS
      <4>3. kept[n + 1] = IF n + 1 = 0 THEN <<>>
                          ELSE IF y \in K THEN Append(kept[(n + 1) - 1], y) ELSE kept[(n + 1) - 1]
          BY <1>1, <3>1
      <4> QED
          BY <3>1, <4>1, <4>2, <4>3
    <3>4. Occurrences(x, kept[n]) = IF x \in K THEN Occurrences(x, p) ELSE 0
        BY <2>2, <3>1
    <3> HIDE DEF p, y
    <3>5. Occurrences(x, Append(p, y)) = Occurrences(x, p) + (IF x = y THEN 1 ELSE 0)
        BY <3>1, OccAppend
    <3>6. Occurrences(x, Append(kept[n], y)) = Occurrences(x, kept[n]) + (IF x = y THEN 1 ELSE 0)
        BY <3>1, <3>3, OccAppend
    <3>7. Occurrences(x, kept[n]) \in Nat /\ Occurrences(x, p) \in Nat
        BY <3>1, <3>3, OccType
    <3>8. CASE y \in K
      <4>1. kept[n + 1] = Append(kept[n], y)
          BY <3>3, <3>8
      <4>2. CASE x \in K
        <5>1. Occurrences(x, kept[n + 1]) = Occurrences(x, SubSeq(s, 1, n + 1))
            BY <3>2, <3>4, <3>5, <3>6, <4>1, <4>2
        <5> QED
            BY <4>2, <5>1
      <4>3. CASE x \notin K
        <5>1. x # y
            BY <3>8, <4>3
        <5>2. Occurrences(x, kept[n + 1]) = 0
            BY <3>4, <3>6, <4>1, <4>3, <5>1
        <5> QED
            BY <4>3, <5>2
      <4> QED
          BY <4>2, <4>3
    <3>9. CASE y \notin K
      <4>1. kept[n + 1] = kept[n]
          BY <3>3, <3>9
      <4>2. CASE x \in K
        <5>1. x # y
            BY <3>9, <4>2
        <5>2. Occurrences(x, kept[n + 1]) = Occurrences(x, SubSeq(s, 1, n + 1))
          <6>1. Occurrences(x, SubSeq(s, 1, n + 1)) = Occurrences(x, p) + 0
              BY <3>2, <3>5, <5>1
          <6> QED
              BY <3>4, <3>7, <4>1, <4>2, <6>1
        <5> QED
            BY <4>2, <5>2
      <4>3. CASE x \notin K
          BY <3>4, <4>1, <4>3
      <4> QED
          BY <4>2, <4>3
    <3> QED
        BY <3>8, <3>9
  <2>3. Nat \subseteq S
    <3> HIDE DEF S
    <3> QED
        BY <2>1, <2>2, SetInduction
  <2>4. Occurrences(x, kept[Len(s)])
            = IF x \in K THEN Occurrences(x, SubSeq(s, 1, Len(s))) ELSE 0
      BY <1>0, <2>3
  <2>5. SubSeq(s, 1, Len(s)) = s
      BY SubSeqFull
  <2> QED
      BY <1>1, <2>4, <2>5
<1> QED
    BY <1>0, <1>1, <1>2

\* Tagging every member of a queue.
LEMMA OccTagged ==
    ASSUME NEW U, NEW s \in Seq(U), NEW K, NEW k \in K
    PROVE  LET t == [i \in DOMAIN s |-> <<k, s[i]>>]
           IN  /\ t \in Seq(K \X U)
               /\ \A x : Occurrences(<<k, x>>, t) = Occurrences(x, s)
               /\ \A j, x : j # k => Occurrences(<<j, x>>, t) = 0
<1> DEFINE t == [i \in DOMAIN s |-> <<k, s[i]>>]
<1>1. t \in Seq(K \X U) /\ DOMAIN t = DOMAIN s
  <2>1. DOMAIN s = 1..Len(s) /\ Len(s) \in Nat /\ \A i \in 1..Len(s) : s[i] \in U
      OBVIOUS
  <2>2. t \in [1..Len(s) -> K \X U]
      BY <2>1
  <2> QED
      BY <2>1, <2>2
<1>2. ASSUME NEW x PROVE Occurrences(<<k, x>>, t) = Occurrences(x, s)
  <2>1. {i \in DOMAIN t : t[i] = <<k, x>>} = {i \in DOMAIN s : s[i] = x}
      BY <1>1
  <2> QED
      BY <2>1 DEF Occurrences
<1>3. ASSUME NEW j, NEW x, j # k PROVE Occurrences(<<j, x>>, t) = 0
  <2>1. {i \in DOMAIN t : t[i] = <<j, x>>} = {}
      BY <1>1, <1>3
  <2> QED
      BY <2>1, FS_EmptySet DEF Occurrences
<1> QED
    BY <1>1, <1>2, <1>3

-----------------------------------------------------------------------------
(* Sums.  The sum of a function over a finite set counts the cells of its  *)
(* columns there; everything else about sums is counting.                  *)

Units(f, S) == UNION {Column(f, i) : i \in S}

LEMMA UnitsFinite ==
    ASSUME NEW S, IsFiniteSet(S), NEW f, \A i \in S : f[i] \in Nat
    PROVE  IsFiniteSet(Units(f, S)) /\ Cardinality(Units(f, S)) \in Nat
<1> DEFINE columns == {Column(f, i) : i \in S}
           g == [i \in S |-> Column(f, i)]
<1>1. g \in Surjection(S, columns)
    BY DEF Surjection
<1>2. IsFiniteSet(columns)
    BY <1>1, FS_Surjection
<1>3. \A T \in columns : IsFiniteSet(T)
    BY ColumnSize
<1>4. IsFiniteSet(UNION columns)
    BY <1>2, <1>3, FS_UNION
<1> QED
    BY <1>4, FS_CardinalityType DEF Units

\* Columns of different sets of owners have no cell in common.
LEMMA UnitsSplit ==
    ASSUME NEW S, IsFiniteSet(S), NEW T \in SUBSET S, NEW f, \A i \in S : f[i] \in Nat
    PROVE  Cardinality(Units(f, S))
               = Cardinality(Units(f, T)) + Cardinality(Units(f, S \ T))
<1> DEFINE A == Units(f, T)
           B == Units(f, S \ T)
<1>1. IsFiniteSet(T) /\ IsFiniteSet(S \ T)
    BY FS_Subset
<1>2. IsFiniteSet(A) /\ IsFiniteSet(B) /\ Cardinality(A) \in Nat /\ Cardinality(B) \in Nat
    BY <1>1, UnitsFinite
<1>3. A \cap B = {} /\ Units(f, S) = A \cup B
    BY DEF Units, Column
<1> HIDE DEF A, B
<1>4. Cardinality(A \cup B) = Cardinality(A) + Cardinality(B) - Cardinality(A \cap B)
    BY <1>2, FS_Union
<1>5. Cardinality(A \cap B) = 0
    BY <1>3, FS_EmptySet
<1>6. Cardinality(Units(f, S)) = Cardinality(A) + Cardinality(B)
    BY <1>2, <1>3, <1>4, <1>5
<1> QED
    BY <1>6 DEF A, B

LEMMA UnitsOne ==
    ASSUME NEW f, NEW i, f[i] \in Nat
    PROVE  Cardinality(Units(f, {i})) = f[i]
<1>1. Units(f, {i}) = Column(f, i)
    BY DEF Units
<1> QED
    BY <1>1, ColumnSize

(***************************************************************************)
(* The library's sum is a recursion over the subsets of S that picks the   *)
(* members one by one.  The count satisfies the recursion, and nothing     *)
(* else does.                                                              *)
(***************************************************************************)
PickOne(s) == CHOOSE x \in s : TRUE
Unfolds(f, S, sum) ==
    sum = [s \in SUBSET S |->
              IF s = {} THEN 0 ELSE f[PickOne(s)] + sum[s \ {PickOne(s)}]]

LEMMA SumIsCount ==
    ASSUME NEW S, IsFiniteSet(S), NEW f, \A i \in S : f[i] \in Nat
    PROVE  SumFunctionOnSet(f, S) = Cardinality(Units(f, S))
<1> DEFINE count == [s \in SUBSET S |-> Cardinality(Units(f, s))]
           it == CHOOSE sum : Unfolds(f, S, sum)
<1>1. SumFunctionOnSet(f, S) = it[S]
    BY Zenon DEF SumFunctionOnSet, FoldFunctionOnSet, MapThenFoldSet, Unfolds, PickOne
<1>2. ASSUME NEW s \in SUBSET S
      PROVE  count[s] = (IF s = {} THEN 0 ELSE f[PickOne(s)] + count[s \ {PickOne(s)}])
  <2>1. CASE s = {}
    <3>1. Units(f, {}) = {}
        BY DEF Units
    <3> QED
        BY <2>1, <3>1, FS_EmptySet
  <2>2. CASE s # {}
    <3> DEFINE x == PickOne(s)
    <3>1. x \in s
        BY <2>2 DEF PickOne
    <3> HIDE DEF x
    <3>2. IsFiniteSet(s) /\ {x} \in SUBSET s /\ \A i \in s : f[i] \in Nat
        BY <3>1, FS_Subset
    <3>3. Cardinality(Units(f, s))
              = Cardinality(Units(f, {x})) + Cardinality(Units(f, s \ {x}))
        BY <3>2, UnitsSplit
    <3>4. Cardinality(Units(f, {x})) = f[x]
        BY <3>1, <3>2, UnitsOne
    <3> QED
        BY <2>2, <3>3, <3>4 DEF x
  <2> QED
      BY <2>1, <2>2
<1>3. Unfolds(f, S, count)
    BY <1>2 DEF Unfolds
<1>4. Unfolds(f, S, it)
    BY <1>3
<1> HIDE DEF it
<1>5. ASSUME NEW n \in Nat, \A s \in SUBSET S : Cardinality(s) = n => it[s] = count[s]
      PROVE  \A s \in SUBSET S : Cardinality(s) = n + 1 => it[s] = count[s]
  <2> SUFFICES ASSUME NEW s \in SUBSET S, Cardinality(s) = n + 1
               PROVE  it[s] = count[s]
      OBVIOUS
  <2> DEFINE x == PickOne(s)
  <2>1. IsFiniteSet(s) /\ s # {}
      BY FS_Subset, FS_EmptySet
  <2>2. x \in s
      BY <2>1 DEF PickOne
  <2> HIDE DEF x
  <2>3. s \ {x} \in SUBSET S /\ Cardinality(s \ {x}) = n
    <3>1. Cardinality(s \ {x}) = Cardinality(s) - 1
        BY <2>1, <2>2, FS_RemoveElement
    <3> QED
        BY <3>1
  <2>4. it[s] = f[x] + it[s \ {x}]
      BY <1>4, <2>1 DEF Unfolds, x
  <2>5. count[s] = f[x] + count[s \ {x}]
      BY <1>2, <2>1 DEF x
  <2> QED
      BY <1>5, <2>3, <2>4, <2>5
<1>6. \A s \in SUBSET S : Cardinality(s) = 0 => it[s] = count[s]
  <2> SUFFICES ASSUME NEW s \in SUBSET S, Cardinality(s) = 0
               PROVE  it[s] = count[s]
      OBVIOUS
  <2>1. s = {}
      BY FS_Subset, FS_EmptySet
  <2>2. it[s] = 0
      BY <1>4, <2>1 DEF Unfolds
  <2>3. count[s] = 0
      BY <1>2, <2>1
  <2> QED
      BY <2>2, <2>3
<1> HIDE DEF count
<1> DEFINE N == {n \in Nat : \A s \in SUBSET S : Cardinality(s) = n => it[s] = count[s]}
<1>7. Nat \subseteq N
  <2>1. 0 \in N
      BY <1>6
  <2>2. \A n \in Nat : n \in N => n + 1 \in N
      BY <1>5
  <2> HIDE DEF N
  <2> QED
      BY <2>1, <2>2, SetInduction
<1>8. it[S] = count[S]
    BY <1>7, FS_CardinalityType
<1> QED
    BY <1>1, <1>8 DEF count

LEMMA SumType ==
    ASSUME NEW S, IsFiniteSet(S), NEW f, \A i \in S : f[i] \in Nat
    PROVE  SumFunctionOnSet(f, S) \in Nat
BY SumIsCount, UnitsFinite

LEMMA SumEmpty == \A f : SumFunctionOnSet(f, {}) = 0
<1> SUFFICES ASSUME NEW f PROVE SumFunctionOnSet(f, {}) = 0
    OBVIOUS
<1>1. SumFunctionOnSet(f, {}) = Cardinality(Units(f, {}))
    BY SumIsCount, FS_EmptySet
<1>2. Units(f, {}) = {}
    BY DEF Units
<1> QED
    BY <1>1, <1>2, FS_EmptySet

LEMMA SumSplit ==
    ASSUME NEW S, IsFiniteSet(S), NEW T \in SUBSET S, NEW f, \A i \in S : f[i] \in Nat
    PROVE  /\ SumFunctionOnSet(f, S) = SumFunctionOnSet(f, T) + SumFunctionOnSet(f, S \ T)
           /\ SumFunctionOnSet(f, T) \in Nat /\ SumFunctionOnSet(f, S \ T) \in Nat
<1>1. IsFiniteSet(T) /\ IsFiniteSet(S \ T)
    BY FS_Subset
<1>2. \A R \in SUBSET S : IsFiniteSet(R) => SumFunctionOnSet(f, R) = Cardinality(Units(f, R))
    BY SumIsCount
<1>3. /\ SumFunctionOnSet(f, S) = Cardinality(Units(f, S))
      /\ SumFunctionOnSet(f, T) = Cardinality(Units(f, T))
      /\ SumFunctionOnSet(f, S \ T) = Cardinality(Units(f, S \ T))
    BY <1>1, <1>2
<1>4. SumFunctionOnSet(f, T) \in Nat /\ SumFunctionOnSet(f, S \ T) \in Nat
    BY <1>1, SumType
<1> QED
    BY <1>3, <1>4, UnitsSplit

\* Functions that agree on the set have the same sum there.
LEMMA SumAgree ==
    ASSUME NEW S, IsFiniteSet(S), NEW f, NEW g, \A i \in S : f[i] \in Nat /\ g[i] = f[i]
    PROVE  SumFunctionOnSet(g, S) = SumFunctionOnSet(f, S)
<1>1. /\ SumFunctionOnSet(f, S) = Cardinality(Units(f, S))
      /\ SumFunctionOnSet(g, S) = Cardinality(Units(g, S))
    BY SumIsCount
<1>2. \A i \in S : Column(g, i) = Column(f, i)
    BY DEF Column
<1>3. Units(g, S) = Units(f, S)
    BY <1>2 DEF Units
<1> QED
    BY <1>1, <1>3

LEMMA SumOne ==
    ASSUME NEW f, NEW i, f[i] \in Nat
    PROVE  SumFunctionOnSet(f, {i}) = f[i]
BY SumIsCount, UnitsOne, FS_Singleton, ZenonT(30)

\* One member leaves the set, or joins it.
LEMMA SumRemove ==
    ASSUME NEW S, IsFiniteSet(S), NEW x \in S, NEW f, \A i \in S : f[i] \in Nat
    PROVE  /\ SumFunctionOnSet(f, S) = f[x] + SumFunctionOnSet(f, S \ {x})
           /\ SumFunctionOnSet(f, S \ {x}) \in Nat
<1>1. {x} \in SUBSET S
    OBVIOUS
<1>2. /\ SumFunctionOnSet(f, S) = SumFunctionOnSet(f, {x}) + SumFunctionOnSet(f, S \ {x})
      /\ SumFunctionOnSet(f, S \ {x}) \in Nat
    BY <1>1, SumSplit
<1> QED
    BY <1>2, SumOne

\* One entry changes.
LEMMA SumChange ==
    ASSUME NEW S, IsFiniteSet(S), NEW x \in S, NEW f, NEW g,
           \A i \in S : f[i] \in Nat /\ g[i] \in Nat /\ (i # x => g[i] = f[i])
    PROVE  SumFunctionOnSet(g, S) = SumFunctionOnSet(f, S) - f[x] + g[x]
<1> DEFINE F == SumFunctionOnSet(f, S \ {x})
           G == SumFunctionOnSet(g, S \ {x})
<1>1. SumFunctionOnSet(f, S) = f[x] + F /\ F \in Nat
    BY SumRemove
<1>2. SumFunctionOnSet(g, S) = g[x] + G /\ G \in Nat
    BY SumRemove
<1>3. F = G
    BY SumAgree, FS_RemoveElement
<1> HIDE DEF F, G
<1> QED
    BY <1>1, <1>2, <1>3

\* A sum of nothing but zeros.
LEMMA SumZero ==
    ASSUME NEW S, IsFiniteSet(S), NEW f, \A i \in S : f[i] = 0
    PROVE  SumFunctionOnSet(f, S) = 0
<1>1. Units(f, S) = {}
    BY DEF Units, Column
<1>2. SumFunctionOnSet(f, S) = Cardinality(Units(f, S))
    BY SumIsCount
<1> QED
    BY <1>1, <1>2, FS_EmptySet

\* A finite column of numbers has a highest one.
LEMMA Highest ==
    ASSUME NEW n \in Nat, NEW f \in [0..n -> Nat]
    PROVE  \E x \in 0..n : \A y \in 0..n : f[y] <= f[x]
<1> DEFINE S == {m \in Nat : m <= n => \E x \in 0..m : \A y \in 0..m : f[y] <= f[x]}
<1>0. \A i \in 0..n : f[i] \in Nat
    OBVIOUS
<1>1. 0 \in S
  <2>1. 0 \in 0..n /\ \A y \in 0..0 : y = 0
      OBVIOUS
  <2>2. \A y \in 0..0 : f[y] <= f[0]
      BY <1>0, <2>1
  <2> QED
      BY <2>2
<1>2. ASSUME NEW m \in Nat, m \in S PROVE m + 1 \in S
  <2> SUFFICES ASSUME m + 1 <= n
               PROVE  \E x \in 0..(m + 1) : \A y \in 0..(m + 1) : f[y] <= f[x]
      OBVIOUS
  <2>1. PICK x \in 0..m : \A y \in 0..m : f[y] <= f[x]
      BY <1>2
  <2>2. /\ x \in 0..n /\ m + 1 \in 0..n /\ x \in 0..(m + 1) /\ m + 1 \in 0..(m + 1)
        /\ \A y \in 0..(m + 1) : y \in 0..n /\ (y \in 0..m \/ y = m + 1)
      OBVIOUS
  <2>3. CASE f[m + 1] <= f[x]
      BY <2>1, <2>2, <2>3
  <2>4. CASE ~(f[m + 1] <= f[x])
    <3>1. \A y \in 0..(m + 1) : f[y] <= f[m + 1]
        BY <1>0, <2>1, <2>2, <2>4
    <3> QED
        BY <2>2, <3>1
  <2> QED
      BY <2>3, <2>4
<1>3. Nat \subseteq S
  <2> HIDE DEF S
  <2> QED
      BY <1>1, <1>2, SetInduction
<1>4. n \in S
    BY <1>3
<1> QED
    BY <1>4

\* A sum is not more when none of its terms is.
LEMMA SumMono ==
    ASSUME NEW S, IsFiniteSet(S), NEW f, NEW g, \A i \in S : f[i] \in Nat /\ g[i] \in Nat /\ g[i] <= f[i]
    PROVE  /\ SumFunctionOnSet(g, S) <= SumFunctionOnSet(f, S)
           /\ SumFunctionOnSet(g, S) \in Nat /\ SumFunctionOnSet(f, S) \in Nat
<1>1. /\ SumFunctionOnSet(f, S) = Cardinality(Units(f, S))
      /\ SumFunctionOnSet(g, S) = Cardinality(Units(g, S))
      /\ SumFunctionOnSet(f, S) \in Nat /\ SumFunctionOnSet(g, S) \in Nat
    BY SumIsCount, SumType
<1>2. IsFiniteSet(Units(f, S))
    BY UnitsFinite
<1>3. ASSUME NEW i \in S PROVE Column(g, i) \subseteq Column(f, i)
  <2>1. f[i] \in Nat /\ g[i] \in Nat /\ g[i] <= f[i]
      OBVIOUS
  <2>2. 1..g[i] \subseteq 1..f[i]
      BY <2>1
  <2> QED
      BY <2>2 DEF Column
<1>4. Units(g, S) \subseteq Units(f, S)
    BY <1>3 DEF Units
<1> HIDE DEF Units
<1> QED
    BY <1>1, <1>2, <1>4, FS_Subset

=============================================================================
