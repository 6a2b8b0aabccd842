----------------------------- MODULE HBFProofs -----------------------------
(***************************************************************************)
(* Proofs about HBFServing, for every number of groups, cards and          *)
(* sessions, every capacity and policy, and every script. First what       *)
(* each operator of HBFLifecycle does to a good state: books that are      *)
(* exact, contexts that are where their state says, jobs that stay with    *)
(* their lineage. Then that the turns and batches of the pool fit the      *)
(* contexts, and with it the invariant Sound of the whole system; that     *)
(* every step is one the sessions expect; with the invariant Booked, that  *)
(* the LPDDR ledger holds for every session what it has there; and, from   *)
(* all of these, that no runtime check fires.                              *)
(***************************************************************************)
EXTENDS HBFServing, LedgerProofs

(* Token ranges striped over the cards.                                    *)

Counts == [Card -> Nat]

LEMMA CardFacts == 0 \in Card /\ Card \subseteq Nat
    BY CardsAssumption DEF Card

LEMMA StripeType ==
    ASSUME NEW a \in Nat, NEW n \in Nat
    PROVE  Stripe(a, n) \in Counts
<1> SUFFICES ASSUME NEW c \in Card
             PROVE  Cardinality({p \in a..(a + n - 1) : p % Tp = c}) \in Nat
    BY DEF Stripe, Counts
<1>1. IsFiniteSet(a..(a + n - 1))
    BY FS_Interval
<1> QED
    BY <1>1, FS_CardinalityType, FS_Subset

\* A range followed by another is the range of both.
LEMMA StripeSplit ==
    ASSUME NEW a \in Nat, NEW n \in Nat, NEW m \in Nat, NEW c \in Card
    PROVE  Stripe(a, n + m)[c] = Stripe(a, n)[c] + Stripe(a + n, m)[c]
<1> DEFINE A == {p \in a..(a + n - 1) : p % Tp = c}
           B == {p \in (a + n)..(a + n + m - 1) : p % Tp = c}
           U == {p \in a..(a + (n + m) - 1) : p % Tp = c}
<1>1. Stripe(a, n)[c] = Cardinality(A) /\ Stripe(a + n, m)[c] = Cardinality(B)
      /\ Stripe(a, n + m)[c] = Cardinality(U)
    BY DEF Stripe
<1>2. U = A \cup B
    OBVIOUS
<1>3. A \cap B = {}
    OBVIOUS
<1>4. IsFiniteSet(a..(a + n - 1)) /\ IsFiniteSet((a + n)..(a + n + m - 1))
    BY FS_Interval
<1>5. IsFiniteSet(A) /\ IsFiniteSet(B)
    BY <1>4, FS_Subset
<1> HIDE DEF A, B, U
<1>6. Cardinality(A \cup B) = Cardinality(A) + Cardinality(B) - Cardinality(A \cap B)
    BY <1>5, FS_Union
<1>7. Cardinality(A) \in Nat /\ Cardinality(B) \in Nat /\ Cardinality(A \cap B) = 0
    BY <1>3, <1>5, FS_CardinalityType, FS_EmptySet
<1> QED
    BY <1>1, <1>2, <1>6, <1>7

LEMMA StripeNone ==
    ASSUME NEW a \in Nat
    PROVE  Stripe(a, 0) = Zero
<1> QED
    BY DEF Zero, Stripe

LEMMA ZeroFacts == Zero \in Counts /\ \A c \in Card : Zero[c] = 0
<1>1. Zero \in Counts
    BY StripeType DEF Zero
<1>2. ASSUME NEW c \in Card PROVE Zero[c] = 0
  <2>2. Zero[c] = Zero[c] + Zero[c] /\ Zero[c] \in Nat
      BY <1>1, StripeSplit DEF Zero, Counts
  <2>3. \A x \in Nat : x = x + x => x = 0
      OBVIOUS
  <2> HIDE DEF Zero
  <2> QED
      BY <2>2, <2>3
<1> QED
    BY <1>1, <1>2

\* Part of a range holds no more than the range.
LEMMA StripeWithin ==
    ASSUME NEW a \in Nat, NEW n \in Nat, NEW m \in Nat, n <= m, NEW c \in Card
    PROVE  /\ Stripe(a, n)[c] <= Stripe(a, m)[c]
           /\ Stripe(a + n, m - n)[c] <= Stripe(a, m)[c]
           /\ Stripe(a, m)[c] = Stripe(a, n)[c] + Stripe(a + n, m - n)[c]
<1>1. Stripe(a, n + (m - n))[c] = Stripe(a, n)[c] + Stripe(a + n, m - n)[c]
    BY StripeSplit
<1>2. Stripe(a, n) \in Counts /\ Stripe(a + n, m - n) \in Counts
    BY StripeType
<1>4. n + (m - n) = m
    OBVIOUS
<1> QED
    BY <1>1, <1>2, <1>4 DEF Counts

LEMMA PlusMinus ==
    ASSUME NEW v \in Counts, NEW w \in Counts
    PROVE  /\ Plus(v, w) \in Counts
           /\ Within(w, v) => Minus(v, w) \in Counts
           /\ \A c \in Card : Plus(v, w)[c] = v[c] + w[c] /\ Minus(v, w)[c] = v[c] - w[c]
    BY DEF Plus, Minus, Within, Counts

-----------------------------------------------------------------------------
(* The shape of a state.                                                   *)

States == {"none", "gpu_active", "gpu_ready", "migrating", "ssd_ready", "hbf_ready",
           "hbf_active", "evicted", "ended"}
Places == Group \cup {NoGroup}
RecordType ==
  [state : States, generation : Nat, version : Nat, total : Nat, committed : Nat,
   lpddr : Nat, group : Places, source : {"none", "gpu", "ssd"}]
JobType ==
  [kind : {"migration", "append"}, session : Session, generation : Nat, version : Nat,
   group : Group, start : Nat, count : Nat]
HbfType ==
  [rec : [Session -> RecordType], lru : Seq(Session), jobs : SUBSET JobType,
   reserved : [Group -> Counts], lpddr : [Owner -> [group : Places, bytes : Counts]],
   failed : BOOLEAN]
Typed(b) == b \in HbfType /\ IsFiniteSet(b.jobs)

LEMMA SetupFacts ==
    ASSUME setup \in Setups
    PROVE  /\ setup.groups \in Nat \ {0} /\ setup.hbfCap \in Nat /\ setup.lpddrCap \in Nat
           /\ setup.chunk \in Nat \ {0} /\ setup.tail \in Nat \cup {-1} /\ setup.minDrain \in Nat
           /\ {setup.native, setup.recompute, setup.refresh, setup.pressure} \subseteq BOOLEAN
           /\ setup.script \in
                [Session -> Seq([input : Nat \ {0}, output : Nat \ {0}, reuse : Nat])]
           /\ Group \subseteq Nat \ {0} /\ NoGroup \notin Group
<1> QED
    BY SetupsAssumption DEF Group, NoGroup

LEMMA Typing ==
    ASSUME NEW b, Typed(b)
    PROVE  /\ b.rec \in [Session -> RecordType] /\ b.lru \in Seq(Session)
           /\ b.jobs \in SUBSET JobType /\ IsFiniteSet(b.jobs)
           /\ b.reserved \in [Group -> Counts] /\ b.failed \in BOOLEAN
           /\ b.lpddr \in [Owner -> [group : Places, bytes : Counts]]
           /\ b = [rec |-> b.rec, lru |-> b.lru, jobs |-> b.jobs, reserved |-> b.reserved,
                   lpddr |-> b.lpddr, failed |-> b.failed]
           /\ DOMAIN b = {"rec", "lru", "jobs", "reserved", "lpddr", "failed"}
    BY DEF Typed, HbfType

LEMMA RecordTyping ==
    ASSUME NEW r \in RecordType
    PROVE  /\ r.state \in States /\ r.generation \in Nat /\ r.version \in Nat /\ r.total \in Nat
           /\ r.committed \in Nat /\ r.lpddr \in Nat /\ r.group \in Places
           /\ r.source \in {"none", "gpu", "ssd"}
    BY DEF RecordType

LEMMA JobTyping ==
    ASSUME NEW j \in JobType
    PROVE  /\ j.kind \in {"migration", "append"} /\ j.session \in Session /\ j.generation \in Nat
           /\ j.version \in Nat /\ j.group \in Group /\ j.start \in Nat /\ j.count \in Nat
           /\ JobBytes(j) \in Counts
<1> QED
    BY StripeType DEF JobBytes, JobType

\* A record is given by its fields.
Fields == {"state", "generation", "version", "total", "committed", "lpddr", "group", "source"}
Shaped(m) == m = [x \in Fields |-> m[x]]

LEMMA RecordShape ==
    ASSUME NEW r \in RecordType
    PROVE  DOMAIN r = Fields /\ Shaped(r)
    BY DEF RecordType, Fields, Shaped

LEMMA Built ==
    ASSUME NEW m, Shaped(m), m.state \in States, m.generation \in Nat, m.version \in Nat,
           m.total \in Nat, m.committed \in Nat, m.lpddr \in Nat, m.group \in Places,
           m.source \in {"none", "gpu", "ssd"}
    PROVE  m \in RecordType
    BY DEF Shaped, Fields, RecordType

\* A victim of _evict_one.
LEMMA EvictedType ==
    ASSUME NEW r \in RecordType
    PROVE  LET m == Evicted(r) IN
           /\ m \in RecordType
           /\ m.state = "evicted"
           /\ m.generation = r.generation + 1
           /\ m.version = r.version
           /\ m.total = r.total
           /\ m.committed = 0
           /\ m.lpddr = 0
           /\ m.group = NoGroup
           /\ m.source = r.source
<1> DEFINE m == Evicted(r)
<1>1. DOMAIN r = Fields
    BY RecordShape
<1>2. Shaped(m)
    BY <1>1 DEF Shaped, Fields, Evicted, Without
<1>3. /\ m.state = "evicted"
      /\ m.generation = r.generation + 1
      /\ m.version = r.version
      /\ m.total = r.total
      /\ m.committed = 0
      /\ m.lpddr = 0
      /\ m.group = NoGroup
      /\ m.source = r.source
    BY <1>1 DEF Fields, Evicted, Without
<1> HIDE DEF m
<1>5. m \in RecordType
    BY <1>2, <1>3, Built, RecordTyping DEF States, Places
<1> QED
    BY <1>3, <1>5 DEF m

\* An ended session.
Ended(r) == [Without(r) EXCEPT !.state = "ended", !.source = "none"]
LEMMA EndedType ==
    ASSUME NEW r \in RecordType
    PROVE  LET m == Ended(r) IN
           /\ m \in RecordType
           /\ m.state = "ended"
           /\ m.generation = r.generation + 1
           /\ m.version = r.version
           /\ m.total = r.total
           /\ m.committed = 0
           /\ m.lpddr = 0
           /\ m.group = NoGroup
           /\ m.source = "none"
<1> DEFINE m == Ended(r)
<1>1. DOMAIN r = Fields
    BY RecordShape
<1>2. Shaped(m)
    BY <1>1 DEF Ended, Shaped, Fields, Without
<1>3. /\ m.state = "ended"
      /\ m.generation = r.generation + 1
      /\ m.version = r.version
      /\ m.total = r.total
      /\ m.committed = 0
      /\ m.lpddr = 0
      /\ m.group = NoGroup
      /\ m.source = "none"
    BY <1>1 DEF Ended, Fields, Without
<1> HIDE DEF m
<1>5. m \in RecordType
    BY <1>2, <1>3, Built, RecordTyping DEF States, Places
<1> QED
    BY <1>3, <1>5 DEF m

\* A context left for the GPUs.
Abandoned(r) == [Without(r) EXCEPT !.state = "gpu_active", !.version = @ + 1]
LEMMA AbandonedType ==
    ASSUME NEW r \in RecordType
    PROVE  LET m == Abandoned(r) IN
           /\ m \in RecordType
           /\ m.state = "gpu_active"
           /\ m.generation = r.generation + 1
           /\ m.version = r.version + 1
           /\ m.total = r.total
           /\ m.committed = 0
           /\ m.lpddr = 0
           /\ m.group = NoGroup
           /\ m.source = r.source
<1> DEFINE m == Abandoned(r)
<1>1. DOMAIN r = Fields
    BY RecordShape
<1>2. Shaped(m)
    BY <1>1 DEF Abandoned, Shaped, Fields, Without
<1>3. /\ m.state = "gpu_active"
      /\ m.generation = r.generation + 1
      /\ m.version = r.version + 1
      /\ m.total = r.total
      /\ m.committed = 0
      /\ m.lpddr = 0
      /\ m.group = NoGroup
      /\ m.source = r.source
    BY <1>1 DEF Abandoned, Fields, Without
<1> HIDE DEF m
<1>5. m \in RecordType
    BY <1>2, <1>3, Built, RecordTyping DEF States, Places
<1> QED
    BY <1>3, <1>5 DEF m

\* A session that starts to migrate.
Migrating(r, g, source) ==
  [r EXCEPT !.state = "migrating", !.generation = @ + 1, !.group = g, !.source = source]
LEMMA MigratingType ==
    ASSUME NEW r \in RecordType, NEW g \in Group, NEW source \in {"gpu", "ssd"}
    PROVE  LET m == Migrating(r, g, source) IN
           /\ m \in RecordType
           /\ m.state = "migrating"
           /\ m.generation = r.generation + 1
           /\ m.version = r.version
           /\ m.total = r.total
           /\ m.committed = r.committed
           /\ m.lpddr = r.lpddr
           /\ m.group = g
           /\ m.source = source
<1> DEFINE m == Migrating(r, g, source)
<1>1. DOMAIN r = Fields
    BY RecordShape
<1>2. Shaped(m)
    BY <1>1 DEF Migrating, Shaped, Fields
<1>3. /\ m.state = "migrating"
      /\ m.generation = r.generation + 1
      /\ m.version = r.version
      /\ m.total = r.total
      /\ m.committed = r.committed
      /\ m.lpddr = r.lpddr
      /\ m.group = g
      /\ m.source = source
    BY <1>1 DEF Migrating, Fields
<1> HIDE DEF m
<1>5. m \in RecordType
    BY <1>2, <1>3, Built, RecordTyping DEF States, Places
<1> QED
    BY <1>3, <1>5 DEF m

\* A session that has migrated.
Migrated(r, n) ==
  [r EXCEPT !.state = "hbf_ready", !.source = "none", !.committed = n, !.lpddr = 0]
LEMMA MigratedType ==
    ASSUME NEW r \in RecordType, NEW n \in Nat
    PROVE  LET m == Migrated(r, n) IN
           /\ m \in RecordType
           /\ m.state = "hbf_ready"
           /\ m.generation = r.generation
           /\ m.version = r.version
           /\ m.total = r.total
           /\ m.committed = n
           /\ m.lpddr = 0
           /\ m.group = r.group
           /\ m.source = "none"
<1> DEFINE m == Migrated(r, n)
<1>1. DOMAIN r = Fields
    BY RecordShape
<1>2. Shaped(m)
    BY <1>1 DEF Migrated, Shaped, Fields
<1>3. /\ m.state = "hbf_ready"
      /\ m.generation = r.generation
      /\ m.version = r.version
      /\ m.total = r.total
      /\ m.committed = n
      /\ m.lpddr = 0
      /\ m.group = r.group
      /\ m.source = "none"
    BY <1>1 DEF Migrated, Fields
<1> HIDE DEF m
<1>5. m \in RecordType
    BY <1>2, <1>3, Built, RecordTyping DEF States, Places
<1> QED
    BY <1>3, <1>5 DEF m

\* A session whose append is published.
Appended(r, n) == [r EXCEPT !.committed = @ + n, !.lpddr = @ - n]
LEMMA AppendedType ==
    ASSUME NEW r \in RecordType, NEW n \in Nat, n <= r.lpddr
    PROVE  LET m == Appended(r, n) IN
           /\ m \in RecordType
           /\ m.state = r.state
           /\ m.generation = r.generation
           /\ m.version = r.version
           /\ m.total = r.total
           /\ m.committed = r.committed + n
           /\ m.lpddr = r.lpddr - n
           /\ m.group = r.group
           /\ m.source = r.source
<1> DEFINE m == Appended(r, n)
<1>1. DOMAIN r = Fields
    BY RecordShape
<1>2. Shaped(m)
    BY <1>1 DEF Appended, Shaped, Fields
<1>3. /\ m.state = r.state
      /\ m.generation = r.generation
      /\ m.version = r.version
      /\ m.total = r.total
      /\ m.committed = r.committed + n
      /\ m.lpddr = r.lpddr - n
      /\ m.group = r.group
      /\ m.source = r.source
    BY <1>1 DEF Appended, Fields
<1> HIDE DEF m
<1>5. m \in RecordType
    BY <1>2, <1>3, Built, RecordTyping DEF States, Places
<1> QED
    BY <1>3, <1>5 DEF m

\* A session after a turn on the GPUs.
Published(r, n) == [r EXCEPT !.version = @ + 1, !.total = n, !.source = "none"]
LEMMA PublishedType ==
    ASSUME NEW r \in RecordType, NEW n \in Nat
    PROVE  LET m == Published(r, n) IN
           /\ m \in RecordType
           /\ m.state = r.state
           /\ m.generation = r.generation
           /\ m.version = r.version + 1
           /\ m.total = n
           /\ m.committed = r.committed
           /\ m.lpddr = r.lpddr
           /\ m.group = r.group
           /\ m.source = "none"
<1> DEFINE m == Published(r, n)
<1>1. DOMAIN r = Fields
    BY RecordShape
<1>2. Shaped(m)
    BY <1>1 DEF Published, Shaped, Fields
<1>3. /\ m.state = r.state
      /\ m.generation = r.generation
      /\ m.version = r.version + 1
      /\ m.total = n
      /\ m.committed = r.committed
      /\ m.lpddr = r.lpddr
      /\ m.group = r.group
      /\ m.source = "none"
    BY <1>1 DEF Published, Fields
<1> HIDE DEF m
<1>5. m \in RecordType
    BY <1>2, <1>3, Built, RecordTyping DEF States, Places
<1> QED
    BY <1>3, <1>5 DEF m

\* A session that stays on the GPUs.
GpuReady(r) == [r EXCEPT !.state = "gpu_ready", !.group = NoGroup]
LEMMA GpuReadyType ==
    ASSUME NEW r \in RecordType
    PROVE  LET m == GpuReady(r) IN
           /\ m \in RecordType
           /\ m.state = "gpu_ready"
           /\ m.generation = r.generation
           /\ m.version = r.version
           /\ m.total = r.total
           /\ m.committed = r.committed
           /\ m.lpddr = r.lpddr
           /\ m.group = NoGroup
           /\ m.source = r.source
<1> DEFINE m == GpuReady(r)
<1>1. DOMAIN r = Fields
    BY RecordShape
<1>2. Shaped(m)
    BY <1>1 DEF GpuReady, Shaped, Fields
<1>3. /\ m.state = "gpu_ready"
      /\ m.generation = r.generation
      /\ m.version = r.version
      /\ m.total = r.total
      /\ m.committed = r.committed
      /\ m.lpddr = r.lpddr
      /\ m.group = NoGroup
      /\ m.source = r.source
    BY <1>1 DEF GpuReady, Fields
<1> HIDE DEF m
<1>5. m \in RecordType
    BY <1>2, <1>3, Built, RecordTyping DEF States, Places
<1> QED
    BY <1>3, <1>5 DEF m

\* A session after a turn on HBF.
Renewed(r, n) == [r EXCEPT !.version = @ + 1, !.total = n]
LEMMA GrownType ==
    ASSUME NEW r \in RecordType, NEW n \in Nat
    PROVE  LET m == Renewed(r, n) IN
           /\ m \in RecordType
           /\ m.state = r.state
           /\ m.generation = r.generation
           /\ m.version = r.version + 1
           /\ m.total = n
           /\ m.committed = r.committed
           /\ m.lpddr = r.lpddr
           /\ m.group = r.group
           /\ m.source = r.source
<1> DEFINE m == Renewed(r, n)
<1>1. DOMAIN r = Fields
    BY RecordShape
<1>2. Shaped(m)
    BY <1>1 DEF Renewed, Shaped, Fields
<1>3. /\ m.state = r.state
      /\ m.generation = r.generation
      /\ m.version = r.version + 1
      /\ m.total = n
      /\ m.committed = r.committed
      /\ m.lpddr = r.lpddr
      /\ m.group = r.group
      /\ m.source = r.source
    BY <1>1 DEF Renewed, Fields
<1> HIDE DEF m
<1>5. m \in RecordType
    BY <1>2, <1>3, Built, RecordTyping DEF States, Places
<1> QED
    BY <1>3, <1>5 DEF m

\* A session that waits on HBF.
HbfReady(r, n) == [r EXCEPT !.state = "hbf_ready", !.lpddr = n]
LEMMA HbfReadyType ==
    ASSUME NEW r \in RecordType, NEW n \in Nat
    PROVE  LET m == HbfReady(r, n) IN
           /\ m \in RecordType
           /\ m.state = "hbf_ready"
           /\ m.generation = r.generation
           /\ m.version = r.version
           /\ m.total = r.total
           /\ m.committed = r.committed
           /\ m.lpddr = n
           /\ m.group = r.group
           /\ m.source = r.source
<1> DEFINE m == HbfReady(r, n)
<1>1. DOMAIN r = Fields
    BY RecordShape
<1>2. Shaped(m)
    BY <1>1 DEF HbfReady, Shaped, Fields
<1>3. /\ m.state = "hbf_ready"
      /\ m.generation = r.generation
      /\ m.version = r.version
      /\ m.total = r.total
      /\ m.committed = r.committed
      /\ m.lpddr = n
      /\ m.group = r.group
      /\ m.source = r.source
    BY <1>1 DEF HbfReady, Fields
<1> HIDE DEF m
<1>5. m \in RecordType
    BY <1>2, <1>3, Built, RecordTyping DEF States, Places
<1> QED
    BY <1>3, <1>5 DEF m

\* A session whose drain adopts a prompt.
Adopted(r, n, k) == [r EXCEPT !.version = @ + 1, !.total = n, !.lpddr = k]
LEMMA AdoptedType ==
    ASSUME NEW r \in RecordType, NEW n \in Nat, NEW k \in Nat
    PROVE  LET m == Adopted(r, n, k) IN
           /\ m \in RecordType
           /\ m.state = r.state
           /\ m.generation = r.generation
           /\ m.version = r.version + 1
           /\ m.total = n
           /\ m.committed = r.committed
           /\ m.lpddr = k
           /\ m.group = r.group
           /\ m.source = r.source
<1> DEFINE m == Adopted(r, n, k)
<1>1. DOMAIN r = Fields
    BY RecordShape
<1>2. Shaped(m)
    BY <1>1 DEF Adopted, Shaped, Fields
<1>3. /\ m.state = r.state
      /\ m.generation = r.generation
      /\ m.version = r.version + 1
      /\ m.total = n
      /\ m.committed = r.committed
      /\ m.lpddr = k
      /\ m.group = r.group
      /\ m.source = r.source
    BY <1>1 DEF Adopted, Fields
<1> HIDE DEF m
<1>5. m \in RecordType
    BY <1>2, <1>3, Built, RecordTyping DEF States, Places
<1> QED
    BY <1>3, <1>5 DEF m

\* A session whose context is cut.
Trimmed(r, n, k) ==
  [r EXCEPT !.generation = @ + 1, !.version = @ + 1, !.total = n, !.committed = k,
             !.lpddr = n - k]
LEMMA TrimmedType ==
    ASSUME NEW r \in RecordType, NEW n \in Nat, NEW k \in Nat, k <= n
    PROVE  LET m == Trimmed(r, n, k) IN
           /\ m \in RecordType
           /\ m.state = r.state
           /\ m.generation = r.generation + 1
           /\ m.version = r.version + 1
           /\ m.total = n
           /\ m.committed = k
           /\ m.lpddr = n - k
           /\ m.group = r.group
           /\ m.source = r.source
<1> DEFINE m == Trimmed(r, n, k)
<1>1. DOMAIN r = Fields
    BY RecordShape
<1>2. Shaped(m)
    BY <1>1 DEF Trimmed, Shaped, Fields
<1>3. /\ m.state = r.state
      /\ m.generation = r.generation + 1
      /\ m.version = r.version + 1
      /\ m.total = n
      /\ m.committed = k
      /\ m.lpddr = n - k
      /\ m.group = r.group
      /\ m.source = r.source
    BY <1>1 DEF Trimmed, Fields
<1> HIDE DEF m
<1>5. m \in RecordType
    BY <1>2, <1>3, Built, RecordTyping DEF States, Places
<1> QED
    BY <1>3, <1>5 DEF m

\* A session that only changes state.
InState(r, st) == [r EXCEPT !.state = st]
LEMMA StateType ==
    ASSUME NEW r \in RecordType, NEW st \in States
    PROVE  LET m == InState(r, st) IN
           /\ m \in RecordType
           /\ m.state = st
           /\ m.generation = r.generation
           /\ m.version = r.version
           /\ m.total = r.total
           /\ m.committed = r.committed
           /\ m.lpddr = r.lpddr
           /\ m.group = r.group
           /\ m.source = r.source
<1> DEFINE m == InState(r, st)
<1>1. DOMAIN r = Fields
    BY RecordShape
<1>2. Shaped(m)
    BY <1>1 DEF InState, Shaped, Fields
<1>3. /\ m.state = st
      /\ m.generation = r.generation
      /\ m.version = r.version
      /\ m.total = r.total
      /\ m.committed = r.committed
      /\ m.lpddr = r.lpddr
      /\ m.group = r.group
      /\ m.source = r.source
    BY <1>1 DEF InState, Fields
<1> HIDE DEF m
<1>5. m \in RecordType
    BY <1>2, <1>3, Built, RecordTyping DEF States, Places
<1> QED
    BY <1>3, <1>5 DEF m

\* A session whose copy on the GPUs is dropped.
Dropped(r) == [r EXCEPT !.state = "evicted", !.generation = @ + 1]
LEMMA DroppedType ==
    ASSUME NEW r \in RecordType
    PROVE  LET m == Dropped(r) IN
           /\ m \in RecordType
           /\ m.state = "evicted"
           /\ m.generation = r.generation + 1
           /\ m.version = r.version
           /\ m.total = r.total
           /\ m.committed = r.committed
           /\ m.lpddr = r.lpddr
           /\ m.group = r.group
           /\ m.source = r.source
<1> DEFINE m == Dropped(r)
<1>1. DOMAIN r = Fields
    BY RecordShape
<1>2. Shaped(m)
    BY <1>1 DEF Dropped, Shaped, Fields
<1>3. /\ m.state = "evicted"
      /\ m.generation = r.generation + 1
      /\ m.version = r.version
      /\ m.total = r.total
      /\ m.committed = r.committed
      /\ m.lpddr = r.lpddr
      /\ m.group = r.group
      /\ m.source = r.source
    BY <1>1 DEF Dropped, Fields
<1> HIDE DEF m
<1>5. m \in RecordType
    BY <1>2, <1>3, Built, RecordTyping DEF States, Places
<1> QED
    BY <1>3, <1>5 DEF m

\* A session that resumes on the GPUs.
GpuActive(r, n, v, k) ==
  [r EXCEPT !.state = "gpu_active", !.group = NoGroup, !.source = "none", !.total = n,
             !.version = @ + v, !.generation = @ + k]
LEMMA GpuActiveType ==
    ASSUME NEW r \in RecordType, NEW n \in Nat, NEW v \in Nat, NEW k \in Nat
    PROVE  LET m == GpuActive(r, n, v, k) IN
           /\ m \in RecordType
           /\ m.state = "gpu_active"
           /\ m.generation = r.generation + k
           /\ m.version = r.version + v
           /\ m.total = n
           /\ m.committed = r.committed
           /\ m.lpddr = r.lpddr
           /\ m.group = NoGroup
           /\ m.source = "none"
<1> DEFINE m == GpuActive(r, n, v, k)
<1>1. DOMAIN r = Fields
    BY RecordShape
<1>2. Shaped(m)
    BY <1>1 DEF GpuActive, Shaped, Fields
<1>3. /\ m.state = "gpu_active"
      /\ m.generation = r.generation + k
      /\ m.version = r.version + v
      /\ m.total = n
      /\ m.committed = r.committed
      /\ m.lpddr = r.lpddr
      /\ m.group = NoGroup
      /\ m.source = "none"
    BY <1>1 DEF GpuActive, Fields
<1> HIDE DEF m
<1>5. m \in RecordType
    BY <1>2, <1>3, Built, RecordTyping DEF States, Places
<1> QED
    BY <1>3, <1>5 DEF m

-----------------------------------------------------------------------------
(* The books of HBF: what contexts and jobs hold on a card.                *)

Share(r, g, c) == IF r.group = g THEN Committed(r)[c] ELSE 0
JobShare(j, g, c) == IF j.group = g THEN JobBytes(j)[c] ELSE 0
Kept(rec, g, c) == SumFunctionOnSet([s \in Session |-> Share(rec[s], g, c)], Session)
Flying(jobs, g, c) == SumFunctionOnSet([j \in jobs |-> JobShare(j, g, c)], jobs)
Exact(b) ==
  \A g \in Group, c \in Card :
    /\ b.reserved[g][c] = Kept(b.rec, g, c) + Flying(b.jobs, g, c)
    /\ b.reserved[g][c] <= setup.hbfCap

LEMMA ShareType ==
    ASSUME NEW r \in RecordType, NEW g, NEW c \in Card
    PROVE  Committed(r) \in Counts /\ Share(r, g, c) \in Nat
<1> QED
    BY RecordTyping, StripeType DEF Share, Counts, Committed

LEMMA JobShareType ==
    ASSUME NEW j \in JobType, NEW g, NEW c \in Card
    PROVE  JobShare(j, g, c) \in Nat
<1>1. JobBytes(j)[c] \in Nat
    BY JobTyping DEF Counts
<1> QED
    BY <1>1 DEF JobShare

LEMMA KeptType ==
    ASSUME NEW rec \in [Session -> RecordType], NEW g, NEW c \in Card
    PROVE  Kept(rec, g, c) \in Nat
<1> DEFINE f == [s \in Session |-> Share(rec[s], g, c)]
<1> HIDE DEF f
<1> QED
    BY SumType, SessionsAssumption, ShareType DEF Kept, f

LEMMA FlyingType ==
    ASSUME NEW jobs \in SUBSET JobType, IsFiniteSet(jobs), NEW g, NEW c \in Card
    PROVE  Flying(jobs, g, c) \in Nat
<1> DEFINE f == [j \in jobs |-> JobShare(j, g, c)]
<1> HIDE DEF f
<1> QED
    BY SumType, JobShareType DEF Flying, f

\* One session changes what it keeps.
LEMMA KeptChange ==
    ASSUME NEW rec \in [Session -> RecordType], NEW s \in Session, NEW r \in RecordType,
           NEW g, NEW c \in Card
    PROVE  Kept([rec EXCEPT ![s] = r], g, c) = Kept(rec, g, c) - Share(rec[s], g, c) + Share(r, g, c)
<1> DEFINE f == [t \in Session |-> Share(rec[t], g, c)]
           new == [rec EXCEPT ![s] = r]
           h == [t \in Session |-> Share(new[t], g, c)]
<1> HIDE DEF f, h
<1> QED
    BY SumChange, SessionsAssumption, ShareType DEF Kept, f, h

LEMMA FlyingAdd ==
    ASSUME NEW jobs \in SUBSET JobType, IsFiniteSet(jobs), NEW j \in JobType, j \notin jobs,
           NEW g, NEW c \in Card
    PROVE  Flying(jobs \cup {j}, g, c) = Flying(jobs, g, c) + JobShare(j, g, c)
<1> DEFINE T == jobs \cup {j}
           f == [k \in T |-> JobShare(k, g, c)]
           h == [k \in jobs |-> JobShare(k, g, c)]
<1>1. IsFiniteSet(T) /\ j \in T /\ T \ {j} = jobs
    BY FS_AddElement
<1>2. \A k \in T : f[k] \in Nat
    BY JobShareType
<1> HIDE DEF f, h, T
<1>7. f[j] \in Nat
    BY <1>1, <1>2
<1> QED
    BY <1>1, <1>2, <1>7, SumRemove, SumAgree, JobShareType DEF Flying, f, h, T

LEMMA FlyingRemove ==
    ASSUME NEW jobs \in SUBSET JobType, IsFiniteSet(jobs), NEW j \in jobs, NEW g, NEW c \in Card
    PROVE  Flying(jobs \ {j}, g, c) = Flying(jobs, g, c) - JobShare(j, g, c)
<1> DEFINE R == jobs \ {j}
<1>1. R \in SUBSET JobType /\ IsFiniteSet(R) /\ j \in JobType /\ j \notin R /\ R \cup {j} = jobs
    BY FS_RemoveElement
<1> HIDE DEF R
<1> QED
    BY <1>1, FlyingType, JobShareType, FlyingAdd DEF R

\* The books as HBFServing states them.
LEMMA BooksAreExact ==
    ASSUME Typed(hbf)
    PROVE  HbfBooksExact <=> Exact(hbf)
<1> SUFFICES ASSUME NEW g \in Group
             PROVE  LET kept == [s \in Session |->
                                   IF hbf.rec[s].group = g THEN Committed(hbf.rec[s]) ELSE Zero]
                        jobs == [j \in hbf.jobs |-> IF j.group = g THEN JobBytes(j) ELSE Zero]
                    IN  hbf.reserved[g] = Plus(SumOf(kept), SumOf(jobs))
                          <=> \A c \in Card : hbf.reserved[g][c]
                                    = Kept(hbf.rec, g, c) + Flying(hbf.jobs, g, c)
    BY DEF HbfBooksExact, Exact
<1> DEFINE kept == [s \in Session |->
                                   IF hbf.rec[s].group = g THEN Committed(hbf.rec[s]) ELSE Zero]
           jobs == [j \in hbf.jobs |-> IF j.group = g THEN JobBytes(j) ELSE Zero]
<1>1. ASSUME NEW c \in Card
      PROVE  SumOf(kept)[c] = Kept(hbf.rec, g, c) /\ SumOf(jobs)[c] = Flying(hbf.jobs, g, c)
  <2>1. [s \in Session |-> kept[s][c]] = [s \in Session |-> Share(hbf.rec[s], g, c)]
      BY ZeroFacts DEF Share
  <2>2. [j \in hbf.jobs |-> jobs[j][c]] = [j \in hbf.jobs |-> JobShare(j, g, c)]
      BY ZeroFacts DEF JobShare
  <2>3. DOMAIN kept = Session /\ DOMAIN jobs = hbf.jobs
      OBVIOUS
  <2> HIDE DEF kept, jobs
  <2> QED
      BY <2>1, <2>2, <2>3 DEF SumOf, Kept, Flying
<1> HIDE DEF kept, jobs
<1>5. hbf.reserved[g] = Plus(SumOf(kept), SumOf(jobs))
        <=> \A c \in Card : hbf.reserved[g][c] = Kept(hbf.rec, g, c) + Flying(hbf.jobs, g, c)
    BY <1>1, Typing DEF Counts, Plus
<1> QED
    BY <1>5 DEF kept, jobs

-----------------------------------------------------------------------------
(* The elementary operations.                                              *)

LEMMA RaiseFails ==
    ASSUME NEW b, Typed(b)
    PROVE  Raise(b).failed /\ Typed(Raise(b))
    BY Typing DEF Raise, Typed, HbfType

LEMMA FreeFacts ==
    ASSUME NEW b, Typed(b), NEW g \in Group, NEW v \in Counts, ~Free(b, g, v).failed
    PROVE  LET c == Free(b, g, v) IN
           /\ ~b.failed /\ Typed(c) /\ Within(v, b.reserved[g])
           /\ c.rec = b.rec /\ c.lru = b.lru /\ c.jobs = b.jobs /\ c.lpddr = b.lpddr
           /\ \A h \in Group, k \in Card :
                c.reserved[h][k] = b.reserved[h][k] - (IF h = g THEN v[k] ELSE 0)
<1> DEFINE c == Free(b, g, v)
<1>1. Within(v, b.reserved[g])
    BY RaiseFails DEF Free
<1>2. c = [b EXCEPT !.reserved[g] = Minus(@, v)]
    BY <1>1 DEF Free
<1>3. b.reserved[g] \in Counts /\ Minus(b.reserved[g], v) \in Counts
    BY <1>1, Typing, PlusMinus
<1>4. Typed(c)
    BY <1>2, <1>3, Typing DEF Typed, HbfType
<1>5. /\ c.rec = b.rec /\ c.lru = b.lru /\ c.jobs = b.jobs /\ c.lpddr = b.lpddr /\ c.failed = b.failed
      /\ c.reserved = [b.reserved EXCEPT ![g] = Minus(@, v)]
    BY <1>2, Typing
<1>6. ASSUME NEW h \in Group, NEW k \in Card
      PROVE  c.reserved[h][k] = b.reserved[h][k] - (IF h = g THEN v[k] ELSE 0)
  <2>3. CASE h = g
      BY <1>3, <1>5, <2>3, Typing, PlusMinus
  <2>4. CASE h # g
      BY <1>5, <2>4, Typing DEF Counts
  <2> QED
      BY <2>3, <2>4
<1> HIDE DEF c
<1>7. ~c.failed
    BY DEF c
<1> QED
    BY <1>1, <1>4, <1>5, <1>6, <1>7 DEF c

LEMMA ReserveFacts ==
    ASSUME NEW b, Typed(b), NEW g \in Group, NEW v \in Counts, ~Reserve(b, g, v).failed
    PROVE  LET c == Reserve(b, g, v) IN
           /\ ~b.failed /\ Typed(c)
           /\ \A k \in Card : b.reserved[g][k] + v[k] <= setup.hbfCap
           /\ c.rec = b.rec /\ c.lru = b.lru /\ c.jobs = b.jobs /\ c.lpddr = b.lpddr
           /\ \A h \in Group, k \in Card :
                c.reserved[h][k] = b.reserved[h][k] + (IF h = g THEN v[k] ELSE 0)
<1> DEFINE c == Reserve(b, g, v)
<1>1. \A k \in Card : b.reserved[g][k] + v[k] <= setup.hbfCap
    BY RaiseFails DEF Reserve
<1>2. c = [b EXCEPT !.reserved[g] = Plus(@, v)]
    BY <1>1 DEF Reserve
<1>3. b.reserved[g] \in Counts /\ Plus(b.reserved[g], v) \in Counts
    BY <1>1, Typing, PlusMinus
<1>4. Typed(c)
    BY <1>2, <1>3, Typing DEF Typed, HbfType
<1>5. /\ c.rec = b.rec /\ c.lru = b.lru /\ c.jobs = b.jobs /\ c.lpddr = b.lpddr /\ c.failed = b.failed
      /\ c.reserved = [b.reserved EXCEPT ![g] = Plus(@, v)]
    BY <1>2, Typing
<1>6. ASSUME NEW h \in Group, NEW k \in Card
      PROVE  c.reserved[h][k] = b.reserved[h][k] + (IF h = g THEN v[k] ELSE 0)
  <2>3. CASE h = g
      BY <1>3, <1>5, <2>3, Typing, PlusMinus
  <2>4. CASE h # g
      BY <1>5, <2>4, Typing DEF Counts
  <2> QED
      BY <2>3, <2>4
<1> HIDE DEF c
<1>7. ~c.failed
    BY DEF c
<1> QED
    BY <1>1, <1>4, <1>5, <1>6, <1>7 DEF c

LEMMA OwnerFacts ==
    ASSUME NEW s \in Session
    PROVE  /\ Holder(s) \in Owner /\ Headroom(s) \in Owner /\ Holder(s) # Headroom(s)
           /\ \A t \in Session : /\ Holder(s) = Holder(t) => s = t
                                 /\ Headroom(s) = Headroom(t) => s = t
                                 /\ Holder(s) # Headroom(t)
    BY DEF Holder, Headroom, Owner

LEMMA EntryFacts ==
    ASSUME NEW g \in Places, NEW v \in Counts
    PROVE  /\ Entry(g, v) \in [group : Places, bytes : Counts] /\ Entry(g, v).bytes = v
           /\ Nobody \in [group : Places, bytes : Counts] /\ Nobody.bytes = Zero
    BY ZeroFacts DEF Entry, Nobody, Places

\* The ledger of LPDDR is apart from everything else.
LEMMA SetFacts ==
    ASSUME NEW b, Typed(b), NEW g \in Places, NEW o \in Owner, NEW v \in Counts,
           ~SetBytes(b, g, o, v).failed
    PROVE  LET c == SetBytes(b, g, o, v) IN
           /\ ~b.failed /\ Typed(c) /\ CanSet(b, g, o, v)
           /\ c.rec = b.rec /\ c.lru = b.lru /\ c.jobs = b.jobs /\ c.reserved = b.reserved
           /\ c.lpddr = [b.lpddr EXCEPT ![o] = Entry(g, v)]
<1> DEFINE c == SetBytes(b, g, o, v)
<1>1. CanSet(b, g, o, v)
    BY RaiseFails DEF SetBytes
<1>2. c = [b EXCEPT !.lpddr[o] = Entry(g, v)]
    BY <1>1 DEF SetBytes
<1>3. Entry(g, v) \in [group : Places, bytes : Counts]
    BY EntryFacts
<1>4. Typed(c)
    BY <1>2, <1>3, Typing DEF Typed, HbfType
<1> HIDE DEF c
<1>6. ~c.failed
    BY DEF c
<1> QED
    BY <1>1, <1>2, <1>4, <1>6, Typing DEF c

LEMMA DropFacts ==
    ASSUME NEW b, Typed(b), NEW o \in Owner
    PROVE  LET c == Drop(b, o) IN
           /\ Typed(c) /\ c.failed = b.failed
           /\ c.rec = b.rec /\ c.lru = b.lru /\ c.jobs = b.jobs /\ c.reserved = b.reserved
           /\ c.lpddr = [b.lpddr EXCEPT ![o] = Nobody]
<1> DEFINE c == Drop(b, o)
<1>1. c = [b EXCEPT !.lpddr[o] = Nobody]
    BY DEF Drop
<1>2. Nobody \in [group : Places, bytes : Counts]
    BY ZeroFacts DEF Nobody, Places
<1>3. Typed(c)
    BY <1>1, <1>2, Typing DEF Typed, HbfType
<1> QED
    BY <1>1, <1>3, Typing

LEMMA ShrinkFacts ==
    ASSUME NEW b, Typed(b), NEW o \in Owner, NEW v \in Counts, ~Shrink(b, o, v).failed
    PROVE  LET c == Shrink(b, o, v) IN
           /\ ~b.failed /\ Typed(c) /\ Within(v, Held(b, o))
           /\ c.rec = b.rec /\ c.lru = b.lru /\ c.jobs = b.jobs /\ c.reserved = b.reserved
           /\ c.lpddr = [b.lpddr EXCEPT ![o] = Entry(b.lpddr[o].group, Minus(Held(b, o), v))]
<1> QED
    BY SetFacts, PlusMinus, Typing, RaiseFails DEF Held, Shrink

LEMMA TouchFacts ==
    ASSUME NEW b, Typed(b), NEW s \in Session
    PROVE  LET c == Touch(b, s) IN
           /\ Typed(c) /\ c.failed = b.failed
           /\ c.rec = b.rec /\ c.jobs = b.jobs /\ c.reserved = b.reserved /\ c.lpddr = b.lpddr
           /\ c.lru = Append(Only(b.lru, Session \ {s}), s)
<1> DEFINE c == Touch(b, s)
<1>1. c = [b EXCEPT !.lru = Append(Only(b.lru, Session \ {s}), s)]
    BY Typing DEF Touch
<1>3. Append(Only(b.lru, Session \ {s}), s) \in Seq(Session)
    BY Typing, OnlyFacts
<1>4. Typed(c)
    BY <1>1, <1>3, Typing DEF Typed, HbfType
<1> QED
    BY <1>1, <1>4, Typing

\* The record of a session is replaced, or the jobs, or both.
(* How the handlers write a state, and what is written by it.              *)
RecordTo(b, c, s, r) == c = [b EXCEPT !.rec[s] = r]
JobsTo(b, c, jobs) == c = [b EXCEPT !.jobs = jobs]
BothTo(b, c, s, r, jobs) == c = [b EXCEPT !.rec[s] = r, !.jobs = jobs]
Wrote(b, c, s, r, jobs) ==
  /\ Typed(c) /\ c.failed = b.failed /\ c.rec = [b.rec EXCEPT ![s] = r] /\ c.rec[s] = r
  /\ \A t \in Session \ {s} : c.rec[t] = b.rec[t]
  /\ c.lru = b.lru /\ c.jobs = jobs /\ c.reserved = b.reserved /\ c.lpddr = b.lpddr

LEMMA RecordSet ==
    ASSUME NEW b, Typed(b), NEW s \in Session, NEW r \in RecordType, NEW c, RecordTo(b, c, s, r)
    PROVE  Wrote(b, c, s, r, b.jobs)
<1> QED
    BY Typing DEF Wrote, Typed, HbfType, RecordTo

LEMMA JobsSet ==
    ASSUME NEW b, Typed(b), NEW jobs \in SUBSET JobType, IsFiniteSet(jobs), NEW c,
           JobsTo(b, c, jobs)
    PROVE  /\ Typed(c) /\ c.failed = b.failed /\ c.rec = b.rec
           /\ c.lru = b.lru /\ c.jobs = jobs /\ c.reserved = b.reserved /\ c.lpddr = b.lpddr
    BY Typing DEF Typed, HbfType, JobsTo

LEMMA BothSet ==
    ASSUME NEW b, Typed(b), NEW s \in Session, NEW r \in RecordType,
           NEW jobs \in SUBSET JobType, IsFiniteSet(jobs), NEW c, BothTo(b, c, s, r, jobs)
    PROVE  Wrote(b, c, s, r, jobs)
<1> QED
    BY Typing DEF Wrote, Typed, HbfType, BothTo

-----------------------------------------------------------------------------
(* Making room.                                                            *)

LEMMA NoShare ==
    ASSUME NEW r, r.group = NoGroup, NEW g \in Group, NEW c \in Card
    PROVE  Share(r, g, c) = 0
    BY DEF Share, NoGroup, Group

\* What the victims keep, card by card.
LEMMA FreedFacts ==
    ASSUME NEW rec \in [Session -> RecordType], NEW vs \in SUBSET Session
    PROVE  LET freed == SumOf([s \in vs |-> Committed(rec[s])])
           IN  /\ freed \in Counts
               /\ \A k \in Card : freed[k] = SumFunctionOnSet([s \in vs |-> Committed(rec[s])[k]], vs)
<1> DEFINE v == [s \in vs |-> Committed(rec[s])]
           f(k) == [s \in vs |-> Committed(rec[s])[k]]
<1>1. IsFiniteSet(vs)
    BY FS_Subset, SessionsAssumption
<1>2. ASSUME NEW k \in Card
      PROVE  SumOf(v)[k] = SumFunctionOnSet(f(k), vs) /\ SumFunctionOnSet(f(k), vs) \in Nat
  <2>1. [s \in DOMAIN v |-> v[s][k]] = f(k) /\ DOMAIN v = vs
      OBVIOUS
  <2>2. \A s \in vs : f(k)[s] \in Nat
      BY ShareType DEF Counts
  <2> HIDE DEF v, f
  <2> QED
      BY <1>1, <2>1, <2>2, SumType DEF SumOf
<1>4. SumOf(v) \in Counts
  <2> HIDE DEF v, f
  <2> QED
      BY <1>2 DEF Counts, SumOf
<1> QED
    BY <1>2, <1>4

LEMMA KeptEvict ==
    ASSUME NEW rec \in [Session -> RecordType], NEW vs \in SUBSET Session, NEW g \in Group,
           \A s \in vs : rec[s].group = g, NEW h \in Group, NEW k \in Card
    PROVE  LET new == [s \in Session |-> IF s \in vs THEN Evicted(rec[s]) ELSE rec[s]]
           IN  /\ new \in [Session -> RecordType]
               /\ Kept(new, h, k) = Kept(rec, h, k)
                    - (IF h = g THEN SumOf([s \in vs |-> Committed(rec[s])])[k] ELSE 0)
<1> DEFINE new == [s \in Session |-> IF s \in vs THEN Evicted(rec[s]) ELSE rec[s]]
           f == [s \in Session |-> Share(rec[s], h, k)]
           n == [s \in Session |-> Share(new[s], h, k)]
           e == [s \in vs |-> Committed(rec[s])[k]]
           Others == Session \ vs
<1>1. new \in [Session -> RecordType]
    BY EvictedType
<1>2. \A s \in Session : f[s] \in Nat /\ n[s] \in Nat
  <2> HIDE DEF new
  <2> QED
      BY <1>1, ShareType
<1>3. \A s \in vs : n[s] = 0
    BY EvictedType, NoShare
<1>4. \A s \in Others : n[s] = f[s]
    OBVIOUS
<1>5. \A s \in vs : f[s] = IF h = g THEN e[s] ELSE 0
    BY DEF Share
<1>6. IsFiniteSet(vs) /\ IsFiniteSet(Others)
    BY FS_Subset, SessionsAssumption
<1>7. SumOf([s \in vs |-> Committed(rec[s])])[k] = SumFunctionOnSet(e, vs)
    BY FreedFacts
<1>71. Kept(rec, h, k) = SumFunctionOnSet(f, Session) /\ Kept(new, h, k) = SumFunctionOnSet(n, Session)
    BY DEF Kept
<1>72. vs \in SUBSET Session /\ Others = Session \ vs
    OBVIOUS
<1> HIDE DEF f, n, e, Others, new
<1>8. /\ SumFunctionOnSet(f, Session) = SumFunctionOnSet(f, vs) + SumFunctionOnSet(f, Others)
      /\ SumFunctionOnSet(f, vs) \in Nat /\ SumFunctionOnSet(f, Others) \in Nat
    BY <1>2, <1>72, SumSplit, SessionsAssumption
<1>9. SumFunctionOnSet(n, Session) = SumFunctionOnSet(n, vs) + SumFunctionOnSet(n, Others)
    BY <1>2, <1>72, SumSplit, SessionsAssumption
<1>10. SumFunctionOnSet(n, vs) = 0
    BY <1>3, <1>6, SumZero
<1>11. SumFunctionOnSet(n, Others) = SumFunctionOnSet(f, Others)
    BY <1>2, <1>4, <1>6, <1>72, SumAgree
<1>12. SumFunctionOnSet(f, vs) = IF h = g THEN SumFunctionOnSet(e, vs) ELSE 0
    BY <1>2, <1>5, <1>6, <1>72, SumAgree, SumZero
<1>13. Kept(new, h, k) = Kept(rec, h, k) - (IF h = g THEN SumFunctionOnSet(e, vs) ELSE 0)
    BY <1>8, <1>9, <1>10, <1>11, <1>12, <1>71
<1> QED
    BY <1>1, <1>7, <1>13 DEF new

LEMMA VictimsEvictable ==
    ASSUME NEW b, NEW g, NEW v
    PROVE  /\ Victims(b, g, v) \subseteq Evictable(b, g)
           /\ Evictable(b, g) \subseteq Session
           /\ \A s \in Evictable(b, g) : /\ b.rec[s].group = g /\ b.rec[s].state = "hbf_ready"
                                         /\ b.rec[s].lpddr = 0
<1> QED
    BY DEF Victims, Oldest, Evictable

\* Failed or not, an operation leaves a state of the same shape.
LEMMA FreeTyped ==
    ASSUME NEW b, Typed(b), NEW g \in Group, NEW v \in Counts
    PROVE  Typed(Free(b, g, v)) /\ Typed(Reserve(b, g, v))
<1>1. Typed(Free(b, g, v))
    BY RaiseFails, Typing, PlusMinus DEF Free, Typed, HbfType
<1>2. Typed(Reserve(b, g, v))
    BY RaiseFails, Typing, PlusMinus DEF Reserve, Typed, HbfType
<1> QED
    BY <1>1, <1>2

LEMMA SetTyped ==
    ASSUME NEW b, Typed(b), NEW g \in Places, NEW o \in Owner, NEW v \in Counts
    PROVE  Typed(SetBytes(b, g, o, v)) /\ Typed(Shrink(b, o, v))
<1>1. ASSUME NEW h \in Places, NEW w \in Counts PROVE Typed(SetBytes(b, h, o, w))
    BY RaiseFails, EntryFacts, Typing DEF SetBytes, Typed, HbfType
<1>2. CASE Shrink(b, o, v) = Raise(b)
    BY <1>1, <1>2, RaiseFails
<1>3. CASE Shrink(b, o, v) # Raise(b)
    BY <1>1, <1>3, Typing, PlusMinus DEF Shrink, Held
<1> QED
    BY <1>2, <1>3

LEMMA EnsureTyped ==
    ASSUME NEW b, Typed(b), NEW g \in Group, NEW v \in Counts
    PROVE  LET vs == Victims(b, g, v)
               d == Free(b, g, SumOf([s \in vs |-> Committed(b.rec[s])]))
           IN  Typed(EnsureCapacity(b, g, v)) /\ EnsureCapacity(b, g, v).failed = d.failed
<1> DEFINE vs == Victims(b, g, v)
           freed == SumOf([s \in vs |-> Committed(b.rec[s])])
           d == Free(b, g, freed)
           c == EnsureCapacity(b, g, v)
<1>1. vs \in SUBSET Session
    BY VictimsEvictable
<1>2. freed \in Counts
    BY <1>1, Typing, FreedFacts
<1>3. c = [d EXCEPT !.rec = [s \in Session |-> IF s \in vs THEN Evicted(@[s]) ELSE @[s]],
                !.lpddr = [o \in Owner |-> IF o \in {Holder(s) : s \in vs} THEN Nobody ELSE @[o]]]
    BY DEF EnsureCapacity
<1> HIDE DEF vs, freed, c
<1>4. Typed(d)
    BY <1>2, FreeTyped
<1> HIDE DEF d
<1> DEFINE x == [s \in Session |-> IF s \in vs THEN Evicted(d.rec[s]) ELSE d.rec[s]]
           y == [o \in Owner |-> IF o \in {Holder(s) : s \in vs} THEN Nobody ELSE d.lpddr[o]]
<1> HIDE DEF x, y
<1>9. Typed(c) /\ c.failed = d.failed
    BY <1>3, <1>4, Typing, EvictedType, ZeroFacts DEF Typed, HbfType, x, y, Nobody, Places
<1> QED
    BY <1>9 DEF c, d, freed, vs

\* Idle contexts give way, and the books stay exact.
LEMMA EnsureFacts ==
    ASSUME setup \in Setups, NEW b, Typed(b), NEW g \in Group, NEW v \in Counts,
           ~EnsureCapacity(b, g, v).failed
    PROVE  LET c  == EnsureCapacity(b, g, v)
               vs == Victims(b, g, v) IN
           /\ ~b.failed /\ Typed(c)
           /\ c.jobs = b.jobs /\ c.lru = b.lru
           /\ c.rec = [s \in Session |-> IF s \in vs THEN Evicted(b.rec[s]) ELSE b.rec[s]]
           /\ c.lpddr = [o \in Owner |-> IF o \in {Holder(s) : s \in vs} THEN Nobody ELSE b.lpddr[o]]
           /\ \A k \in Card : SumOf([s \in vs |-> Committed(b.rec[s])])[k] <= b.reserved[g][k]
           /\ \A h \in Group, k \in Card :
                c.reserved[h][k] = b.reserved[h][k]
                    - (IF h = g THEN SumOf([s \in vs |-> Committed(b.rec[s])])[k] ELSE 0)
           /\ (Exact(b) => Exact(c))
<1> DEFINE vs == Victims(b, g, v)
           freed == SumOf([s \in vs |-> Committed(b.rec[s])])
           d == Free(b, g, freed)
           rec == [s \in Session |-> IF s \in vs THEN Evicted(b.rec[s]) ELSE b.rec[s]]
           lpddr == [o \in Owner |-> IF o \in {Holder(s) : s \in vs} THEN Nobody ELSE b.lpddr[o]]
           c == EnsureCapacity(b, g, v)
<1>1. vs \in SUBSET Session /\ \A s \in vs : b.rec[s].group = g
    BY VictimsEvictable
<1>2. b.rec \in [Session -> RecordType]
    BY Typing
<1>3. freed \in Counts
    BY <1>1, <1>2, FreedFacts
<1>4. c = [d EXCEPT !.rec = [s \in Session |-> IF s \in vs THEN Evicted(@[s]) ELSE @[s]],
                !.lpddr = [o \in Owner |-> IF o \in {Holder(s) : s \in vs} THEN Nobody ELSE @[o]]]
    BY DEF EnsureCapacity
<1> HIDE DEF vs, freed, c
<1>5. Typed(d)
    BY <1>3, FreeTyped
<1> HIDE DEF d
<1>6. c.failed = d.failed
    BY <1>4, <1>5, Typing
<1>7. ~d.failed
    BY <1>6 DEF c
<1>8. /\ ~b.failed /\ Within(freed, b.reserved[g])
      /\ d.rec = b.rec /\ d.lru = b.lru /\ d.jobs = b.jobs /\ d.lpddr = b.lpddr
      /\ \A h \in Group, k \in Card :
           d.reserved[h][k] = b.reserved[h][k] - (IF h = g THEN freed[k] ELSE 0)
    BY <1>3, <1>7, FreeFacts DEF d
<1>9. c = [d EXCEPT !.rec = rec, !.lpddr = lpddr]
    BY <1>4, <1>5, <1>8, Typing
<1>10. ASSUME NEW h \in Group, NEW k \in Card
       PROVE  Kept(rec, h, k) = Kept(b.rec, h, k) - (IF h = g THEN freed[k] ELSE 0)
    BY <1>1, <1>2, KeptEvict DEF freed
<1>11. rec \in [Session -> RecordType]
    BY <1>1, <1>2, EvictedType
<1>12. lpddr \in [Owner -> [group : Places, bytes : Counts]]
    BY ZeroFacts, Typing DEF Nobody, Places
<1> HIDE DEF rec, lpddr
<1>13. /\ Typed(c) /\ c.rec = rec /\ c.lpddr = lpddr /\ c.jobs = b.jobs /\ c.lru = b.lru
       /\ c.reserved = d.reserved
    BY <1>5, <1>8, <1>9, <1>11, <1>12, Typing DEF Typed, HbfType
<1>14. Exact(b) => Exact(c)
  <2> SUFFICES ASSUME Exact(b), NEW h \in Group, NEW k \in Card
               PROVE  /\ c.reserved[h][k] = Kept(c.rec, h, k) + Flying(c.jobs, h, k)
                      /\ c.reserved[h][k] <= setup.hbfCap
      BY DEF Exact
  <2>1. b.reserved[h][k] = Kept(b.rec, h, k) + Flying(b.jobs, h, k) /\ b.reserved[h][k] <= setup.hbfCap
      BY DEF Exact
  <2>2. Kept(b.rec, h, k) \in Nat /\ Flying(b.jobs, h, k) \in Nat
      BY <1>2, Typing, KeptType, FlyingType
  <2>3. freed[k] \in Nat
      BY <1>3 DEF Counts
  <2>7. setup.hbfCap \in Nat /\ b.reserved[h][k] \in Nat
      BY <2>1, <2>2, SetupFacts
  <2> QED
      BY <1>8, <1>10, <1>13, <2>1, <2>2, <2>3, <2>7
<1> QED
    BY <1>8, <1>13, <1>14 DEF rec, lpddr, freed, vs, c, Within

-----------------------------------------------------------------------------
(* What every state keeps: where a context is, and the lineage of its jobs.*)

Of(jobs, s) == {j \in jobs : j.session = s}
Now(J, r, kind) == {j \in J : j.kind = kind /\ j.generation = r.generation}
Tokens(J) == SumFunctionOnSet([j \in J |-> j.count], J)

Place(r) ==
  /\ r.group \in Group <=> r.state \in Media \cup {"migrating"}
  /\ r.state \notin Media => r.committed = 0 /\ r.lpddr = 0
  /\ r.state \in Media => r.committed + r.lpddr = r.total

Aged(J, r) ==
  \A j \in J : /\ j.generation <= r.generation /\ j.version <= r.version
               /\ j.kind = "migration" => j.start = 0
Moving(J, r) ==
  /\ r.state = "migrating" =>
       \E j \in J : /\ Now(J, r, "migration") = {j}
                    /\ j.group = r.group /\ j.version = r.version /\ j.count = r.total
  /\ r.state # "migrating" => Now(J, r, "migration") = {}
Appending(J, r) ==
  /\ Tokens(Now(J, r, "append")) <= r.lpddr
  /\ \A j \in Now(J, r, "append") :
       /\ r.state \in Media /\ j.group = r.group
       /\ j.start + j.count <= r.committed + r.lpddr
Lineage(J, r) == Aged(J, r) /\ Moving(J, r) /\ Appending(J, r)

Good(b) ==
  /\ Typed(b) /\ Exact(b)
  /\ \A s \in Session : Place(b.rec[s]) /\ Lineage(Of(b.jobs, s), b.rec[s])

LEMMA GoodFacts ==
    ASSUME NEW b, Good(b), NEW s \in Session
    PROVE  /\ Typed(b) /\ Exact(b) /\ b.rec[s] \in RecordType
           /\ Place(b.rec[s]) /\ Lineage(Of(b.jobs, s), b.rec[s])
           /\ Of(b.jobs, s) \subseteq JobType /\ IsFiniteSet(Of(b.jobs, s))
           /\ Of(b.jobs, s) \subseteq b.jobs
<1>3. Of(b.jobs, s) \subseteq b.jobs
    BY DEF Of
<1> QED
    BY <1>3, FS_Subset, Typing DEF Good

LEMMA TokensType ==
    ASSUME NEW J \in SUBSET JobType, IsFiniteSet(J)
    PROVE  Tokens(J) \in Nat /\ Tokens({}) = 0
<1> DEFINE f == [j \in J |-> j.count]
<1>1. \A j \in J : f[j] \in Nat
    BY JobTyping
<1> HIDE DEF f
<1> QED
    BY <1>1, SumEmpty, SumType DEF Tokens, f

LEMMA TokensAdd ==
    ASSUME NEW J \in SUBSET JobType, IsFiniteSet(J), NEW j \in JobType, j \notin J
    PROVE  Tokens(J \cup {j}) = Tokens(J) + j.count
<1> DEFINE T == J \cup {j}
           f == [k \in T |-> k.count]
           h == [k \in J |-> k.count]
<1>1. IsFiniteSet(T) /\ j \in T /\ T \ {j} = J
    BY FS_AddElement
<1>2. \A k \in T : f[k] \in Nat
    BY JobTyping
<1>3. \A k \in J : f[k] \in Nat /\ h[k] = f[k]
    BY JobTyping
<1>4. f[j] = j.count
    OBVIOUS
<1> HIDE DEF f, h, T
<1>7. f[j] \in Nat
    BY <1>1, <1>2
<1> QED
    BY <1>1, <1>2, <1>3, <1>4, <1>7, SumRemove, SumAgree DEF Tokens, f, h, T

LEMMA TokensRemove ==
    ASSUME NEW J \in SUBSET JobType, IsFiniteSet(J), NEW j \in J
    PROVE  Tokens(J) = Tokens(J \ {j}) + j.count /\ Tokens(J \ {j}) \in Nat
<1> DEFINE R == J \ {j}
<1> HIDE DEF R
<1> QED
    BY TokensAdd, TokensType, FS_RemoveElement DEF R

LEMMA NowFacts ==
    ASSUME NEW J \in SUBSET JobType, IsFiniteSet(J), NEW r, NEW kind
    PROVE  Now(J, r, kind) \in SUBSET JobType /\ IsFiniteSet(Now(J, r, kind))
<1> QED
    BY FS_Subset DEF Now

\* A session that moves on: every job in flight becomes stale. So it is for
\* one that had no job of its lineage.
LEMMA Quiet ==
    ASSUME NEW J \in SUBSET JobType, NEW r \in RecordType, Lineage(J, r), NEW q \in RecordType,
           r.version <= q.version, q.state # "migrating",
           \/ r.generation < q.generation
           \/ r.generation = q.generation /\ r.state \notin Media \cup {"migrating"}
    PROVE  Lineage(J, q) /\ Now(J, q, "append") = {}
<1>1. \A j \in J : j.generation \in Nat /\ j.version \in Nat
    BY JobTyping
<1>2. /\ r.generation \in Nat /\ r.version \in Nat /\ q.generation \in Nat /\ q.version \in Nat
      /\ q.lpddr \in Nat
    BY RecordTyping
<1>3. Aged(J, q)
    BY <1>1, <1>2 DEF Lineage, Aged
<1>4. Now(J, q, "migration") = {} /\ Now(J, q, "append") = {}
    BY <1>1, <1>2 DEF Lineage, Aged, Now, Moving, Appending
<1>5. Tokens({}) = 0
    BY SumEmpty DEF Tokens
<1>51. Tokens(Now(J, q, "append")) = 0
    BY <1>4, <1>5
<1>6. Appending(J, q)
    BY <1>2, <1>4, <1>51 DEF Appending
<1> QED
    BY <1>3, <1>4, <1>6 DEF Lineage, Moving

\* A placed context that goes on growing.
LEMMA Grows ==
    ASSUME NEW J \in SUBSET JobType, NEW r \in RecordType, Lineage(J, r), NEW q \in RecordType,
           r.version <= q.version, r.generation = q.generation,
           r.state \in Media, q.state \in Media, q.group = r.group, q.committed = r.committed,
           r.lpddr <= q.lpddr, IsFiniteSet(J)
    PROVE  Lineage(J, q) /\ \A kind : Now(J, q, kind) = Now(J, r, kind)
<1>6. Tokens(Now(J, r, "append")) \in Nat
    BY NowFacts, TokensType
<1> QED
    BY <1>6, JobTyping, RecordTyping DEF Lineage, Moving, Media, Appending, Now, Aged

\* The sessions beside s: untouched, or evicted while idle.
Same(b, c, t) ==
  c.rec[t] = b.rec[t] /\ c.lpddr[Holder(t)] = b.lpddr[Holder(t)]
Ousted(b, c, t) ==
  /\ b.rec[t].state = "hbf_ready" /\ b.rec[t].lpddr = 0
  /\ c.rec[t] = Evicted(b.rec[t]) /\ c.lpddr[Holder(t)] = Nobody
Spared(b, c, s) ==
  \A t \in Session \ {s} :
    /\ Of(c.jobs, t) = Of(b.jobs, t)
    /\ c.lpddr[Headroom(t)] = b.lpddr[Headroom(t)]
    /\ Same(b, c, t) \/ Ousted(b, c, t)

LEMMA SparedTwice ==
    ASSUME NEW b, NEW c, NEW d, NEW s \in Session, Spared(b, c, s), Spared(c, d, s),
           b.rec \in [Session -> RecordType]
    PROVE  Spared(b, d, s)
<1> SUFFICES ASSUME NEW t \in Session \ {s} PROVE Same(b, d, t) \/ Ousted(b, d, t)
    BY DEF Spared
<1> QED
    BY EvictedType DEF Same, Ousted, Spared

LEMMA GoodStep ==
    ASSUME setup \in Setups, NEW b, Good(b), NEW c, Typed(c), Exact(c), NEW s \in Session,
           Spared(b, c, s), Place(c.rec[s]), Lineage(Of(c.jobs, s), c.rec[s])
    PROVE  Good(c)
<1> SUFFICES ASSUME NEW t \in Session, t # s
             PROVE  Place(c.rec[t]) /\ Lineage(Of(c.jobs, t), c.rec[t])
    BY DEF Good
<1>1. Place(b.rec[t]) /\ Lineage(Of(b.jobs, t), b.rec[t]) /\ b.rec[t] \in RecordType
      /\ Of(b.jobs, t) \subseteq JobType
    BY GoodFacts
<1>2. Of(c.jobs, t) = Of(b.jobs, t)
    BY DEF Spared
<1>3. CASE c.rec[t] = b.rec[t]
    BY <1>1, <1>2, <1>3
<1>4. CASE c.rec[t] = Evicted(b.rec[t])
  <2> DEFINE q == Evicted(b.rec[t])
  <2>1. /\ q \in RecordType /\ q.state = "evicted" /\ q.group = NoGroup
        /\ q.committed = 0 /\ q.lpddr = 0
        /\ q.generation = b.rec[t].generation + 1 /\ q.version = b.rec[t].version
      BY <1>1, EvictedType
  <2>2. Place(q)
      BY <2>1, SetupFacts DEF Place, Media
  <2> HIDE DEF q
  <2>3. b.rec[t].version <= q.version /\ b.rec[t].generation < q.generation /\ q.state # "migrating"
      BY <1>1, <2>1, RecordTyping
  <2> QED
      BY <1>1, <1>2, <1>4, <2>1, <2>2, <2>3, Quiet DEF q
<1> QED
    BY <1>3, <1>4 DEF Spared, Same, Ousted

\* The books after a step of s, whose record and jobs change.
Balance(b, c, s, g, k) ==
  /\ c.reserved[g][k] <= setup.hbfCap
  /\ c.reserved[g][k] = b.reserved[g][k] - Share(b.rec[s], g, k) + Share(c.rec[s], g, k)
                          - Flying(b.jobs, g, k) + Flying(c.jobs, g, k)
LEMMA ExactStep ==
    ASSUME setup \in Setups, NEW b, Typed(b), Exact(b), NEW c, Typed(c), NEW s \in Session,
           \A t \in Session \ {s} : c.rec[t] = b.rec[t],
           \A g \in Group, k \in Card : Balance(b, c, s, g, k)
    PROVE  Exact(c)
<1> SUFFICES ASSUME NEW g \in Group, NEW k \in Card
             PROVE  c.reserved[g][k] = Kept(c.rec, g, k) + Flying(c.jobs, g, k)
    BY DEF Exact, Balance
<1>1. b.rec \in [Session -> RecordType] /\ c.rec \in [Session -> RecordType]
    BY Typing
<1>5. Flying(b.jobs, g, k) \in Nat /\ Flying(c.jobs, g, k) \in Nat
    BY Typing, FlyingType
<1> QED
    BY <1>1, <1>5, KeptChange, KeptType, ShareType DEF Balance, Exact

-----------------------------------------------------------------------------
(* Choosing a group and migrating to it.                                   *)

LEMMA PeakType ==
    ASSUME NEW b, Typed(b), NEW g \in Group, NEW v \in Counts
    PROVE  Peak(b, g, v) \in Nat
<1> DEFINE f == [c \in Card |-> b.reserved[g][c] + v[c]]
           S == {b.reserved[g][c] + v[c] : c \in Card}
<1>1. Tp - 1 \in Nat /\ Card = 0..(Tp - 1)
    BY CardsAssumption DEF Card
<1>2. \A c \in Card : b.reserved[g][c] + v[c] \in Nat
  <2> QED
      BY Typing DEF Counts
<1>4. PICK x \in 0..(Tp - 1) : \A y \in 0..(Tp - 1) : f[y] <= f[x]
    BY <1>1, <1>2, Highest
<1>5. f[x] \in S /\ \A y \in S : f[x] >= y /\ y \in Nat
    BY <1>1, <1>2, <1>4
<1>6. Max(S) \in S
    BY <1>5 DEF Max
<1> QED
    BY <1>5, <1>6 DEF Peak

LEMMA RoomiestIn ==
    ASSUME setup \in Setups, NEW b, Typed(b), NEW v \in Counts, NEW gs \in SUBSET Group, gs # {}
    PROVE  Roomiest(b, v, gs) \in gs
<1> DEFINE T == {Peak(b, g, v) : g \in gs}
<1>1. \A g \in gs : Peak(b, g, v) \in Nat /\ g \in Nat
    BY PeakType, SetupFacts
<1>2. PICK x \in T : \A y \in T : x <= y
    BY <1>1, LeastMember
<1> DEFINE R == {g \in gs : Peak(b, g, v) = x}
<1>3. R # {} /\ R \subseteq Nat
    BY <1>1
<1>4. PICK g \in R : \A h \in R : g <= h
    BY <1>3, LeastMember
<1>5. \A h \in gs : \/ Peak(b, g, v) < Peak(b, h, v)
                    \/ Peak(b, g, v) = Peak(b, h, v) /\ g <= h
    BY <1>1, <1>2, <1>4
<1>6. g \in gs
    BY <1>4
<1> QED
    BY <1>5, <1>6 DEF Roomiest

\* The other sessions when room is made for s.
LEMMA EnsureSpares ==
    ASSUME setup \in Setups, NEW b, Typed(b), NEW g \in Group, NEW v \in Counts,
           ~EnsureCapacity(b, g, v).failed, NEW s \in Session, s \notin Evictable(b, g)
    PROVE  LET c == EnsureCapacity(b, g, v) IN
           /\ Spared(b, c, s) /\ c.rec[s] = b.rec[s]
           /\ c.lpddr[Holder(s)] = b.lpddr[Holder(s)] /\ c.lpddr[Headroom(s)] = b.lpddr[Headroom(s)]
<1> DEFINE c  == EnsureCapacity(b, g, v)
           vs == Victims(b, g, v)
<1>1. /\ c.jobs = b.jobs
      /\ c.rec = [t \in Session |-> IF t \in vs THEN Evicted(b.rec[t]) ELSE b.rec[t]]
      /\ c.lpddr = [o \in Owner |-> IF o \in {Holder(t) : t \in vs} THEN Nobody ELSE b.lpddr[o]]
    BY EnsureFacts
<1>2. /\ vs \subseteq Evictable(b, g) /\ vs \subseteq Session
      /\ \A t \in vs : b.rec[t].state = "hbf_ready" /\ b.rec[t].lpddr = 0
    BY VictimsEvictable
<1> HIDE DEF c, vs
<1>3. ASSUME NEW t \in Session
      PROVE  /\ c.lpddr[Headroom(t)] = b.lpddr[Headroom(t)]
             /\ c.lpddr[Holder(t)] = IF t \in vs THEN Nobody ELSE b.lpddr[Holder(t)]
    BY <1>1, <1>2, OwnerFacts
<1>4. s \notin vs
    BY <1>2
<1>5. ASSUME NEW t \in Session PROVE Same(b, c, t) \/ Ousted(b, c, t)
    BY <1>1, <1>2, <1>3 DEF Ousted, Same
<1> QED
    BY <1>1, <1>3, <1>4, <1>5 DEF c, Spared, Of

\* Only the record of s changes.
LEMMA RecordSpares ==
    ASSUME NEW b, NEW c, NEW s \in Session, c.jobs = b.jobs,
           \A t \in Session \ {s} : c.rec[t] = b.rec[t],
           \A t \in Session \ {s} : /\ c.lpddr[Holder(t)] = b.lpddr[Holder(t)]
                                    /\ c.lpddr[Headroom(t)] = b.lpddr[Headroom(t)]
    PROVE  Spared(b, c, s)
    BY DEF Spared, Same

\* A context outside HBF has nothing there.
LEMMA Elsewhere ==
    ASSUME setup \in Setups, NEW r \in RecordType, Place(r), r.state \notin Media \cup {"migrating"}
    PROVE  r.group = NoGroup /\ \A g \in Group, k \in Card : Share(r, g, k) = 0
<1>1. r.group = NoGroup
    BY RecordTyping DEF Place, Places
<1> QED
    BY <1>1, NoShare

LEMMA NothingCommitted ==
    ASSUME NEW r, r.committed = 0, NEW g, NEW k \in Card
    PROVE  Share(r, g, k) = 0
    BY ZeroFacts DEF Share, Committed, Zero

LEMMA MigrateGood ==
    ASSUME setup \in Setups, NEW b, Good(b), NEW s \in Session, NEW source \in {"gpu", "ssd"},
           NEW evicts \in BOOLEAN, b.rec[s].state \notin Media \cup {"migrating"},
           ~Migrate(b, s, source, evicts).failed
    PROVE  LET c == Migrate(b, s, source, evicts) IN
           /\ ~b.failed /\ Good(c) /\ Spared(b, c, s)
           /\ c.rec[s].state \in {"migrating", "gpu_ready", "ssd_ready"}
           /\ c.rec[s].version = b.rec[s].version /\ c.rec[s].total = b.rec[s].total
           /\ c.lpddr[Holder(s)] = b.lpddr[Holder(s)] /\ c.lpddr[Headroom(s)] = b.lpddr[Headroom(s)]
<1> DEFINE r  == b.rec[s]
           v  == Stripe(0, r.total)
           gs == {g \in Group : Fits(b, g, v, IF evicts THEN Evictable(b, g) ELSE {})}
           c  == Migrate(b, s, source, evicts)
<1>1. Typed(b) /\ Exact(b) /\ r \in RecordType /\ Place(r) /\ Lineage(Of(b.jobs, s), r)
      /\ Of(b.jobs, s) \subseteq JobType /\ IsFiniteSet(Of(b.jobs, s))
    BY GoodFacts
<1>2. v \in Counts
    BY <1>1, RecordTyping, StripeType
<1>3. r.group = NoGroup /\ \A g \in Group, k \in Card : Share(r, g, k) = 0
    BY <1>1, Elsewhere
<1>4. CASE gs = {}
  <2> DEFINE st == IF source = "gpu" THEN "gpu_ready" ELSE "ssd_ready"
             q  == InState(r, st)
  <2>1. RecordTo(b, c, s, q)
      BY <1>1, <1>4, Typing DEF Migrate, RecordTo, InState
  <2>2. st \in States /\ st \in {"gpu_ready", "ssd_ready"}
      BY DEF States
  <2> HIDE DEF st
  <2>3. /\ q \in RecordType /\ q.state = st /\ q.generation = r.generation
        /\ q.version = r.version /\ q.total = r.total /\ q.group = r.group
        /\ q.committed = r.committed /\ q.lpddr = r.lpddr
      BY <1>1, <2>2, StateType
  <2> HIDE DEF q, c, r
  <2> Wrote(b, c, s, q, b.jobs)
      BY <1>1, <2>1, <2>3, RecordSet
  <2>4. /\ Typed(c) /\ c.failed = b.failed
        /\ c.lru = b.lru /\ c.jobs = b.jobs /\ c.reserved = b.reserved /\ c.lpddr = b.lpddr
      BY DEF Wrote
  <2>5. c.rec[s] = q /\ \A t \in Session \ {s} : c.rec[t] = b.rec[t]
      BY DEF Wrote
  <2>6. Spared(b, c, s)
      BY <2>4, <2>5, RecordSpares
  <2>7. Place(q)
      BY <1>1, <1>3, <2>2, <2>3, SetupFacts DEF Place, Media, r
  <2>8. Lineage(Of(c.jobs, s), q)
      BY <1>1, <2>2, <2>3, <2>4, RecordTyping, Quiet DEF r
  <2>9. Exact(c)
    <3>2. \A g \in Group, k \in Card : Balance(b, c, s, g, k)
      <4>1. \A g \in Group, k \in Card : b.reserved[g][k] \in Nat /\ Flying(b.jobs, g, k) \in Nat
          BY <1>1, Typing, FlyingType DEF Counts
      <4> QED
          BY <1>1, <1>3, <2>3, <2>4, <2>5, <4>1, NoShare DEF Exact, Balance, r
    <3> QED
        BY <1>1, <2>4, <2>5, <3>2, ExactStep
  <2>10. Good(c)
      BY <1>1, <2>4, <2>5, <2>6, <2>7, <2>8, <2>9, GoodStep
  <2> QED
      BY <2>2, <2>3, <2>4, <2>5, <2>6, <2>10 DEF c, r
<1>5. CASE gs # {}
  <2> DEFINE g == Roomiest(b, v, gs)
             m == Migrating(r, g, source)
             j == Job("migration", s, m, 0, r.total)
             e == EnsureCapacity(b, g, v)
             d == Reserve(e, g, v)
  <2>0. r \in RecordType
      BY <1>1
  <2>1. g \in Group
      BY <1>1, <1>2, <1>5, RoomiestIn
  <2>2. c = [d EXCEPT !.rec[s] = m, !.jobs = @ \cup {j}]
      BY <1>5 DEF Migrate, Migrating
  <2> HIDE DEF g, r
  <2>3. /\ m \in RecordType /\ m.state = "migrating" /\ m.generation = r.generation + 1
        /\ m.version = r.version /\ m.total = r.total /\ m.committed = r.committed
        /\ m.lpddr = r.lpddr /\ m.group = g
      BY <2>0, <2>1, MigratingType
  <2>4. /\ j.kind = "migration" /\ j.session = s /\ j.generation = r.generation + 1
        /\ j.version = r.version /\ j.group = g /\ j.start = 0 /\ j.count = r.total
        /\ j \in JobType
      BY <1>1, <2>1, <2>3, RecordTyping DEF Job, JobType
  <2> HIDE DEF c, m, j, r, v
  <2>5. Typed(e) /\ Typed(d)
      BY <1>1, <1>2, <2>1, EnsureTyped, FreeTyped
  <2> HIDE DEF e, d
  <2>7. d.jobs \cup {j} \in SUBSET JobType /\ IsFiniteSet(d.jobs \cup {j})
      BY <2>4, <2>5, Typing, FS_AddElement
  <2> Wrote(d, c, s, m, d.jobs \cup {j})
      BY <2>2, <2>3, <2>5, <2>7, BothSet, Typing DEF BothTo
  <2>8. /\ Typed(c) /\ c.failed = d.failed /\ c.rec[s] = m
        /\ \A t \in Session \ {s} : c.rec[t] = d.rec[t]
        /\ c.lru = d.lru /\ c.jobs = d.jobs \cup {j} /\ c.reserved = d.reserved /\ c.lpddr = d.lpddr
      BY DEF Wrote
  <2>9. ~d.failed
      BY <2>8 DEF c
  <2>10. /\ ~e.failed
         /\ \A k \in Card : e.reserved[g][k] + v[k] <= setup.hbfCap
         /\ d.rec = e.rec /\ d.lru = e.lru /\ d.jobs = e.jobs /\ d.lpddr = e.lpddr
         /\ \A h \in Group, k \in Card :
              d.reserved[h][k] = e.reserved[h][k] + (IF h = g THEN v[k] ELSE 0)
      BY <1>2, <2>1, <2>5, <2>9, ReserveFacts DEF d
  <2>12. ~b.failed /\ Exact(e) /\ e.jobs = b.jobs
      BY <1>1, <1>2, <2>1, <2>10, EnsureFacts DEF e
  <2>13. /\ Spared(b, e, s) /\ e.rec[s] = r
         /\ e.lpddr[Holder(s)] = b.lpddr[Holder(s)] /\ e.lpddr[Headroom(s)] = b.lpddr[Headroom(s)]
      BY <1>1, <1>2, <2>1, <2>10, EnsureSpares DEF e, r, Evictable, Media
  <2>14. c.rec[s] = m /\ \A t \in Session \ {s} : c.rec[t] = e.rec[t]
      BY <2>8, <2>10
  <2>15. j \notin b.jobs
      BY <1>1, <2>4, RecordTyping, JobTyping DEF Lineage, Aged, Of
  <2>16. Of(c.jobs, s) = Of(b.jobs, s) \cup {j} /\ \A t \in Session \ {s} : Of(c.jobs, t) = Of(e.jobs, t)
      BY <2>4, <2>8, <2>10, <2>12 DEF Of
  <2>17. Spared(b, c, s)
    <3>1. Spared(e, c, s)
        BY <2>8, <2>10, <2>14, <2>16 DEF Spared, Same
    <3> QED
        BY <1>1, <2>13, <3>1, SparedTwice, Typing
  <2>18. Place(m)
      BY <1>1, <2>1, <2>3 DEF Place, Media, r
  <2>19. Lineage(Of(c.jobs, s), m)
    <3> DEFINE J == Of(b.jobs, s)
    <3>1. \A k \in J : /\ k.generation <= r.generation /\ k.version <= r.version
                       /\ k.generation \in Nat /\ k.version \in Nat
                       /\ k.kind = "migration" => k.start = 0
        BY <1>1, JobTyping DEF Lineage, Aged
    <3>2. r.generation \in Nat /\ r.version \in Nat /\ m.lpddr \in Nat
        BY <1>1, <2>3, RecordTyping
    <3> HIDE DEF J
    <3>5. Now(J \cup {j}, m, "migration") = {j} /\ Now(J \cup {j}, m, "append") = {}
        BY <2>3, <2>4, <3>1, <3>2 DEF Now
    <3>6. Moving(J \cup {j}, m)
        BY <2>3, <2>4, <3>5 DEF Moving
    <3>7. Tokens(Now(J \cup {j}, m, "append")) = 0
        BY <3>5, SumEmpty DEF Tokens
    <3>8. Appending(J \cup {j}, m)
      <4>1. Tokens(Now(J \cup {j}, m, "append")) <= m.lpddr
          BY <3>2, <3>7
      <4> QED
          BY <3>5, <4>1 DEF Appending
    <3> QED
        BY <2>3, <2>4, <2>16, <3>1, <3>2, <3>6, <3>8 DEF Lineage, J, Aged
  <2>20. Exact(c)
    <3> SUFFICES ASSUME NEW h \in Group, NEW k \in Card PROVE Balance(e, c, s, h, k)
        BY <2>5, <2>8, <2>12, <2>14, ExactStep
    <3>1. Share(e.rec[s], h, k) = 0 /\ Share(c.rec[s], h, k) = 0
        BY <1>1, <2>3, <2>13, <2>14, NothingCommitted DEF Place, r
    <3>2. JobShare(j, h, k) = (IF h = g THEN v[k] ELSE 0) /\ JobShare(j, h, k) \in Nat
        BY <2>4, JobShareType DEF JobShare, JobBytes, v
    <3>3. Flying(c.jobs, h, k) = Flying(e.jobs, h, k) + JobShare(j, h, k)
      <4>1. e.jobs \in SUBSET JobType /\ IsFiniteSet(e.jobs) /\ j \notin e.jobs
          BY <2>5, <2>12, <2>15, Typing
      <4> QED
          BY <2>4, <2>8, <2>10, <4>1, FlyingAdd
    <3>4. Flying(e.jobs, h, k) \in Nat
        BY <2>5, Typing, FlyingType
    <3>5. e.reserved[h][k] \in Nat /\ e.reserved[h][k] <= setup.hbfCap
        BY <2>5, <2>12, Typing DEF Exact, Counts
    <3> QED
        BY <2>8, <2>10, <3>1, <3>2, <3>3, <3>4, <3>5 DEF Balance
  <2>21. Good(c)
      BY <2>8, <2>14, <2>17, <2>18, <2>19, <2>20, GoodStep
  <2> QED
      BY <2>3, <2>8, <2>10, <2>12, <2>13, <2>14, <2>17, <2>21 DEF c, r
<1> QED
    BY <1>4, <1>5

\* What only the ledger of LPDDR or the order of use tells from a good state is good.
LEMMA AlikeGood ==
    ASSUME NEW b, Good(b), NEW c, Typed(c), c.rec = b.rec, c.jobs = b.jobs,
           c.reserved = b.reserved
    PROVE  Good(c)
    BY DEF Good, Exact

\* A job is started with its room reserved.
LEMMA JobAdded ==
    ASSUME setup \in Setups, NEW e, Typed(e), Exact(e), NEW s \in Session,
           NEW j \in JobType, j \notin e.jobs, NEW d, ~d.failed, Typed(d),
           d = Reserve(e, j.group, JobBytes(j)),
           NEW c, Typed(c), c.reserved = d.reserved, c.jobs = e.jobs \cup {j}, c.rec = e.rec
    PROVE  Exact(c)
<1> SUFFICES ASSUME NEW h \in Group, NEW k \in Card PROVE Balance(e, c, s, h, k)
    BY ExactStep
<1> DEFINE g == j.group
           v == JobBytes(j)
<1>2. /\ e.reserved[g][k] + v[k] <= setup.hbfCap
      /\ d.reserved[h][k] = e.reserved[h][k] + (IF h = g THEN v[k] ELSE 0)
    BY ReserveFacts, JobTyping
<1>3. JobShare(j, h, k) = (IF h = g THEN v[k] ELSE 0) /\ JobShare(j, h, k) \in Nat
    BY JobShareType DEF JobShare
<1> HIDE DEF g, v
<1>0. e.jobs \in SUBSET JobType /\ IsFiniteSet(e.jobs)
    BY Typing
<1>5. Flying(e.jobs, h, k) \in Nat
    BY Typing, FlyingType
<1>6. e.reserved[h][k] \in Nat /\ e.reserved[h][k] <= setup.hbfCap
    BY Typing DEF Exact, Counts
<1>8. Share(e.rec[s], h, k) \in Nat /\ c.rec[s] = e.rec[s]
    BY Typing, ShareType
<1> QED
    BY <1>0, <1>2, <1>3, <1>5, <1>6, <1>8, FlyingAdd DEF Balance

\* _start_contiguous_append: of tokens the session has in LPDDR and no append moves.
LEMMA StartAppendGood ==
    ASSUME setup \in Setups, NEW b, Good(b), NEW s \in Session, NEW start \in Nat,
           NEW count \in Nat \ {0}, b.rec[s].state \in Media,
           start + count <= b.rec[s].committed + b.rec[s].lpddr,
           Tokens(Now(Of(b.jobs, s), b.rec[s], "append")) + count <= b.rec[s].lpddr,
           \A j \in Of(b.jobs, s) : j.version < b.rec[s].version,
           ~StartAppend(b, s, start, count).failed
    PROVE  LET c == StartAppend(b, s, start, count) IN
           /\ ~b.failed /\ Good(c) /\ Spared(b, c, s) /\ c.rec[s] = b.rec[s]
           /\ c.lpddr[Holder(s)] = b.lpddr[Holder(s)] /\ c.lpddr[Headroom(s)] = b.lpddr[Headroom(s)]
<1> DEFINE r == b.rec[s]
           v == Stripe(start, count)
           g == r.group
           e == EnsureCapacity(b, g, v)
           d == Reserve(e, g, v)
           j == Job("append", s, r, start, count)
           J == Of(b.jobs, s)
           c == StartAppend(b, s, start, count)
<1>1. Typed(b) /\ Exact(b) /\ r \in RecordType /\ Place(r) /\ Lineage(J, r)
      /\ J \in SUBSET JobType /\ IsFiniteSet(J)
    BY GoodFacts
<1>2. v \in Counts
    BY StripeType
<1>3. /\ g \in Group /\ r.lpddr \in Nat /\ r.generation \in Nat /\ r.version \in Nat
      /\ r.committed \in Nat /\ r.state \in Media
    BY <1>1, RecordTyping DEF Place
<1>4. /\ j.kind = "append" /\ j.session = s /\ j.generation = r.generation
      /\ j.version = r.version /\ j.group = g /\ j.start = start /\ j.count = count
      /\ j \in JobType /\ JobBytes(j) = v
    BY <1>1, <1>3 DEF Job, JobType, JobBytes
<1>6. s \notin Evictable(b, g)
    BY <1>1, <1>3, NowFacts, TokensType DEF Evictable
<1>7. /\ Tokens(Now(J, r, "append")) + count <= r.lpddr /\ start + count <= r.committed + r.lpddr
      /\ \A k \in J : k.version < r.version
    OBVIOUS
<1>8. c = IF Fits(e, g, v, {}) THEN [d EXCEPT !.jobs = @ \cup {j}] ELSE e
    BY DEF StartAppend
<1>9. Typed(e) /\ Typed(d)
    BY <1>1, <1>2, <1>3, EnsureTyped, FreeTyped
<1>10. ~e.failed => /\ ~b.failed /\ Exact(e) /\ e.jobs = b.jobs
                    /\ Spared(b, e, s) /\ e.rec[s] = r
                    /\ e.lpddr[Holder(s)] = b.lpddr[Holder(s)]
                    /\ e.lpddr[Headroom(s)] = b.lpddr[Headroom(s)]
  <2> SUFFICES ASSUME ~EnsureCapacity(b, g, v).failed
               PROVE  /\ ~b.failed /\ Exact(e) /\ e.jobs = b.jobs
                      /\ Spared(b, e, s) /\ e.rec[s] = r
                      /\ e.lpddr[Holder(s)] = b.lpddr[Holder(s)]
                      /\ e.lpddr[Headroom(s)] = b.lpddr[Headroom(s)]
      OBVIOUS
  <2> HIDE DEF v, g, j, c, d, J
  <2>1. ~b.failed /\ Exact(e) /\ e.jobs = b.jobs
      BY <1>1, <1>2, <1>3, EnsureFacts
  <2> QED
      BY <1>1, <1>2, <1>3, <1>6, <2>1, EnsureSpares
<1>11. ~c.failed
    OBVIOUS
<1>14. ~d.failed => ~e.failed /\ d.rec = e.rec /\ d.lpddr = e.lpddr /\ d.jobs = e.jobs
    BY <1>2, <1>3, <1>9, ReserveFacts
<1>15. d = Reserve(e, j.group, JobBytes(j))
    BY <1>4
<1> HIDE DEF r, v, g, e, d, j, c
<1>12. CASE ~Fits(e, g, v, {})
    BY <1>1, <1>8, <1>9, <1>10, <1>11, <1>12, GoodStep DEF Of, c, r
<1>13. CASE Fits(e, g, v, {})
  <2>1. JobsTo(d, c, d.jobs \cup {j})
      BY <1>8, <1>9, <1>13, Typing DEF JobsTo
  <2>2. d.jobs \cup {j} \in SUBSET JobType /\ IsFiniteSet(d.jobs \cup {j})
      BY <1>4, <1>9, Typing, FS_AddElement
  <2>3. /\ Typed(c) /\ c.failed = d.failed /\ c.rec = d.rec
        /\ c.lru = d.lru /\ c.jobs = d.jobs \cup {j} /\ c.reserved = d.reserved
        /\ c.lpddr = d.lpddr
      BY <1>9, <2>1, <2>2, JobsSet
  <2>4. ~d.failed /\ c.jobs = b.jobs \cup {j} /\ c.rec = e.rec /\ e.jobs = b.jobs
      BY <1>10, <1>11, <1>14, <2>3
  <2>5. j \notin b.jobs
    <3>1. j \notin J
        BY <1>3, <1>4, <1>7
    <3> QED
        BY <1>4, <3>1 DEF Of
  <2>6. Of(c.jobs, s) = J \cup {j} /\ \A t \in Session \ {s} : Of(c.jobs, t) = Of(e.jobs, t)
      BY <1>4, <2>4 DEF Of
  <2>7. Spared(b, c, s)
    <3>1. Spared(e, c, s)
        BY <1>14, <2>3, <2>4, <2>6 DEF Spared, Same
    <3> QED
        BY <1>1, <1>10, <1>14, <2>4, <3>1, SparedTwice, Typing
  <2>8. c.rec[s] = r
      BY <1>10, <1>14, <2>4
  <2>9. Exact(c)
    <3>1. j \notin e.jobs /\ c.jobs = e.jobs \cup {j} /\ Exact(e)
        BY <1>10, <1>14, <2>4, <2>5
    <3> QED
        BY <1>4, <1>9, <1>15, <2>3, <2>4, <3>1, JobAdded
  <2>10. Lineage(J \cup {j}, r)
    <3>3. /\ Now(J \cup {j}, r, "migration") = Now(J, r, "migration")
          /\ Now(J \cup {j}, r, "append") = Now(J, r, "append") \cup {j}
        BY <1>4 DEF Now
    <3>4. Moving(J \cup {j}, r)
        BY <1>1, <1>3, <3>3 DEF Lineage, Moving, Media
    <3>5. j \notin Now(J, r, "append")
        BY <1>3, <1>4, <1>7 DEF Now
    <3>6. Tokens(Now(J, r, "append") \cup {j}) = Tokens(Now(J, r, "append")) + count
        BY <1>1, <1>4, <3>5, NowFacts, TokensAdd
    <3>8. Appending(J \cup {j}, r)
        BY <1>1, <1>3, <1>4, <1>7, <3>3, <3>6 DEF Appending, g, Lineage
    <3> QED
        BY <1>1, <1>3, <1>4, <3>4, <3>8 DEF Lineage, Aged
  <2>11. Good(c)
      BY <1>1, <2>3, <2>6, <2>7, <2>8, <2>9, <2>10, GoodStep
  <2> QED
      BY <1>10, <1>14, <2>3, <2>4, <2>7, <2>8, <2>11 DEF c, r
<1> QED
    BY <1>12, <1>13

\* A job that is not the migration the session waits for may go.
LEMMA LineageLess ==
    ASSUME NEW J \in SUBSET JobType, IsFiniteSet(J), NEW r \in RecordType, Lineage(J, r),
           NEW j \in J, j \notin Now(J, r, "migration")
    PROVE  Lineage(J \ {j}, r)
<1> DEFINE A == Now(J, r, "append")
<1>2. Now(J \ {j}, r, "migration") = Now(J, r, "migration")
    BY DEF Now
<1>3. Moving(J \ {j}, r)
  <2>1. CASE r.state = "migrating"
    <3>1. PICK k \in J : /\ Now(J, r, "migration") = {k}
                         /\ k.group = r.group /\ k.version = r.version /\ k.count = r.total
        BY <2>1 DEF Lineage, Moving
    <3> QED
        BY <1>2, <2>1, <3>1 DEF Moving
  <2>2. CASE r.state # "migrating"
      BY <1>2, <2>2 DEF Lineage, Moving
  <2> QED
      BY <2>1, <2>2
<1>5. A \in SUBSET JobType /\ IsFiniteSet(A)
    BY NowFacts
<1>6. Tokens(A) \in Nat /\ Tokens(A) <= r.lpddr
    BY <1>5, TokensType DEF Lineage, Appending
<1>7. Tokens(A \ {j}) <= r.lpddr
  <2>1. CASE j \in A
      BY <1>5, <1>6, <2>1, TokensRemove, JobTyping, RecordTyping
  <2>2. CASE j \notin A
    <3>1. A \ {j} = A
        BY <2>2
    <3> QED
        BY <1>6, <3>1
  <2> QED
      BY <2>1, <2>2
<1> QED
    BY <1>3, <1>7 DEF Lineage, Aged, Appending, Now

\* What is left when a job ends.
Ends(b, j) == [b EXCEPT !.jobs = @ \ {j}]
LEMMA EndsFacts ==
    ASSUME NEW b, Typed(b), NEW j \in b.jobs
    PROVE  LET e == Ends(b, j) IN
           /\ Typed(e) /\ e.failed = b.failed /\ e.rec = b.rec /\ e.lru = b.lru
           /\ e.jobs = b.jobs \ {j} /\ e.reserved = b.reserved /\ e.lpddr = b.lpddr
           /\ j \in JobType /\ j.session \in Session
           /\ \A t \in Session : Of(e.jobs, t) = IF t = j.session THEN Of(b.jobs, t) \ {j}
                                                 ELSE Of(b.jobs, t)
           /\ \A g \in Group, k \in Card :
                /\ JobShare(j, g, k) = (IF g = j.group THEN JobBytes(j)[k] ELSE 0)
                /\ JobShare(j, g, k) \in Nat /\ Flying(b.jobs, g, k) \in Nat
                /\ Flying(e.jobs, g, k) = Flying(b.jobs, g, k) - JobShare(j, g, k)
<1> DEFINE e == Ends(b, j)
<1>1. b.jobs \ {j} \in SUBSET JobType /\ IsFiniteSet(b.jobs \ {j})
      /\ b.jobs \in SUBSET JobType /\ IsFiniteSet(b.jobs)
    BY Typing, FS_RemoveElement
<1>2. JobsTo(b, e, b.jobs \ {j})
    BY Typing DEF JobsTo, Ends
<1> HIDE DEF e
<1>3. /\ Typed(e) /\ e.failed = b.failed /\ e.rec = b.rec /\ e.lru = b.lru
      /\ e.jobs = b.jobs \ {j} /\ e.reserved = b.reserved /\ e.lpddr = b.lpddr
    BY <1>1, <1>2, JobsSet
<1>4. j \in JobType /\ j.session \in Session
    BY <1>1, JobTyping
<1>6. ASSUME NEW g \in Group, NEW k \in Card
      PROVE  /\ JobShare(j, g, k) = (IF g = j.group THEN JobBytes(j)[k] ELSE 0)
             /\ JobShare(j, g, k) \in Nat /\ Flying(b.jobs, g, k) \in Nat
             /\ Flying(e.jobs, g, k) = Flying(b.jobs, g, k) - JobShare(j, g, k)
    BY <1>1, <1>3, <1>4, FlyingType, JobShareType, FlyingRemove DEF JobShare
<1> QED
    BY <1>3, <1>4, <1>6 DEF e, Of

\* A stale job gives its room back.
LEMMA StaleGood ==
    ASSUME setup \in Setups, NEW b, Good(b), NEW j \in b.jobs,
           j \notin Now(Of(b.jobs, j.session), b.rec[j.session], "migration"),
           ~Free(Ends(b, j), j.group, JobBytes(j)).failed
    PROVE  LET c == Free(Ends(b, j), j.group, JobBytes(j)) IN
           /\ ~b.failed /\ Good(c) /\ Spared(b, c, j.session)
           /\ c.rec = b.rec /\ c.lpddr = b.lpddr /\ c.jobs = b.jobs \ {j}
<1> DEFINE s == j.session
           r == b.rec[s]
           J == Of(b.jobs, s)
           v == JobBytes(j)
           e == Ends(b, j)
           c == Free(e, j.group, v)
<1>1. Typed(b) /\ Exact(b)
    BY DEF Good
<1>2. /\ Typed(e) /\ e.failed = b.failed /\ e.rec = b.rec /\ e.lru = b.lru
      /\ e.jobs = b.jobs \ {j} /\ e.reserved = b.reserved /\ e.lpddr = b.lpddr
      /\ j \in JobType /\ s \in Session
      /\ \A t \in Session : Of(e.jobs, t) = IF t = s THEN Of(b.jobs, t) \ {j} ELSE Of(b.jobs, t)
    BY <1>1, EndsFacts
<1>3. \A g \in Group, k \in Card :
        /\ JobShare(j, g, k) = (IF g = j.group THEN v[k] ELSE 0)
        /\ JobShare(j, g, k) \in Nat /\ Flying(b.jobs, g, k) \in Nat
        /\ Flying(e.jobs, g, k) = Flying(b.jobs, g, k) - JobShare(j, g, k)
    BY <1>1, EndsFacts
<1>5. r \in RecordType /\ Place(r) /\ Lineage(J, r) /\ J \in SUBSET JobType /\ IsFiniteSet(J)
    BY <1>2, GoodFacts
<1>6. j \in J /\ j \notin Now(J, r, "migration")
    BY <1>1, Typing DEF Of
<1> HIDE DEF e, v, J, s, r
<1>7. /\ ~e.failed /\ Typed(c) /\ Within(v, e.reserved[j.group])
      /\ c.rec = e.rec /\ c.lru = e.lru /\ c.jobs = e.jobs /\ c.lpddr = e.lpddr
      /\ \A h \in Group, k \in Card :
           c.reserved[h][k] = e.reserved[h][k] - (IF h = j.group THEN v[k] ELSE 0)
    BY <1>2, FreeFacts, JobTyping DEF e, v
<1> HIDE DEF c
<1>9. Lineage(J \ {j}, r)
    BY <1>5, <1>6, LineageLess
<1>10. Spared(b, c, s)
    BY <1>2, <1>7 DEF Spared, Same
<1>11. Exact(c)
  <2> SUFFICES ASSUME NEW g \in Group, NEW k \in Card PROVE Balance(b, c, s, g, k)
      BY <1>1, <1>2, <1>7, ExactStep
  <2>1. /\ b.reserved[g][k] \in Nat /\ b.reserved[g][k] <= setup.hbfCap
        /\ Share(b.rec[s], g, k) \in Nat /\ setup.hbfCap \in Nat
      BY <1>1, <1>2, Typing, ShareType, SetupFacts DEF Exact, Counts
  <2>2. c.reserved[g][k] = b.reserved[g][k] - JobShare(j, g, k)
        /\ Flying(c.jobs, g, k) = Flying(b.jobs, g, k) - JobShare(j, g, k)
      BY <1>2, <1>3, <1>7
  <2> QED
      BY <1>2, <1>3, <1>7, <2>1, <2>2 DEF Balance
<1> QED
    BY <1>2, <1>5, <1>7, <1>9, <1>10, <1>11, GoodStep DEF c, e, v, s, J, r

\* A job that is published turns its reservation into a committed prefix.
Publishes(b, j, d, q) ==
  /\ Typed(d) /\ d.rec = b.rec /\ d.jobs = b.jobs \ {j} /\ d.reserved = b.reserved
  /\ \A o \in Owner \ {Holder(j.session)} : d.lpddr[o] = b.lpddr[o]
  /\ q \in RecordType /\ Place(q) /\ Lineage(Of(b.jobs, j.session) \ {j}, q)
  /\ \A g \in Group, k \in Card :
       Share(q, g, k) = Share(b.rec[j.session], g, k) + JobShare(j, g, k)
LEMMA PublishGood ==
    ASSUME setup \in Setups, NEW b, Good(b), NEW j \in b.jobs, NEW d, NEW q,
           Publishes(b, j, d, q), NEW c, RecordTo(d, c, j.session, q)
    PROVE  /\ Good(c) /\ Spared(b, c, j.session) /\ c.rec[j.session] = q
           /\ c.failed = d.failed /\ c.lpddr = d.lpddr /\ c.jobs = b.jobs \ {j}
<1> DEFINE s == j.session
           r == b.rec[s]
           e == Ends(b, j)
<1>1. Typed(b) /\ Exact(b)
    BY DEF Good
<1>2. /\ e.jobs = b.jobs \ {j} /\ j \in JobType /\ s \in Session
      /\ \A t \in Session : Of(e.jobs, t) = IF t = s THEN Of(b.jobs, t) \ {j} ELSE Of(b.jobs, t)
    BY <1>1, EndsFacts
<1>3. \A g \in Group, k \in Card :
        /\ JobShare(j, g, k) \in Nat /\ Flying(b.jobs, g, k) \in Nat
        /\ Flying(e.jobs, g, k) = Flying(b.jobs, g, k) - JobShare(j, g, k)
    BY <1>1, EndsFacts
<1>4. r \in RecordType
    BY <1>2, GoodFacts
<1>14. /\ Typed(d) /\ d.rec = b.rec /\ d.jobs = b.jobs \ {j} /\ d.reserved = b.reserved
       /\ \A o \in Owner \ {Holder(j.session)} : d.lpddr[o] = b.lpddr[o]
       /\ q \in RecordType /\ Place(q) /\ Lineage(Of(b.jobs, j.session) \ {j}, q)
    BY DEF Publishes
<1> HIDE DEF e
<1>6. Wrote(d, c, s, q, d.jobs)
    BY <1>2, <1>14, RecordSet
<1>7. /\ Typed(c) /\ c.failed = d.failed /\ c.rec[s] = q
      /\ \A t \in Session \ {s} : c.rec[t] = b.rec[t]
      /\ c.jobs = e.jobs /\ c.reserved = b.reserved /\ c.lpddr = d.lpddr
    BY <1>2, <1>6, <1>14 DEF Wrote
<1>10. \A t \in Session \ {s} : /\ c.lpddr[Holder(t)] = b.lpddr[Holder(t)]
                                /\ c.lpddr[Headroom(t)] = b.lpddr[Headroom(t)]
    BY <1>2, <1>7, <1>14, OwnerFacts
<1>11. Spared(b, c, s)
    BY <1>2, <1>7, <1>10 DEF Spared, Same
<1>12. Exact(c)
  <2> SUFFICES ASSUME NEW g \in Group, NEW k \in Card PROVE Balance(b, c, s, g, k)
      BY <1>1, <1>2, <1>7, ExactStep
  <2>2. /\ c.reserved[g][k] = b.reserved[g][k]
        /\ Flying(c.jobs, g, k) = Flying(b.jobs, g, k) - JobShare(j, g, k)
        /\ Share(c.rec[s], g, k) = Share(r, g, k) + JobShare(j, g, k)
      BY <1>3, <1>7 DEF Publishes
  <2> QED
      BY <1>1, <1>3, <1>4, <2>2, Typing, ShareType DEF Balance, Exact, Counts
<1> QED
    BY <1>2, <1>7, <1>11, <1>12, <1>14, GoodStep

\* _finish_migration
LEMMA FinishMigrationGood ==
    ASSUME setup \in Setups, NEW b, Good(b), NEW j \in b.jobs, j.kind = "migration",
           ~FinishMigration(b, j).failed
    PROVE  LET c == FinishMigration(b, j)
               s == j.session
               r == b.rec[s] IN
           /\ ~b.failed /\ Good(c) /\ Spared(b, c, s) /\ c.jobs = b.jobs \ {j}
           /\ c.lpddr[Headroom(s)] = b.lpddr[Headroom(s)]
           /\ \/ c.rec[s] = r /\ c.lpddr[Holder(s)] = b.lpddr[Holder(s)]
              \/ /\ r.state = "migrating" /\ IsCurrent(b, j)
                 /\ c.rec[s] = Migrated(r, j.count) /\ c.lpddr[Holder(s)] = Nobody
<1> DEFINE s == j.session
           r == b.rec[s]
           J == Of(b.jobs, s)
           e == Ends(b, j)
           d == Drop(e, Holder(s))
           c == FinishMigration(b, j)
           q == Migrated(r, j.count)
<1>1. Typed(b) /\ Exact(b)
    BY DEF Good
<1>2. /\ Typed(e) /\ e.failed = b.failed /\ e.rec = b.rec /\ e.lru = b.lru
      /\ e.jobs = b.jobs \ {j} /\ e.reserved = b.reserved /\ e.lpddr = b.lpddr
      /\ j \in JobType /\ s \in Session
    BY <1>1, EndsFacts
<1>3. r \in RecordType /\ Place(r) /\ Lineage(J, r) /\ J \in SUBSET JobType /\ IsFiniteSet(J)
    BY <1>2, GoodFacts
<1>4. j.group \in Group /\ j.count \in Nat /\ j \in J
    BY <1>2, JobTyping DEF Of
<1>5. Holder(s) \in Owner /\ Headroom(s) \in Owner /\ Holder(s) # Headroom(s)
    BY <1>2, OwnerFacts
<1>6. CASE IsCurrent(b, j)
  <2>1. /\ r.state = "migrating" /\ r.group = j.group /\ r.generation = j.generation
      BY <1>6 DEF IsCurrent
  <2>2. PICK i \in J : /\ Now(J, r, "migration") = {i}
                       /\ i.group = r.group /\ i.version = r.version /\ i.count = r.total
      BY <1>3, <2>1 DEF Lineage, Moving
  <2>3. j = i
      BY <1>4, <2>1, <2>2 DEF Now
  <2>4. j.count = r.total /\ j.start = 0
      BY <1>3, <1>4, <2>2, <2>3 DEF Lineage, Aged
  <2>5. /\ q \in RecordType /\ q.state = "hbf_ready" /\ q.generation = r.generation
        /\ q.version = r.version /\ q.total = r.total /\ q.committed = j.count
        /\ q.lpddr = 0 /\ q.group = r.group
      BY <1>3, <1>4, MigratedType
  <2>15. d.rec[s] = r
      BY <1>1, <1>2, Typing DEF Drop
  <2>6. RecordTo(d, c, s, q)
      BY <1>6, <2>15 DEF FinishMigration, Ends, RecordTo, Migrated
  <2> HIDE DEF q, c, e
  <2>7. /\ Typed(d) /\ d.failed = e.failed
        /\ d.rec = e.rec /\ d.lru = e.lru /\ d.jobs = e.jobs /\ d.reserved = e.reserved
        /\ d.lpddr = [e.lpddr EXCEPT ![Holder(s)] = Nobody]
      BY <1>2, <1>5, DropFacts
  <2> HIDE DEF d
  <2>8. \A o \in Owner \ {Holder(s)} : d.lpddr[o] = b.lpddr[o]
      BY <1>2, <2>7
  <2>10. Place(q)
      BY <1>3, <1>4, <2>1, <2>4, <2>5 DEF Place, Media
  <2>11. Lineage(J \ {j}, q)
    <3>4. Now(J \ {j}, q, "append") = {}
        BY <1>3, <2>1, <2>5 DEF Lineage, Appending, Media, Now
    <3>6. Appending(J \ {j}, q)
      <4> QED
          BY <2>5, <3>4, SumEmpty DEF Appending, Tokens
    <3> QED
        BY <1>3, <2>2, <2>3, <2>5, <3>6 DEF Lineage, Aged, Moving, Now
  <2>12. \A g \in Group, k \in Card : Share(q, g, k) = Share(r, g, k) + JobShare(j, g, k)
    <3> SUFFICES ASSUME NEW g \in Group, NEW k \in Card
                 PROVE  Share(q, g, k) = Share(r, g, k) + JobShare(j, g, k)
        OBVIOUS
    <3> QED
        BY <1>2, <1>3, <2>1, <2>4, <2>5, NothingCommitted, JobShareType DEF Share, JobShare,
           Committed, JobBytes, Place, Media
  <2>17. q \in RecordType
      BY <2>5
  <2>19. Publishes(b, j, d, q)
      BY <1>2, <2>7, <2>8, <2>10, <2>11, <2>12, <2>17 DEF Publishes
  <2>13. /\ Good(c) /\ Spared(b, c, s) /\ c.rec[s] = q
         /\ c.failed = d.failed /\ c.lpddr = d.lpddr /\ c.jobs = b.jobs \ {j}
      BY <2>6, <2>19, PublishGood
  <2>14. c.lpddr[Headroom(s)] = b.lpddr[Headroom(s)] /\ c.lpddr[Holder(s)] = Nobody
      BY <1>2, <1>5, <2>7, <2>8, <2>13, Typing
  <2> QED
      BY <1>2, <1>6, <2>1, <2>7, <2>13, <2>14 DEF c, q
<1>7. CASE ~IsCurrent(b, j)
  <2>2. j \notin Now(J, r, "migration")
    <3> SUFFICES ASSUME j \in Now(J, r, "migration") PROVE FALSE
        OBVIOUS
    <3>1. r.state = "migrating"
        BY <1>3 DEF Lineage, Moving
    <3>2. PICK i \in J : /\ Now(J, r, "migration") = {i}
                         /\ i.group = r.group /\ i.version = r.version /\ i.count = r.total
        BY <1>3, <3>1 DEF Lineage, Moving
    <3> QED
        BY <1>7, <3>1, <3>2 DEF IsCurrent, Now
  <2> QED
      BY <1>7, <2>2, StaleGood DEF FinishMigration, Ends
<1> QED
    BY <1>6, <1>7

\* _finish_append
LEMMA FinishAppendGood ==
    ASSUME setup \in Setups, NEW b, Good(b), NEW j \in b.jobs, j.kind = "append",
           ~FinishAppend(b, j).failed
    PROVE  LET c == FinishAppend(b, j)
               s == j.session
               r == b.rec[s]
               o == b.lpddr[Holder(s)] IN
           /\ ~b.failed /\ Good(c) /\ Spared(b, c, s) /\ c.jobs = b.jobs \ {j}
           /\ c.lpddr[Headroom(s)] = b.lpddr[Headroom(s)]
           /\ \/ c.rec[s] = r /\ c.lpddr[Holder(s)] = b.lpddr[Holder(s)]
              \/ /\ r.state \in Media /\ IsNext(b, j) /\ j.count <= r.lpddr
                 /\ c.rec[s] = Appended(r, j.count)
                 /\ c.lpddr[Holder(s)] = Entry(o.group, Minus(o.bytes, JobBytes(j)))
<1> DEFINE s == j.session
           r == b.rec[s]
           J == Of(b.jobs, s)
           e == Ends(b, j)
           d == Shrink(e, Holder(s), JobBytes(j))
           c == FinishAppend(b, j)
           q == Appended(r, j.count)
<1>1. Typed(b) /\ Exact(b)
    BY DEF Good
<1>2. /\ Typed(e) /\ e.failed = b.failed /\ e.rec = b.rec /\ e.lru = b.lru
      /\ e.jobs = b.jobs \ {j} /\ e.reserved = b.reserved /\ e.lpddr = b.lpddr
      /\ j \in JobType /\ s \in Session
    BY <1>1, EndsFacts
<1>3. r \in RecordType /\ Place(r) /\ Lineage(J, r) /\ J \in SUBSET JobType /\ IsFiniteSet(J)
    BY <1>2, GoodFacts
<1>4. j.group \in Group /\ j.count \in Nat /\ j.start \in Nat /\ j \in J /\ JobBytes(j) \in Counts
    BY <1>2, JobTyping DEF Of
<1>5. Holder(s) \in Owner /\ Headroom(s) \in Owner /\ Holder(s) # Headroom(s)
    BY <1>2, OwnerFacts
<1>6. CASE ~IsNext(b, j)
    BY <1>6, StaleGood DEF FinishAppend, Ends, Now
<1>7. CASE IsNext(b, j)
  <2>1. r.group = j.group /\ r.generation = j.generation /\ j.start = r.committed
      BY <1>7 DEF IsNext
  <2>2. j \in Now(J, r, "append")
      BY <1>4, <2>1 DEF Now
  <2>3. j.count <= r.lpddr
    <3> SUFFICES ASSUME ~(j.count <= r.lpddr) PROVE FALSE
        OBVIOUS
    <3>1. j.count > b.rec[j.session].lpddr
        BY <1>3, <1>4, RecordTyping
    <3>2. c = Raise(e)
        BY <1>7, <3>1, Zenon DEF FinishAppend, Ends
    <3> QED
        BY <1>2, <3>2, RaiseFails
  <2>4. /\ q \in RecordType /\ q.state = r.state /\ q.generation = r.generation
        /\ q.version = r.version /\ q.total = r.total /\ q.committed = r.committed + j.count
        /\ q.lpddr = r.lpddr - j.count /\ q.group = r.group
      BY <1>3, <1>4, <2>3, AppendedType
  <2>5. /\ r.committed \in Nat /\ r.lpddr \in Nat /\ r.version \in Nat /\ r.generation \in Nat
        /\ r.state \in Media
      BY <1>3, <2>2, RecordTyping DEF Lineage, Appending
  <2>20. RecordTo(d, c, s, q)
    <3>1. ~(j.count > b.rec[j.session].lpddr)
        BY <1>4, <2>3, <2>5
    <3>2. c = [d EXCEPT !.rec[s] = [r EXCEPT !.committed = @ + j.count, !.lpddr = @ - j.count]]
        BY <1>7, <3>1, Zenon DEF FinishAppend, Ends
    <3> HIDE DEF c, d
    <3> QED
        BY <3>2 DEF RecordTo, Appended
  <2>21. Typed(d)
      BY <1>2, <1>4, <1>5, SetTyped DEF Places
  <2> HIDE DEF q, e, d, c
  <2>7. /\ ~e.failed /\ Within(JobBytes(j), Held(e, Holder(s)))
        /\ d.rec = e.rec /\ d.lru = e.lru /\ d.jobs = e.jobs /\ d.reserved = e.reserved
        /\ d.lpddr = [e.lpddr EXCEPT ![Holder(s)] =
                        Entry(e.lpddr[Holder(s)].group, Minus(Held(e, Holder(s)), JobBytes(j)))]
    <3>1. ~d.failed
        BY <2>20, <2>21, Typing DEF c, RecordTo
    <3> QED
        BY <1>2, <1>4, <1>5, <3>1, ShrinkFacts DEF d
  <2>9. \A o \in Owner \ {Holder(s)} : d.lpddr[o] = b.lpddr[o]
      BY <1>1, <1>2, <2>7, Typing
  <2>10. d.lpddr[Holder(s)] = Entry(b.lpddr[Holder(s)].group,
                                    Minus(b.lpddr[Holder(s)].bytes, JobBytes(j)))
      BY <1>2, <1>5, <2>7, Typing DEF Held
  <2>11. Place(q)
    <3>1. q.committed + q.lpddr = r.committed + r.lpddr
        BY <1>4, <2>4, <2>5
    <3> QED
        BY <1>3, <2>4, <2>5, <3>1 DEF Place
  <2>12. Lineage(J \ {j}, q)
    <3> DEFINE A == Now(J, r, "append")
    <3>4. Now(J \ {j}, q, "append") = A \ {j}
        BY <2>4 DEF Now
    <3>7. Tokens(A) = Tokens(A \ {j}) + j.count /\ Tokens(A \ {j}) \in Nat
        BY <1>3, <2>2, TokensRemove, NowFacts
    <3>8. /\ Tokens(A) <= r.lpddr
          /\ \A i \in A : i.group = r.group /\ i.start + i.count <= r.committed + r.lpddr
        BY <1>3 DEF Lineage, Appending
    <3>9. Tokens(A \ {j}) <= q.lpddr
        BY <1>4, <2>4, <2>5, <3>7, <3>8
    <3>10. q.committed + q.lpddr = r.committed + r.lpddr
        BY <1>4, <2>4, <2>5
    <3> HIDE DEF A
    <3>11. Appending(J \ {j}, q)
        BY <2>4, <2>5, <3>4, <3>8, <3>9, <3>10 DEF Appending
    <3> QED
        BY <1>3, <2>4, <2>5, <3>11 DEF Lineage, Aged, Moving, Media, Now
  <2>13. \A g \in Group, k \in Card : Share(q, g, k) = Share(r, g, k) + JobShare(j, g, k)
    <3> SUFFICES ASSUME NEW g \in Group, NEW k \in Card
                 PROVE  Share(q, g, k) = Share(r, g, k) + JobShare(j, g, k)
        OBVIOUS
    <3> HIDE DEF r
    <3>0. 0 \in Nat /\ r.committed \in Nat /\ j.count \in Nat
        BY <1>4, <2>5
    <3>1. Stripe(0, r.committed + j.count)[k]
            = Stripe(0, r.committed)[k] + Stripe(0 + r.committed, j.count)[k]
        BY <3>0, StripeSplit, Zenon
    <3> QED
        BY <2>1, <2>4, <2>5, <3>1 DEF Share, JobShare, Committed, JobBytes
  <2>14. Typed(d) /\ d.rec = b.rec /\ d.jobs = b.jobs \ {j} /\ d.reserved = b.reserved
      BY <1>2, <2>7, <2>21
  <2>15. q \in RecordType
      BY <2>4
  <2>16. Publishes(b, j, d, q)
      BY <2>9, <2>11, <2>12, <2>13, <2>14, <2>15 DEF Publishes
  <2>17. /\ Good(c) /\ Spared(b, c, s) /\ c.rec[s] = q
         /\ c.failed = d.failed /\ c.lpddr = d.lpddr /\ c.jobs = b.jobs \ {j}
      BY <2>16, <2>20, PublishGood
  <2>18. c.lpddr[Headroom(s)] = b.lpddr[Headroom(s)]
      BY <1>5, <2>9, <2>17
  <2>19. ~b.failed
      BY <1>2, <2>7
  <2> QED
      BY <1>7, <2>3, <2>5, <2>10, <2>17, <2>18, <2>19 DEF c, q
<1> QED
    BY <1>6, <1>7

\* advance: the job at the head of the calendar ends.
LEMMA FinishJobGood ==
    ASSUME setup \in Setups, NEW b, Good(b), NEW j \in b.jobs, ~FinishJob(b, j).failed
    PROVE  LET c == FinishJob(b, j)
               s == j.session
               r == b.rec[s] IN
           /\ ~b.failed /\ Good(c) /\ Spared(b, c, s) /\ s \in Session /\ c.jobs = b.jobs \ {j}
           /\ \/ c.rec[s] = r
              \/ r.state = "migrating" /\ c.rec[s] = Migrated(r, j.count)
              \/ /\ r.state \in Media /\ j.count <= r.lpddr /\ c.rec[s] = Appended(r, j.count)
<1>1. Typed(b) /\ j \in JobType /\ j.session \in Session
    BY Typing, JobTyping DEF Good
<1>2. CASE j.kind = "migration"
    BY <1>1, <1>2, FinishMigrationGood DEF FinishJob
<1>3. CASE j.kind # "migration"
  <2> QED
      BY <1>1, <1>3, FinishAppendGood, JobTyping DEF FinishJob
<1> QED
    BY <1>2, <1>3

-----------------------------------------------------------------------------
(* The turns of a session. A handler may pass a state whose total is not   *)
(* yet that of its two parts: it is near a good one.                       *)

Near(b, d, s) ==
  Typed(d) /\ Exact(d) /\ Spared(b, d, s) /\ Lineage(Of(d.jobs, s), d.rec[s])

LEMMA NearGood ==
    ASSUME setup \in Setups, NEW b, Good(b), NEW s \in Session, NEW d, Near(b, d, s),
           Place(d.rec[s])
    PROVE  Good(d)
    BY GoodStep DEF Near

\* The session's share of the books moves with its record.
Shifts(b, c, s) ==
  /\ c.jobs = b.jobs /\ \A t \in Session \ {s} : c.rec[t] = b.rec[t]
  /\ \A g \in Group, k \in Card :
       /\ c.reserved[g][k] = b.reserved[g][k] - Share(b.rec[s], g, k) + Share(c.rec[s], g, k)
       /\ Share(c.rec[s], g, k) <= Share(b.rec[s], g, k)
LEMMA ShiftExact ==
    ASSUME setup \in Setups, NEW b, Typed(b), Exact(b), NEW c, Typed(c), NEW s \in Session,
           Shifts(b, c, s)
    PROVE  Exact(c)
<1> SUFFICES ASSUME NEW g \in Group, NEW k \in Card PROVE Balance(b, c, s, g, k)
    BY ExactStep DEF Shifts
<1>4. b.reserved[g][k] \in Nat /\ b.reserved[g][k] <= setup.hbfCap /\ setup.hbfCap \in Nat
    BY Typing, SetupFacts DEF Exact, Counts
<1>5. Flying(b.jobs, g, k) \in Nat
    BY Typing, FlyingType
<1> QED
    BY <1>4, <1>5, Typing, ShareType DEF Balance, Shifts

\* What holds on the way to a good state of s stays when only s's record and bytes move.
LEMMA NearStep ==
    ASSUME setup \in Setups, NEW b, Good(b), NEW s \in Session, NEW d, Near(b, d, s), NEW c,
           Typed(c), Shifts(d, c, s), Lineage(Of(d.jobs, s), c.rec[s]),
           \A t \in Session \ {s} : /\ c.lpddr[Holder(t)] = d.lpddr[Holder(t)]
                                    /\ c.lpddr[Headroom(t)] = d.lpddr[Headroom(t)]
    PROVE  Near(b, c, s)
<1>1. Typed(b) /\ Typed(d) /\ Exact(d) /\ Spared(b, d, s)
    BY DEF Near, Good
<1>2. Exact(c)
    BY <1>1, ShiftExact
<1>3. Spared(d, c, s)
    BY RecordSpares DEF Shifts
<1>4. Spared(b, c, s)
    BY <1>1, <1>3, SparedTwice, Typing
<1> QED
    BY <1>2, <1>4 DEF Near, Shifts

\* A good state is near itself.
LEMMA NearSelf ==
    ASSUME NEW b, Good(b), NEW s \in Session
    PROVE  Near(b, b, s)
<1> QED
    BY GoodFacts DEF Near, Spared, Same

\* end_session
LEMMA EndGood ==
    ASSUME setup \in Setups, NEW b, Good(b), NEW s \in Session, NEW d, Near(b, d, s),
           ~End(d, s).failed
    PROVE  LET c == End(d, s) IN
           /\ ~d.failed /\ Good(c) /\ Spared(b, c, s) /\ c.jobs = d.jobs
           /\ c.rec[s] = Ended(d.rec[s])
           /\ c.lpddr[Holder(s)] = Nobody /\ c.lpddr[Headroom(s)] = Nobody
<1> DEFINE r == d.rec[s]
           q == Ended(r)
           x == Drop(d, Headroom(s))
           y == Drop(x, Holder(s))
           z == IF r.group = NoGroup THEN y ELSE Free(y, r.group, Committed(r))
           c == End(d, s)
<1>2. Typed(d) /\ Exact(d) /\ Spared(b, d, s) /\ Lineage(Of(d.jobs, s), r)
    BY DEF Near
<1>3. r \in RecordType /\ Of(d.jobs, s) \in SUBSET JobType
    BY <1>2, Typing DEF Of
<1>4. Holder(s) \in Owner /\ Headroom(s) \in Owner /\ Holder(s) # Headroom(s)
      /\ \A t \in Session \ {s} : Holder(t) \in Owner \ {Holder(s), Headroom(s)}
                                  /\ Headroom(t) \in Owner \ {Holder(s), Headroom(s)}
    BY OwnerFacts
<1>5. RecordTo(z, c, s, q)
    BY DEF End, RecordTo, Ended
<1>6. /\ q \in RecordType /\ q.state = "ended" /\ q.generation = r.generation + 1
      /\ q.version = r.version /\ q.total = r.total /\ q.committed = 0 /\ q.lpddr = 0
      /\ q.group = NoGroup
    BY <1>3, EndedType
<1>7. Committed(r) \in Counts
    BY <1>3, CardFacts, ShareType
<1> HIDE DEF r, q, c
<1>8. /\ Typed(x) /\ x.failed = d.failed
      /\ x.rec = d.rec /\ x.lru = d.lru /\ x.jobs = d.jobs /\ x.reserved = d.reserved
      /\ x.lpddr = [d.lpddr EXCEPT ![Headroom(s)] = Nobody]
    BY <1>2, <1>4, DropFacts
<1> HIDE DEF x
<1>9. /\ Typed(y) /\ y.failed = x.failed
      /\ y.rec = x.rec /\ y.lru = x.lru /\ y.jobs = x.jobs /\ y.reserved = x.reserved
      /\ y.lpddr = [x.lpddr EXCEPT ![Holder(s)] = Nobody]
    BY <1>4, <1>8, DropFacts
<1> HIDE DEF y
<1>10. /\ y.lpddr[Holder(s)] = Nobody /\ y.lpddr[Headroom(s)] = Nobody
       /\ \A o \in Owner \ {Holder(s), Headroom(s)} : y.lpddr[o] = d.lpddr[o]
    BY <1>2, <1>4, <1>8, <1>9, Typing
<1>11. Typed(z)
    BY <1>3, <1>7, <1>9, RecordTyping, FreeTyped DEF Places
<1>12. Wrote(z, c, s, q, z.jobs)
    BY <1>5, <1>6, <1>11, RecordSet
<1>13. ~z.failed
    BY <1>12 DEF Wrote, c
<1>14. /\ ~y.failed /\ z.rec = y.rec /\ z.jobs = y.jobs /\ z.lpddr = y.lpddr
       /\ \A g \in Group, k \in Card : z.reserved[g][k] = y.reserved[g][k] - Share(r, g, k)
  <2>1. CASE r.group = NoGroup
      BY <1>9, <1>13, <2>1, NoShare, Typing DEF Counts
  <2>2. CASE r.group # NoGroup
    <3>1. r.group \in Group
        BY <1>3, <2>2, RecordTyping DEF Places
    <3>2. z = Free(y, r.group, Committed(r))
        BY <2>2
    <3> HIDE DEF z
    <3> QED
        BY <1>7, <1>9, <1>13, <3>1, <3>2, FreeFacts DEF Share
  <2> QED
      BY <2>1, <2>2
<1> HIDE DEF z
<1>15. /\ Typed(c) /\ c.rec[s] = q /\ c.jobs = d.jobs /\ c.lpddr = y.lpddr
       /\ \A t \in Session \ {s} : c.rec[t] = d.rec[t]
       /\ c.reserved = z.reserved
    BY <1>8, <1>9, <1>12, <1>14 DEF Wrote
<1>16. Shifts(d, c, s)
  <2>2. \A g \in Group, k \in Card : Share(r, g, k) \in Nat /\ d.reserved[g][k] \in Nat
      BY <1>2, <1>3, Typing, ShareType DEF Counts
  <2> QED
      BY <1>6, <1>8, <1>9, <1>14, <1>15, <2>2, NoShare DEF Shifts, r
<1>17. Lineage(Of(d.jobs, s), q)
  <2>2. r.version <= q.version /\ r.generation < q.generation /\ q.state # "migrating"
      BY <1>3, <1>6, RecordTyping
  <2> QED
      BY <1>2, <1>3, <1>6, <2>2, Quiet
<1>19. Near(b, c, s)
    BY <1>4, <1>10, <1>15, <1>16, <1>17, NearStep
<1>20. Place(q)
    BY <1>6, SetupFacts DEF Place, Media
<1>22. ~d.failed
    BY <1>8, <1>9, <1>14
<1> QED
    BY <1>10, <1>15, <1>19, <1>20, <1>22, NearGood DEF c, q, r, Near

SameShare(r, q) == \A g \in Group, k \in Card : Share(q, g, k) = Share(r, g, k)
LEMMA ShareKept ==
    ASSUME NEW r, NEW q,
           \/ q.committed = r.committed /\ q.group = r.group
           \/ q.committed = 0 /\ r.committed = 0
    PROVE  SameShare(r, q)
<1>1. CASE q.committed = r.committed /\ q.group = r.group
    BY <1>1 DEF SameShare, Share, Committed
<1>2. CASE q.committed = 0 /\ r.committed = 0
    BY <1>2, NothingCommitted DEF SameShare
<1> QED
    BY <1>1, <1>2

\* Only the ledger of LPDDR or the order of use moves.
LEMMA NearAlike ==
    ASSUME setup \in Setups, NEW b, Good(b), NEW s \in Session, NEW d, Near(b, d, s), NEW c,
           Typed(c), c.rec = d.rec, c.jobs = d.jobs, c.reserved = d.reserved,
           \A t \in Session \ {s} : /\ c.lpddr[Holder(t)] = d.lpddr[Holder(t)]
                                    /\ c.lpddr[Headroom(t)] = d.lpddr[Headroom(t)]
    PROVE  Near(b, c, s)
<1>1. Typed(d) /\ Exact(d) /\ Spared(b, d, s) /\ Lineage(Of(d.jobs, s), d.rec[s])
    BY DEF Near
<1>2. Exact(c)
    BY <1>1 DEF Exact
<1>3. Spared(d, c, s)
    BY RecordSpares
<1>4. Spared(b, c, s)
    BY <1>1, <1>3, SparedTwice, Typing DEF Good
<1> QED
    BY <1>1, <1>2, <1>4 DEF Near

\* Only the record of s is written, with the same prefix.
LEMMA NearWrite ==
    ASSUME setup \in Setups, NEW b, Good(b), NEW s \in Session, NEW d, Near(b, d, s), NEW c,
           NEW q \in RecordType, Lineage(Of(d.jobs, s), q), SameShare(d.rec[s], q),
           RecordTo(d, c, s, q)
    PROVE  /\ Near(b, c, s) /\ c.rec[s] = q /\ c.jobs = d.jobs /\ c.failed = d.failed
           /\ c.lpddr = d.lpddr /\ c.reserved = d.reserved /\ c.lru = d.lru
<1>1. Typed(d)
    BY DEF Near
<1>2. Wrote(d, c, s, q, d.jobs)
    BY <1>1, RecordSet
<1>3. /\ Typed(c) /\ c.rec[s] = q /\ c.jobs = d.jobs /\ c.failed = d.failed
      /\ c.lpddr = d.lpddr /\ c.reserved = d.reserved /\ c.lru = d.lru
      /\ \A t \in Session \ {s} : c.rec[t] = d.rec[t]
    BY <1>2 DEF Wrote
<1>4. Shifts(d, c, s)
    BY <1>1, <1>3, Typing, ShareType DEF Counts, Shifts, SameShare
<1>5. Near(b, c, s)
    BY <1>3, <1>4, NearStep
<1> QED
    BY <1>3, <1>5

LEMMA NearTouch ==
    ASSUME setup \in Setups, NEW b, Good(b), NEW s \in Session, NEW d, Near(b, d, s)
    PROVE  LET c == Touch(d, s) IN
           /\ Near(b, c, s) /\ c.failed = d.failed /\ c.rec = d.rec /\ c.jobs = d.jobs
           /\ c.lpddr = d.lpddr /\ c.reserved = d.reserved
<1> DEFINE c == Touch(d, s)
<1>1. Typed(d)
    BY DEF Near
<1>2. /\ Typed(c) /\ c.failed = d.failed /\ c.rec = d.rec /\ c.jobs = d.jobs
      /\ c.lpddr = d.lpddr /\ c.reserved = d.reserved
    BY <1>1, TouchFacts
<1> HIDE DEF c
<1>3. Near(b, c, s)
    BY <1>2, NearAlike
<1> QED
    BY <1>2, <1>3 DEF c

\* complete_gpu_turn
LEMMA CompleteGpuGood ==
    ASSUME setup \in Setups, NEW b, Good(b), NEW s \in Session, b.rec[s].state = "gpu_active",
           NEW final \in Nat, NEW successor \in BOOLEAN, NEW start \in BOOLEAN,
           ~CompleteGpuTurn(b, s, final, successor, start).failed
    PROVE  LET c == CompleteGpuTurn(b, s, final, successor, start) IN
           /\ ~b.failed /\ Good(c) /\ Spared(b, c, s)
           /\ successor => /\ c.rec[s].state \in {"migrating", "gpu_ready", "ssd_ready"}
                           /\ c.rec[s].version = b.rec[s].version + 1 /\ c.rec[s].total = final
                           /\ c.lpddr[Holder(s)] = b.lpddr[Holder(s)]
                           /\ c.lpddr[Headroom(s)] = b.lpddr[Headroom(s)]
           /\ ~successor => /\ c.rec[s].state = "ended"
                            /\ c.lpddr[Holder(s)] = Nobody /\ c.lpddr[Headroom(s)] = Nobody
<1> DEFINE r == b.rec[s]
           x == Touch(b, s)
           q == Published(r, final)
           d == [x EXCEPT !.rec[s] = q]
           p == GpuReady(q)
           e == [d EXCEPT !.rec[s] = p]
           c == CompleteGpuTurn(b, s, final, successor, start)
           J == Of(b.jobs, s)
<1>1. /\ Typed(b) /\ r \in RecordType /\ Place(r) /\ Lineage(J, r)
      /\ J \in SUBSET JobType /\ IsFiniteSet(J)
    BY GoodFacts
<1>2. /\ r.state = "gpu_active" /\ r.state \notin Media \cup {"migrating"}
      /\ r.committed = 0 /\ r.lpddr = 0 /\ r.group \notin Group
      /\ r.version \in Nat /\ r.generation \in Nat
    BY <1>1, RecordTyping DEF Place, Media
<1>3. /\ Near(b, x, s) /\ x.failed = b.failed /\ x.rec = b.rec /\ x.jobs = b.jobs
      /\ x.lpddr = b.lpddr
    BY NearSelf, NearTouch
<1>4. /\ q \in RecordType /\ q.state = "gpu_active" /\ q.generation = r.generation
      /\ q.version = r.version + 1 /\ q.total = final /\ q.committed = 0
      /\ q.lpddr = 0 /\ q.group = r.group
    BY <1>1, <1>2, PublishedType
<1>5. /\ p \in RecordType /\ p.state = "gpu_ready" /\ p.generation = r.generation
      /\ p.version = r.version + 1 /\ p.total = final /\ p.committed = 0
      /\ p.lpddr = 0 /\ p.group = NoGroup
    BY <1>4, GpuReadyType
<1>6. Lineage(J, q) /\ Lineage(J, p)
    BY <1>1, <1>2, <1>4, <1>5, Quiet
<1>7. Place(q) /\ Place(p)
    BY <1>2, <1>4, <1>5, SetupFacts DEF Place, Media
<1>8. RecordTo(x, d, s, q) /\ RecordTo(d, e, s, p)
    BY DEF RecordTo
<1>9. SameShare(r, q) /\ SameShare(q, p)
    BY <1>2, <1>4, <1>5, ShareKept
<1>10. c = IF ~successor THEN End(d, s) ELSE IF start THEN Migrate(d, s, "gpu", TRUE) ELSE e
  <2> DEFINE y == [d EXCEPT !.rec[s] = [@ EXCEPT !.state = "gpu_ready", !.group = NoGroup]]
  <2>2. d.rec[s] = q
      BY <1>3, <1>1, TouchFacts, Typing
  <2>3. e = y
      BY <2>2 DEF GpuReady
  <2> QED
      BY <2>3 DEF CompleteGpuTurn, Published
<1> HIDE DEF x, q, p, d, e, r, J
<1>11. /\ Near(b, d, s) /\ d.rec[s] = q /\ d.jobs = x.jobs /\ d.failed = x.failed
       /\ d.lpddr = x.lpddr
    BY <1>3, <1>4, <1>6, <1>8, <1>9, NearWrite DEF r, J
<1>12. /\ Near(b, e, s) /\ e.rec[s] = p /\ e.jobs = d.jobs /\ e.failed = d.failed
       /\ e.lpddr = d.lpddr
    BY <1>3, <1>5, <1>6, <1>8, <1>9, <1>11, NearWrite DEF J
<1>13. Good(d) /\ Good(e)
    BY <1>7, <1>11, <1>12, NearGood
<1>14. CASE ~successor
    BY <1>3, <1>4, <1>10, <1>11, <1>14, EndGood, EndedType
<1>15. CASE successor /\ start
  <2>1. c = Migrate(d, s, "gpu", TRUE)
      BY <1>10, <1>15
  <2>2. d.rec[s].state \notin Media \cup {"migrating"}
      BY <1>4, <1>11 DEF Media
  <2>3. /\ ~d.failed /\ Good(c) /\ Spared(d, c, s)
        /\ c.rec[s].state \in {"migrating", "gpu_ready", "ssd_ready"}
        /\ c.rec[s].version = d.rec[s].version /\ c.rec[s].total = d.rec[s].total
        /\ c.lpddr[Holder(s)] = d.lpddr[Holder(s)] /\ c.lpddr[Headroom(s)] = d.lpddr[Headroom(s)]
    <3> DEFINE m == Migrate(d, s, "gpu", TRUE)
    <3>1. ~m.failed /\ "gpu" \in {"gpu", "ssd"} /\ TRUE \in BOOLEAN /\ Good(d)
        BY <1>13, <2>1
    <3>2. /\ ~d.failed /\ Good(m) /\ Spared(d, m, s)
          /\ m.rec[s].state \in {"migrating", "gpu_ready", "ssd_ready"}
          /\ m.rec[s].version = d.rec[s].version /\ m.rec[s].total = d.rec[s].total
          /\ m.lpddr[Holder(s)] = d.lpddr[Holder(s)]
          /\ m.lpddr[Headroom(s)] = d.lpddr[Headroom(s)]
        BY <2>2, <3>1, MigrateGood
    <3> QED
        BY <2>1, <3>2
  <2>4. Spared(b, c, s)
      BY <1>1, <1>11, <2>3, SparedTwice, Typing DEF Near
  <2> QED
      BY <1>3, <1>4, <1>11, <1>15, <2>3, <2>4 DEF r
<1>16. CASE successor /\ ~start
  <2>1. c = e
      BY <1>10, <1>16
  <2> QED
      BY <1>3, <1>5, <1>11, <1>12, <1>13, <1>16, <2>1 DEF Near, r
<1> QED
    BY <1>14, <1>15, <1>16

\* Whether or not there is room, only the bytes of o move.
LEMMA SetKeeps ==
    ASSUME NEW b, Typed(b), NEW g \in Places, NEW o \in Owner, NEW v \in Counts
    PROVE  LET c == SetBytes(b, g, o, v) IN
           /\ Typed(c) /\ c.rec = b.rec /\ c.lru = b.lru /\ c.jobs = b.jobs
           /\ c.reserved = b.reserved /\ \A x \in Owner \ {o} : c.lpddr[x] = b.lpddr[x]
           /\ ~c.failed => ~b.failed /\ CanSet(b, g, o, v) /\ c.lpddr[o] = Entry(g, v)
<1> DEFINE c == SetBytes(b, g, o, v)
<1>1. Typed(c)
    BY SetTyped
<1>2. DOMAIN b.lpddr = Owner
    BY Typing
<1>3. CASE ~c.failed
  <2>1. /\ ~b.failed /\ CanSet(b, g, o, v)
        /\ c.rec = b.rec /\ c.lru = b.lru /\ c.jobs = b.jobs /\ c.reserved = b.reserved
        /\ c.lpddr = [b.lpddr EXCEPT ![o] = Entry(g, v)]
      BY <1>3, SetFacts
  <2> HIDE DEF c
  <2> QED
      BY <1>1, <1>2, <2>1 DEF c
<1>4. CASE c.failed
  <2>1. CASE CanSet(b, g, o, v)
    <3> HIDE DEF c
    <3> QED
        BY <1>1, <1>2, <1>4, <2>1, Typing DEF c, SetBytes
  <2>2. CASE ~CanSet(b, g, o, v)
    <3> HIDE DEF c
    <3> QED
        BY <1>1, <1>4, <2>2, Typing DEF c, SetBytes, Raise
  <2> QED
      BY <2>1, <2>2
<1> QED
    BY <1>3, <1>4

LEMMA NearSet ==
    ASSUME setup \in Setups, NEW b, Good(b), NEW s \in Session, NEW d, Near(b, d, s),
           NEW g \in Places, NEW o \in {Holder(s), Headroom(s)}, NEW v \in Counts
    PROVE  LET c == SetBytes(d, g, o, v) IN
           /\ Near(b, c, s) /\ c.rec = d.rec /\ c.jobs = d.jobs
           /\ \A x \in Owner \ {o} : c.lpddr[x] = d.lpddr[x]
           /\ ~c.failed => ~d.failed /\ CanSet(d, g, o, v) /\ c.lpddr[o] = Entry(g, v)
<1> DEFINE c == SetBytes(d, g, o, v)
<1>1. Typed(d)
    BY DEF Near
<1>2. o \in Owner /\ \A t \in Session \ {s} : Holder(t) \in Owner \ {o} /\ Headroom(t) \in Owner \ {o}
    BY OwnerFacts
<1>3. /\ Typed(c) /\ c.rec = d.rec /\ c.jobs = d.jobs /\ c.reserved = d.reserved
      /\ \A x \in Owner \ {o} : c.lpddr[x] = d.lpddr[x]
      /\ ~c.failed => ~d.failed /\ CanSet(d, g, o, v) /\ c.lpddr[o] = Entry(g, v)
    BY <1>1, <1>2, SetKeeps
<1> HIDE DEF c
<1>4. Near(b, c, s)
    BY <1>2, <1>3, NearAlike
<1> QED
    BY <1>3, <1>4 DEF c

LEMMA NearDrop ==
    ASSUME setup \in Setups, NEW b, Good(b), NEW s \in Session, NEW d, Near(b, d, s),
           NEW o \in {Holder(s), Headroom(s)}
    PROVE  LET c == Drop(d, o) IN
           /\ Near(b, c, s) /\ c.rec = d.rec /\ c.jobs = d.jobs /\ c.failed = d.failed
           /\ c.reserved = d.reserved
           /\ c.lpddr[o] = Nobody /\ \A x \in Owner \ {o} : c.lpddr[x] = d.lpddr[x]
<1> DEFINE c == Drop(d, o)
<1>1. Typed(d)
    BY DEF Near
<1>2. o \in Owner /\ \A t \in Session \ {s} : Holder(t) \in Owner \ {o} /\ Headroom(t) \in Owner \ {o}
    BY OwnerFacts
<1>3. /\ Typed(c) /\ c.rec = d.rec /\ c.jobs = d.jobs /\ c.reserved = d.reserved
      /\ c.failed = d.failed /\ c.lpddr = [d.lpddr EXCEPT ![o] = Nobody]
    BY <1>1, <1>2, DropFacts
<1>4. DOMAIN d.lpddr = Owner
    BY <1>1, Typing
<1> HIDE DEF c
<1>5. c.lpddr[o] = Nobody /\ \A x \in Owner \ {o} : c.lpddr[x] = d.lpddr[x]
    BY <1>2, <1>3, <1>4
<1>6. Near(b, c, s)
    BY <1>2, <1>3, <1>5, NearAlike
<1> QED
    BY <1>3, <1>5, <1>6 DEF c

\* The tokens in flight to the committed prefix.
LEMMA InFlightFacts ==
    ASSUME NEW b, Good(b), NEW s \in Session
    PROVE  /\ InFlight(b, s) = Tokens(Now(Of(b.jobs, s), b.rec[s], "append"))
           /\ InFlight(b, s) \in Nat /\ InFlight(b, s) <= b.rec[s].lpddr
<1>3. InFlight(b, s) = Tokens(Now(Of(b.jobs, s), b.rec[s], "append"))
    BY DEF InFlight, Tokens, JobsOf, Of, Now
<1> QED
    BY <1>3, NowFacts, TokensType, GoodFacts DEF Lineage, Appending


\* complete_hbf_turn
LEMMA CompleteHbfGood ==
    ASSUME setup \in Setups, NEW b, Good(b), NEW s \in Session, b.rec[s].state = "hbf_active",
           NEW final \in Nat, b.rec[s].total <= final, NEW successor \in BOOLEAN,
           ~CompleteHbfTurn(b, s, final, successor).failed
    PROVE  LET c == CompleteHbfTurn(b, s, final, successor)
               r == b.rec[s]
               n == r.lpddr + final - r.total IN
           /\ ~b.failed /\ Good(c) /\ Spared(b, c, s) /\ c.lpddr[Headroom(s)] = Nobody
           /\ successor => /\ c.rec[s] = HbfReady(Renewed(r, final), n)
                           /\ c.lpddr[Holder(s)] = Entry(r.group, Stripe(r.committed, n))
           /\ ~successor => c.rec[s].state = "ended" /\ c.lpddr[Holder(s)] = Nobody
<1> DEFINE r == b.rec[s]
           n == r.lpddr + final - r.total
           v == Stripe(r.committed, n)
           w == Drop(b, Headroom(s))
           x == IF successor THEN SetBytes(w, r.group, Holder(s), v) ELSE w
           y == Touch(x, s)
           q == Renewed(r, final)
           d == [y EXCEPT !.rec[s] = q]
           p == HbfReady(q, n)
           e == [d EXCEPT !.rec[s] = p]
           f == InFlight(b, s)
           c == CompleteHbfTurn(b, s, final, successor)
           J == Of(b.jobs, s)
<1>1. /\ Typed(b) /\ r \in RecordType /\ Place(r) /\ Lineage(J, r)
      /\ J \in SUBSET JobType /\ IsFiniteSet(J)
    BY GoodFacts
<1>2. /\ r.state = "hbf_active" /\ r.state \in Media /\ r.group \in Group /\ r.group \in Places
      /\ r.committed \in Nat /\ r.lpddr \in Nat /\ r.version \in Nat /\ r.total \in Nat
      /\ r.committed + r.lpddr = r.total /\ r.generation \in Nat
    BY <1>1, RecordTyping DEF Place, Media
<1>3. n \in Nat /\ r.lpddr <= n /\ r.committed + n = final
    BY <1>2
<1>4. v \in Counts
    BY <1>2, <1>3, StripeType
<1>5. /\ f = Tokens(Now(J, r, "append")) /\ f \in Nat /\ f <= r.lpddr
    BY InFlightFacts
<1>7. /\ Near(b, w, s) /\ w.rec = b.rec /\ w.jobs = b.jobs /\ w.failed = b.failed
      /\ w.lpddr[Headroom(s)] = Nobody
    BY NearSelf, NearDrop
<1>8. /\ q \in RecordType /\ q.state = r.state /\ q.generation = r.generation
      /\ q.version = r.version + 1 /\ q.total = final /\ q.committed = r.committed
      /\ q.lpddr = r.lpddr /\ q.group = r.group
    BY <1>1, GrownType
<1> HIDE DEF n
<1>9. /\ p \in RecordType /\ p.state = "hbf_ready" /\ p.generation = q.generation
      /\ p.version = q.version /\ p.total = q.total /\ p.committed = q.committed
      /\ p.lpddr = n /\ p.group = q.group
    BY <1>3, <1>8, HbfReadyType
<1>10. RecordTo(y, d, s, q) /\ RecordTo(d, e, s, p)
    BY DEF RecordTo
<1>30. /\ Near(b, x, s) /\ x.rec = b.rec /\ x.jobs = b.jobs
       /\ ~x.failed => /\ ~b.failed /\ x.lpddr[Headroom(s)] = Nobody
                       /\ successor => x.lpddr[Holder(s)] = Entry(r.group, v)
  <2>1. CASE ~successor
      BY <1>7, <2>1
  <2>2. CASE successor
    <3>1. x = SetBytes(w, r.group, Holder(s), v)
        BY <2>2
    <3> HIDE DEF x, w, v, r
    <3> QED
        BY <1>2, <1>4, <1>7, <3>1, OwnerFacts, NearSet
  <2> QED
      BY <2>1, <2>2
<1> HIDE DEF x
<1>11. /\ Near(b, y, s) /\ y.failed = x.failed /\ y.rec = b.rec /\ y.jobs = b.jobs
       /\ y.lpddr = x.lpddr
    BY <1>30, NearTouch
<1>12. Typed(y)
    BY <1>11 DEF Near
<1>13. ~(Held(b, Headroom(s)) # Zero /\ Plus(Held(b, Holder(s)), Held(b, Headroom(s))) # v)
  <2> SUFFICES ASSUME Held(b, Headroom(s)) # Zero /\ Plus(Held(b, Holder(s)), Held(b, Headroom(s))) # v
               PROVE  FALSE
      OBVIOUS
  <2>1. c = Raise(b)
      BY Zenon DEF CompleteHbfTurn, n
  <2> QED
      BY <1>1, <2>1, RaiseFails
<1>14. c = IF ~successor THEN End(d, s)
           ELSE IF n - f <= 0 THEN e ELSE StartAppend(e, s, r.committed + f, n - f)
  <2> DEFINE z == [d EXCEPT !.rec[s] = [@ EXCEPT !.state = "hbf_ready", !.lpddr = n]]
  <2>1. c = IF ~successor THEN End(d, s)
            ELSE IF n - f <= 0 THEN z ELSE StartAppend(z, s, r.committed + f, n - f)
      BY <1>13, Zenon DEF CompleteHbfTurn, Renewed, x, n
  <2>2. d.rec[s] = q
      BY <1>12, Typing
  <2>3. e = z
      BY <2>2 DEF HbfReady
  <2> QED
      BY <2>1, <2>3
<1>15. Lineage(J, q) /\ Lineage(J, p) /\ Now(J, p, "append") = Now(J, r, "append")
    BY <1>1, <1>2, <1>3, <1>8, <1>9, Grows DEF Media
<1>16. Place(p)
    BY <1>2, <1>3, <1>8, <1>9 DEF Place, Media
<1>17. SameShare(r, q) /\ SameShare(q, p)
    BY <1>8, <1>9, ShareKept
<1>32. ~c.failed
    OBVIOUS
<1> HIDE DEF r, v, w, y, q, d, p, e, f, c, J
<1>19. /\ Near(b, d, s) /\ d.rec[s] = q /\ d.jobs = y.jobs /\ d.failed = y.failed
       /\ d.lpddr = y.lpddr
    BY <1>8, <1>10, <1>11, <1>15, <1>17, NearWrite DEF r, J
<1>20. /\ Near(b, e, s) /\ e.rec[s] = p /\ e.jobs = d.jobs /\ e.failed = d.failed
       /\ e.lpddr = d.lpddr
    BY <1>9, <1>10, <1>11, <1>15, <1>17, <1>19, NearWrite DEF J
<1>21. Good(e)
    BY <1>16, <1>20, NearGood
<1>22. CASE ~successor
  <2>1. c = End(d, s)
      BY <1>14, <1>22
  <2>2. /\ ~d.failed /\ Good(c) /\ Spared(b, c, s) /\ c.rec[s] = Ended(q)
        /\ c.lpddr[Holder(s)] = Nobody /\ c.lpddr[Headroom(s)] = Nobody
      BY <1>19, <1>32, <2>1, EndGood
  <2> QED
      BY <1>8, <1>11, <1>19, <1>22, <1>30, <2>2, EndedType DEF c
<1>23. CASE successor /\ n - f <= 0
    BY <1>11, <1>14, <1>19, <1>20, <1>21, <1>23, <1>30, <1>32 DEF Near, c, v, r, p, q, n
<1>24. CASE successor /\ ~(n - f <= 0)
  <2>3. Of(e.jobs, s) = J
      BY <1>11, <1>19, <1>20 DEF J
  <2>4. e.rec[s].state \in Media /\ e.rec[s] = p
      BY <1>9, <1>20 DEF Media
  <2>5. (r.committed + f) + (n - f) <= e.rec[s].committed + e.rec[s].lpddr
      BY <1>2, <1>3, <1>5, <1>8, <1>9, <2>4
  <2>6. Tokens(Now(Of(e.jobs, s), e.rec[s], "append")) + (n - f) <= e.rec[s].lpddr
      BY <1>3, <1>5, <1>9, <1>15, <2>3, <2>4
  <2>7. \A j \in Of(e.jobs, s) : j.version < e.rec[s].version
      BY <1>1, <1>2, <1>8, <1>9, <2>3, <2>4, JobTyping DEF Lineage, Aged
  <2> DEFINE st == r.committed + f
             ct == n - f
  <2>9. /\ st \in Nat /\ ct \in Nat \ {0} /\ c = StartAppend(e, s, st, ct)
        /\ st + ct <= e.rec[s].committed + e.rec[s].lpddr
        /\ Tokens(Now(Of(e.jobs, s), e.rec[s], "append")) + ct <= e.rec[s].lpddr
      BY <1>2, <1>3, <1>5, <1>14, <1>24, <2>5, <2>6
  <2> HIDE DEF st, ct
  <2>8. /\ ~e.failed /\ Good(c) /\ Spared(e, c, s) /\ c.rec[s] = e.rec[s]
        /\ c.lpddr[Holder(s)] = e.lpddr[Holder(s)] /\ c.lpddr[Headroom(s)] = e.lpddr[Headroom(s)]
      BY <1>21, <1>32, <2>4, <2>7, <2>9, StartAppendGood
  <2>10. Spared(b, c, s)
      BY <1>1, <1>20, <2>8, SparedTwice, Typing DEF Near
  <2>11. ~x.failed /\ e.lpddr = x.lpddr
      BY <1>11, <1>19, <1>20, <2>8
  <2> QED
      BY <1>24, <1>30, <2>4, <2>8, <2>10, <2>11 DEF c, v, r, p, q, n
<1> QED
    BY <1>22, <1>23, <1>24


LEMMA LesserFacts ==
    ASSUME NEW x \in Int, NEW y \in Int
    PROVE  /\ Min({x, y}) \in {x, y} /\ Min({x, y}) <= x /\ Min({x, y}) <= y
           /\ Max({x, y}) \in {x, y} /\ Max({x, y}) >= x /\ Max({x, y}) >= y
<1> QED
    BY DEF Min, Max

\* start_active_prefill_drain
LEMMA DrainGood ==
    ASSUME setup \in Setups, NEW b, Good(b), NEW s \in Session, b.rec[s].state = "hbf_active",
           NEW total \in Nat, b.rec[s].total <= total, setup.tail >= 0, ~Drain(b, s, total).failed
    PROVE  LET c == Drain(b, s, total)
               r == b.rec[s]
               n == r.lpddr + total - r.total IN
           /\ ~b.failed /\ Good(c) /\ Spared(b, c, s) /\ c.rec[s] = Adopted(r, total, n)
           /\ Held(b, Holder(s)) = Stripe(r.committed, n)
           /\ c.lpddr[Holder(s)] = b.lpddr[Holder(s)] /\ c.lpddr[Headroom(s)] = b.lpddr[Headroom(s)]
<1> DEFINE r == b.rec[s]
           n == r.lpddr + total - r.total
           y == Touch(b, s)
           q == Adopted(r, total, n)
           d == [y EXCEPT !.rec[s] = q]
           m == n - Min({setup.tail, n})
           c == Drain(b, s, total)
           J == Of(b.jobs, s)
<1>1. /\ Typed(b) /\ r \in RecordType /\ Place(r) /\ Lineage(J, r)
      /\ J \in SUBSET JobType /\ IsFiniteSet(J)
    BY GoodFacts
<1>2. /\ r.state = "hbf_active" /\ r.state \in Media /\ r.group \in Group
      /\ r.committed \in Nat /\ r.lpddr \in Nat /\ r.version \in Nat /\ r.total \in Nat
      /\ r.committed + r.lpddr = r.total /\ r.generation \in Nat
    BY <1>1, RecordTyping DEF Place, Media
<1>3. n \in Nat /\ r.lpddr <= n /\ r.committed + n = total
    BY <1>2
<1>4. m \in Nat /\ m <= n
  <2> HIDE DEF n
  <2>1. setup.tail \in Int /\ setup.tail >= 0 /\ n \in Int /\ n >= 0
      BY <1>3, SetupFacts
  <2>2. Min({setup.tail, n}) \in {setup.tail, n} /\ Min({setup.tail, n}) <= n
      BY <2>1, LesserFacts
  <2> QED
      BY <2>1, <2>2
<1> HIDE DEF n
<1>19. r \in RecordType /\ n \in Nat
    BY <1>1, <1>3
<1>5. /\ q \in RecordType /\ q.state = r.state /\ q.generation = r.generation
      /\ q.version = r.version + 1 /\ q.total = total /\ q.committed = r.committed
      /\ q.lpddr = n /\ q.group = r.group
  <2> HIDE DEF r
  <2>1. LET x == Adopted(r, total, n) IN
        /\ x \in RecordType /\ x.state = r.state /\ x.generation = r.generation
        /\ x.version = r.version + 1 /\ x.total = total /\ x.committed = r.committed
        /\ x.lpddr = n /\ x.group = r.group
      BY <1>19, AdoptedType, Zenon
  <2> QED
      BY <2>1
<1> HIDE DEF m
<1>6. RecordTo(y, d, s, q)
    BY DEF RecordTo
<1>7. Held(b, Holder(s)) = Stripe(r.committed, n)
  <2> SUFFICES ASSUME Held(b, Holder(s)) # Stripe(r.committed, n) PROVE FALSE
      OBVIOUS
  <2>1. c = Raise(b)
      BY Zenon DEF Drain, n
  <2> QED
      BY <1>1, <2>1, RaiseFails
<1>8. c = IF JobsOf(b, s, "append") # {} \/ m = 0 THEN d ELSE StartAppend(d, s, r.committed, m)
    BY <1>7, Zenon DEF Drain, Adopted, n, m
<1>9. Lineage(J, q) /\ Now(J, q, "append") = Now(J, r, "append")
    BY <1>1, <1>2, <1>3, <1>5, Grows
<1>10. Place(q)
    BY <1>2, <1>3, <1>5 DEF Place
<1>11. SameShare(r, q)
    BY <1>5, ShareKept
<1>12. \A j \in J : j.version < q.version
    BY <1>1, <1>2, <1>5, JobTyping DEF Lineage, Aged
<1>13. ~c.failed
    OBVIOUS
<1>14. /\ Near(b, y, s) /\ y.failed = b.failed /\ y.rec = b.rec /\ y.jobs = b.jobs
       /\ y.lpddr = b.lpddr
    BY NearSelf, NearTouch
<1> HIDE DEF r, y, q, d, c, J
<1>15. /\ Near(b, d, s) /\ d.rec[s] = q /\ d.jobs = b.jobs /\ d.failed = b.failed
       /\ d.lpddr = b.lpddr
    BY <1>5, <1>6, <1>9, <1>11, <1>14, NearWrite DEF r, J
<1>16. Good(d)
    BY <1>10, <1>15, NearGood
<1>17. CASE JobsOf(b, s, "append") # {} \/ m = 0
    BY <1>7, <1>8, <1>13, <1>15, <1>16, <1>17 DEF Near, c, q, r, n
<1>18. CASE ~(JobsOf(b, s, "append") # {} \/ m = 0)
  <2>1. c = StartAppend(d, s, r.committed, m) /\ m \in Nat \ {0}
      BY <1>4, <1>8, <1>18
  <2>2. d.rec[s] = q /\ q.state \in Media /\ Of(d.jobs, s) = J
      BY <1>2, <1>5, <1>15 DEF J
  <2>3. r.committed + m <= q.committed + q.lpddr
      BY <1>2, <1>3, <1>4, <1>5
  <2>4. Now(J, q, "append") = {}
      BY <1>18 DEF JobsOf, J, Of, Now
  <2>5. Tokens(Now(J, q, "append")) + m <= q.lpddr
    <3>1. Tokens({}) = 0
        BY SumEmpty DEF Tokens
    <3> QED
        BY <1>3, <1>4, <1>5, <2>4, <3>1
  <2>6. /\ ~d.failed /\ Good(c) /\ Spared(d, c, s) /\ c.rec[s] = d.rec[s]
        /\ c.lpddr[Holder(s)] = d.lpddr[Holder(s)] /\ c.lpddr[Headroom(s)] = d.lpddr[Headroom(s)]
      BY <1>2, <1>12, <1>13, <1>16, <2>1, <2>2, <2>3, <2>5, StartAppendGood
  <2> QED
      BY <1>1, <1>7, <1>15, <2>2, <2>6, SparedTwice, Typing DEF c, q, r, n, Near
<1> QED
    BY <1>17, <1>18


\* _trim_hbf_lineage
TrimmedTo(b, c, s, reuse) ==
  LET r == b.rec[s]
      t == c.rec[s]
  IN  /\ t.state = r.state /\ t.group = r.group /\ t.total = reuse
      /\ c.lpddr[Headroom(s)] = b.lpddr[Headroom(s)]
      /\ \/ t.committed = r.committed /\ t.lpddr = r.lpddr /\ c.lpddr[Holder(s)] = b.lpddr[Holder(s)]
         \/ c.lpddr[Holder(s)] = Entry(t.group, Stripe(t.committed, t.lpddr))
LEMMA TrimGood ==
    ASSUME setup \in Setups, NEW b, Good(b), NEW s \in Session, b.rec[s].state = "hbf_ready",
           NEW reuse \in Nat, reuse <= b.rec[s].total
    PROVE  LET c == TrimHbf(b, s, reuse) IN
           /\ Typed(c) /\ c.rec[s].group \in Group
           /\ ~c.failed => ~b.failed /\ Good(c) /\ Spared(b, c, s) /\ TrimmedTo(b, c, s, reuse)
<1> DEFINE r == b.rec[s]
           k == Min({reuse, r.committed})
           q == Trimmed(r, reuse, k)
           v == Minus(Committed(r), Stripe(0, k))
           w == Stripe(k, reuse - k)
           d == Free(b, r.group, v)
           x == SetBytes(d, r.group, Holder(s), w)
           c == TrimHbf(b, s, reuse)
           J == Of(b.jobs, s)
<1>1. /\ Typed(b) /\ r \in RecordType /\ Place(r) /\ Lineage(J, r)
      /\ J \in SUBSET JobType /\ IsFiniteSet(J)
    BY GoodFacts
<1>2. /\ r.state = "hbf_ready" /\ r.state \in Media /\ r.group \in Group /\ r.group \in Places
      /\ r.committed \in Nat /\ r.lpddr \in Nat /\ r.version \in Nat /\ r.total \in Nat
      /\ r.committed + r.lpddr = r.total /\ r.generation \in Nat
    BY <1>1, RecordTyping DEF Place, Media, Places
<1>3. Holder(s) \in Owner /\ Headroom(s) \in Owner \ {Holder(s)}
      /\ \A t \in Session \ {s} : Holder(t) \in Owner \ {Holder(s)}
                                  /\ Headroom(t) \in Owner \ {Holder(s)}
    BY OwnerFacts
<1>4. CASE reuse = r.committed + r.lpddr
    BY <1>1, <1>2, <1>4, NearSelf DEF TrimHbf, Near, TrimmedTo
<1>5. CASE reuse # r.committed + r.lpddr
  <2>1. k \in Nat /\ k <= reuse /\ k <= r.committed /\ reuse - k \in Nat
    <3>1. reuse \in Int /\ r.committed \in Int
        BY <1>2
    <3>2. k \in {reuse, r.committed} /\ k <= reuse /\ k <= r.committed
        BY <3>1, LesserFacts
    <3> QED
        BY <1>2, <3>2
  <2>2. c = [x EXCEPT !.rec[s] = q]
      BY <1>5, Zenon DEF TrimHbf, Trimmed
  <2> HIDE DEF k
  <2>3. /\ Committed(r) \in Counts /\ Stripe(0, k) \in Counts /\ w \in Counts
      BY <1>2, <2>1, StripeType DEF Committed
  <2>4. \A i \in Card : Stripe(0, k)[i] <= Committed(r)[i]
      BY <1>2, <2>1, StripeWithin DEF Committed
  <2>5. v \in Counts /\ \A i \in Card : v[i] = Committed(r)[i] - Stripe(0, k)[i]
      BY <2>3, <2>4, PlusMinus DEF Within
  <2>6. /\ q \in RecordType /\ q.state = r.state /\ q.generation = r.generation + 1
        /\ q.version = r.version + 1 /\ q.total = reuse /\ q.committed = k
        /\ q.lpddr = reuse - k /\ q.group = r.group
    <3>1. r \in RecordType
        BY <1>1
    <3> HIDE DEF r
    <3> QED
        BY <2>1, <3>1, TrimmedType
  <2>7. RecordTo(x, c, s, q)
      BY <2>2 DEF RecordTo
  <2> HIDE DEF r, v, w, q, c
  <2>8. Typed(d)
      BY <1>1, <1>2, <2>5, FreeTyped
  <2> HIDE DEF d
  <2>9. /\ Typed(x) /\ x.rec = d.rec /\ x.jobs = d.jobs
        /\ x.reserved = d.reserved /\ \A o \in Owner \ {Holder(s)} : x.lpddr[o] = d.lpddr[o]
        /\ ~x.failed => ~d.failed /\ x.lpddr[Holder(s)] = Entry(r.group, w)
      BY <1>2, <1>3, <2>3, <2>8, SetKeeps
  <2> HIDE DEF x
  <2>10. Wrote(x, c, s, q, x.jobs)
      BY <2>6, <2>7, <2>9, RecordSet
  <2>11. /\ Typed(c) /\ c.failed = x.failed /\ c.rec[s] = q
         /\ \A t \in Session \ {s} : c.rec[t] = x.rec[t]
         /\ c.jobs = x.jobs /\ c.reserved = x.reserved /\ c.lpddr = x.lpddr
      BY <2>10 DEF Wrote
  <2>12. ASSUME ~c.failed
         PROVE  ~b.failed /\ Good(c) /\ Spared(b, c, s) /\ TrimmedTo(b, c, s, reuse)
    <3>1. ~x.failed /\ ~d.failed
        BY <2>9, <2>11, <2>12
    <3>2. /\ ~b.failed
          /\ d.rec = b.rec /\ d.jobs = b.jobs /\ d.lpddr = b.lpddr
          /\ \A h \in Group, i \in Card :
               d.reserved[h][i] = b.reserved[h][i] - (IF h = r.group THEN v[i] ELSE 0)
        BY <1>1, <1>2, <2>5, <3>1, FreeFacts DEF d
    <3>3. Shifts(b, c, s)
      <4>1. \A h \in Group, i \in Card :
              /\ Share(r, h, i) = (IF h = r.group THEN Committed(r)[i] ELSE 0)
              /\ Share(q, h, i) = (IF h = r.group THEN Stripe(0, k)[i] ELSE 0)
          BY <2>6 DEF Share, Committed
      <4>2. \A h \in Group, i \in Card :
              /\ b.reserved[h][i] \in Nat /\ Committed(r)[i] \in Nat /\ Stripe(0, k)[i] \in Nat
          BY <1>1, <2>3, Typing DEF Counts
      <4>3. \A h \in Group, i \in Card :
              c.reserved[h][i] = b.reserved[h][i] - (IF h = r.group THEN v[i] ELSE 0)
          BY <2>9, <2>11, <3>2
      <4>4. \A h \in Group, i \in Card :
              /\ c.reserved[h][i] = b.reserved[h][i] - Share(r, h, i) + Share(q, h, i)
              /\ Share(q, h, i) <= Share(r, h, i)
        <5> SUFFICES ASSUME NEW h \in Group, NEW i \in Card
                     PROVE  /\ c.reserved[h][i] = b.reserved[h][i] - Share(r, h, i) + Share(q, h, i)
                            /\ Share(q, h, i) <= Share(r, h, i)
            OBVIOUS
        <5>1. CASE h = r.group
            BY <2>4, <2>5, <4>1, <4>2, <4>3, <5>1
        <5>2. CASE h # r.group
            BY <4>1, <4>2, <4>3, <5>2
        <5> QED
            BY <5>1, <5>2
      <4> QED
          BY <2>9, <2>11, <3>2, <4>4 DEF Shifts, r
    <3>4. Lineage(J, q)
      <4>1. r.version <= q.version /\ r.generation < q.generation /\ q.state # "migrating"
          BY <1>2, <2>6
      <4> QED
          BY <1>1, <2>6, <4>1, Quiet DEF J
    <3>5. \A t \in Session \ {s} : /\ c.lpddr[Holder(t)] = b.lpddr[Holder(t)]
                                   /\ c.lpddr[Headroom(t)] = b.lpddr[Headroom(t)]
        BY <1>3, <2>9, <2>11, <3>2
    <3>6. Near(b, c, s)
        BY <2>11, <3>3, <3>4, <3>5, NearSelf, NearStep
    <3>7. Place(q)
        BY <1>2, <2>1, <2>6 DEF Place
    <3>9. c.lpddr[Headroom(s)] = b.lpddr[Headroom(s)] /\ c.lpddr[Holder(s)] = Entry(r.group, w)
        BY <1>3, <2>9, <2>11, <3>1, <3>2
    <3> QED
        BY <2>6, <2>11, <3>2, <3>6, <3>7, <3>9, NearGood DEF TrimmedTo, r, w, Near
  <2> QED
      BY <1>2, <2>6, <2>11, <2>12 DEF c
<1> QED
    BY <1>4, <1>5


\* _route_hbf_lpddr_fallback
LEMMA AbandonGood ==
    ASSUME setup \in Setups, NEW b, Typed(b), NEW s \in Session, b.rec[s].group \in Group,
           ~Abandon(b, s).failed
    PROVE  LET c == Abandon(b, s) IN
           /\ ~b.failed
           /\ Good(b) => /\ Good(c) /\ Spared(b, c, s) /\ c.rec[s] = Abandoned(b.rec[s])
                         /\ c.lpddr[Holder(s)] = Nobody /\ c.lpddr[Headroom(s)] = Nobody
<1> DEFINE r == b.rec[s]
           q == Abandoned(r)
           x == Free(b, r.group, Committed(r))
           y == Drop(x, Holder(s))
           z == Drop(y, Headroom(s))
           c == Abandon(b, s)
<1>1. r \in RecordType /\ r.group \in Group /\ Committed(r) \in Counts
    BY Typing, CardFacts, ShareType
<1>2. Holder(s) \in Owner /\ Headroom(s) \in Owner /\ Holder(s) # Headroom(s)
      /\ \A t \in Session \ {s} : Holder(t) \in Owner \ {Holder(s), Headroom(s)}
                                  /\ Headroom(t) \in Owner \ {Holder(s), Headroom(s)}
    BY OwnerFacts
<1>3. RecordTo(z, c, s, q)
    BY DEF Abandon, RecordTo, Abandoned
<1>4. /\ q \in RecordType /\ q.state = "gpu_active" /\ q.generation = r.generation + 1
      /\ q.version = r.version + 1 /\ q.total = r.total /\ q.committed = 0 /\ q.lpddr = 0
      /\ q.group = NoGroup
    BY <1>1, AbandonedType
<1>5. ~c.failed
    OBVIOUS
<1> HIDE DEF r, q, c
<1>6. Typed(x)
    BY <1>1, FreeTyped
<1> HIDE DEF x
<1>7. /\ Typed(y) /\ y.failed = x.failed /\ y.rec = x.rec /\ y.jobs = x.jobs
      /\ y.reserved = x.reserved /\ y.lpddr = [x.lpddr EXCEPT ![Holder(s)] = Nobody]
    BY <1>2, <1>6, DropFacts
<1> HIDE DEF y
<1>8. /\ Typed(z) /\ z.failed = y.failed /\ z.rec = y.rec /\ z.jobs = y.jobs
      /\ z.reserved = y.reserved /\ z.lpddr = [y.lpddr EXCEPT ![Headroom(s)] = Nobody]
    BY <1>2, <1>7, DropFacts
<1> HIDE DEF z
<1>9. Wrote(z, c, s, q, z.jobs)
    BY <1>3, <1>4, <1>8, RecordSet
<1>10. /\ Typed(c) /\ c.failed = z.failed /\ c.rec[s] = q
       /\ \A t \in Session \ {s} : c.rec[t] = z.rec[t]
       /\ c.jobs = z.jobs /\ c.reserved = z.reserved /\ c.lpddr = z.lpddr
    BY <1>9 DEF Wrote
<1>11. /\ ~b.failed /\ x.rec = b.rec /\ x.jobs = b.jobs /\ x.lpddr = b.lpddr
       /\ \A h \in Group, i \in Card :
            x.reserved[h][i] = b.reserved[h][i] - (IF h = r.group THEN Committed(r)[i] ELSE 0)
  <2>1. ~x.failed
      BY <1>5, <1>7, <1>8, <1>10
  <2> QED
      BY <1>1, <2>1, FreeFacts DEF x
<1>12. /\ c.lpddr[Holder(s)] = Nobody /\ c.lpddr[Headroom(s)] = Nobody
       /\ \A o \in Owner \ {Holder(s), Headroom(s)} : c.lpddr[o] = b.lpddr[o]
    BY <1>2, <1>6, <1>7, <1>8, <1>10, <1>11, Typing
<1>13. ASSUME Good(b) PROVE Good(c) /\ Spared(b, c, s)
  <2>2. Shifts(b, c, s)
    <3>2. \A h \in Group, i \in Card : Share(r, h, i) \in Nat /\ b.reserved[h][i] \in Nat
        BY <1>1, Typing, ShareType DEF Counts
    <3>3. \A h \in Group, i \in Card : c.reserved[h][i] = b.reserved[h][i] - Share(r, h, i)
        BY <1>7, <1>8, <1>10, <1>11 DEF Share
    <3>4. c.jobs = b.jobs /\ \A t \in Session \ {s} : c.rec[t] = b.rec[t]
        BY <1>7, <1>8, <1>10, <1>11
    <3> QED
        BY <1>4, <1>10, <3>2, <3>3, <3>4, NoShare DEF Shifts, r
  <2>3. Lineage(Of(b.jobs, s), q)
    <3>2. r.version <= q.version /\ r.generation < q.generation /\ q.state # "migrating"
        BY <1>1, <1>4, RecordTyping
    <3> QED
        BY <1>1, <1>4, <1>13, <3>2, Quiet, GoodFacts DEF r
  <2>4. \A t \in Session \ {s} : /\ c.lpddr[Holder(t)] = b.lpddr[Holder(t)]
                                 /\ c.lpddr[Headroom(t)] = b.lpddr[Headroom(t)]
      BY <1>2, <1>12
  <2>5. Near(b, c, s)
      BY <1>10, <1>13, <2>2, <2>3, <2>4, NearSelf, NearStep
  <2>6. Place(q)
      BY <1>4, SetupFacts DEF Place, Media
  <2> QED
      BY <1>10, <1>13, <2>5, <2>6, NearGood DEF Near
<1> QED
    BY <1>10, <1>11, <1>12, <1>13 DEF c, q, r

\* _route_hbf: the call takes the context it can reuse, or gives it up.
Taken(b, c, s, reuse, growth) ==
  LET r == b.rec[s]
      q == c.rec[s]
  IN  /\ q.state = "hbf_active" /\ q.group = r.group /\ q.group \in Group /\ q.total = reuse
      /\ c.lpddr[Headroom(s)] = Entry(q.group, Stripe(reuse, growth))
      /\ \/ q.committed = r.committed /\ q.lpddr = r.lpddr /\ c.lpddr[Holder(s)] = b.lpddr[Holder(s)]
         \/ c.lpddr[Holder(s)] = Entry(q.group, Stripe(q.committed, q.lpddr))
GivenUp(c, s, reuse) ==
  /\ c.rec[s].state = "gpu_active" /\ c.rec[s].total = reuse
  /\ c.lpddr[Holder(s)] = Nobody /\ c.lpddr[Headroom(s)] = Nobody
LEMMA RouteHbfGood ==
    ASSUME setup \in Setups, NEW b, Good(b), NEW s \in Session, b.rec[s].state = "hbf_ready",
           NEW reuse \in Nat, reuse <= b.rec[s].total, NEW growth \in Nat,
           ~RouteHbf(b, s, reuse, growth).failed
    PROVE  LET c == RouteHbf(b, s, reuse, growth) IN
           /\ ~b.failed /\ Good(c) /\ Spared(b, c, s)
           /\ Taken(b, c, s, reuse, growth) \/ GivenUp(c, s, reuse)
<1> DEFINE d == TrimHbf(b, s, reuse)
           g == d.rec[s].group
           v == Stripe(reuse, growth)
           x == SetBytes(d, g, Headroom(s), v)
           q == InState(d.rec[s], "hbf_active")
           c == RouteHbf(b, s, reuse, growth)
<1>1. /\ Typed(d) /\ g \in Group
      /\ ~d.failed => ~b.failed /\ Good(d) /\ Spared(b, d, s) /\ TrimmedTo(b, d, s, reuse)
    BY TrimGood
<1>2. v \in Counts /\ g \in Places
    BY <1>1, StripeType DEF Places
<1>3. ~c.failed /\ Typed(b)
    BY DEF Good
<1>4. c = IF ~CanSet(d, g, Headroom(s), v) THEN Abandon(d, s) ELSE [x EXCEPT !.rec[s].state = "hbf_active"]
    BY DEF RouteHbf
<1> HIDE DEF d, v, c
<1>5. CASE ~CanSet(d, g, Headroom(s), v)
    BY <1>1, <1>3, <1>4, <1>5, AbandonGood, Typing, AbandonedType, SparedTwice DEF TrimmedTo,
       GivenUp, c
<1>6. CASE CanSet(d, g, Headroom(s), v)
  <2>1. Holder(s) \in Owner /\ Headroom(s) \in Owner /\ Holder(s) # Headroom(s)
      BY OwnerFacts
  <2>2. /\ Typed(x) /\ x.rec = d.rec /\ x.jobs = d.jobs /\ x.reserved = d.reserved
        /\ \A o \in Owner \ {Headroom(s)} : x.lpddr[o] = d.lpddr[o]
        /\ ~x.failed => ~d.failed /\ x.lpddr[Headroom(s)] = Entry(g, v)
      BY <1>1, <1>2, <2>1, SetKeeps
  <2>3. RecordTo(x, c, s, q)
    <3>2. [x EXCEPT !.rec[s].state = "hbf_active"] = [x EXCEPT !.rec[s] = [x.rec[s] EXCEPT !.state = "hbf_active"]]
      <4> HIDE DEF x
      <4> QED
          BY <2>2, Typing
    <3> QED
        BY <1>4, <1>6, <2>2, <3>2 DEF RecordTo, InState
  <2>4. d.rec[s] \in RecordType /\ "hbf_active" \in States
      BY <1>1, Typing DEF States
  <2>5. /\ q \in RecordType /\ q.state = "hbf_active" /\ q.generation = d.rec[s].generation
        /\ q.version = d.rec[s].version /\ q.total = d.rec[s].total /\ q.group = g
        /\ q.committed = d.rec[s].committed /\ q.lpddr = d.rec[s].lpddr
      BY <2>4, StateType
  <2> HIDE DEF q, x
  <2>6. Wrote(x, c, s, q, x.jobs)
      BY <2>2, <2>3, <2>5, RecordSet
  <2>7. c.failed = x.failed /\ c.lpddr = x.lpddr /\ c.rec[s] = q
      BY <2>6 DEF Wrote
  <2>8. ~x.failed /\ ~d.failed
      BY <1>3, <2>2, <2>7
  <2>9. Good(d) /\ Spared(b, d, s) /\ TrimmedTo(b, d, s, reuse) /\ ~b.failed
      BY <1>1, <2>8
  <2>10. Near(b, d, s)
      BY <2>9, GoodFacts DEF Near
  <2>11. Near(b, x, s)
      BY <1>2, <2>10, NearSet DEF x
  <2>12. Lineage(Of(d.jobs, s), d.rec[s]) /\ Place(d.rec[s]) /\ d.rec[s].state = "hbf_ready"
         /\ Of(d.jobs, s) \in SUBSET JobType /\ IsFiniteSet(Of(d.jobs, s))
      BY <2>9, GoodFacts DEF TrimmedTo
  <2>13. Lineage(Of(d.jobs, s), q)
      BY <2>4, <2>5, <2>12, RecordTyping, Grows DEF Media
  <2>14. Near(b, c, s)
      BY <2>2, <2>3, <2>5, <2>11, <2>13, ShareKept, NearWrite
  <2>15. Place(q)
      BY <2>5, <2>12 DEF Place, Media
  <2>17. Taken(b, c, s, reuse, growth)
      BY <1>1, <2>1, <2>2, <2>5, <2>7, <2>8, <2>9 DEF Taken, TrimmedTo, v
  <2> QED
      BY <2>7, <2>9, <2>14, <2>15, <2>17, NearGood DEF c, Near
<1> QED
    BY <1>5, <1>6


\* A handler that writes the record of s and nothing else of the books.
LEMMA WriteGood ==
    ASSUME setup \in Setups, NEW b, Good(b), NEW s \in Session, NEW d, Near(b, d, s), NEW c,
           NEW q \in RecordType, Lineage(Of(d.jobs, s), q), SameShare(d.rec[s], q), Place(q),
           RecordTo(d, c, s, q)
    PROVE  /\ Good(c) /\ Spared(b, c, s) /\ c.rec[s] = q /\ c.jobs = d.jobs
           /\ c.failed = d.failed /\ c.lpddr = d.lpddr /\ c.reserved = d.reserved
<1> QED
    BY NearGood, NearWrite DEF Near

\* _route_gpu
LEMMA RouteGpuGood ==
    ASSUME setup \in Setups, NEW b, Good(b), NEW s \in Session, b.rec[s].state \notin Media,
           NEW reuse \in Nat
    PROVE  LET c == RouteGpu(b, s, reuse) IN
           /\ Good(c) /\ Spared(b, c, s) /\ c.failed = b.failed /\ c.lpddr = b.lpddr
           /\ c.rec[s].state = "gpu_active" /\ c.rec[s].total = reuse
<1> DEFINE r == b.rec[s]
           v == IF reuse # r.total THEN 1 ELSE 0
           k == IF Overtakes(r, reuse) THEN 1 ELSE 0
           q == GpuActive(r, reuse, v, k)
           c == RouteGpu(b, s, reuse)
           J == Of(b.jobs, s)
<1>1. /\ Typed(b) /\ r \in RecordType /\ Place(r) /\ Lineage(J, r)
      /\ J \in SUBSET JobType /\ IsFiniteSet(J)
    BY GoodFacts
<1>2. RecordTo(b, c, s, q)
    BY DEF RouteGpu, RecordTo, GpuActive
<1>3. v \in Nat /\ k \in Nat /\ (r.state = "migrating" => k = 1)
    BY DEF Overtakes
<1>4. r.committed = 0 /\ r.version \in Nat /\ r.generation \in Nat /\ r.state \notin Media
    BY <1>1, RecordTyping DEF Place
<1> HIDE DEF r, v, k, c, J
<1>5. /\ q \in RecordType /\ q.state = "gpu_active" /\ q.generation = r.generation + k
      /\ q.version = r.version + v /\ q.total = reuse /\ q.committed = r.committed
      /\ q.lpddr = r.lpddr /\ q.group = NoGroup
  <2>0. r \in RecordType /\ v \in Nat /\ k \in Nat
      BY <1>1, <1>3
  <2>1. LET x == GpuActive(r, reuse, v, k) IN
        /\ x \in RecordType /\ x.state = "gpu_active" /\ x.generation = r.generation + k
        /\ x.version = r.version + v /\ x.total = reuse /\ x.committed = r.committed
        /\ x.lpddr = r.lpddr /\ x.group = NoGroup
      BY <2>0, GpuActiveType, SMTT(40)
  <2> QED
      BY <2>1
<1> HIDE DEF q
<1>6. Lineage(J, q)
  <2>1. r.version <= q.version /\ q.state # "migrating" /\ r.generation <= q.generation
      BY <1>3, <1>4, <1>5
  <2>2. r.state = "migrating" => r.generation < q.generation
      BY <1>3, <1>4, <1>5
  <2>3. \/ r.generation < q.generation
        \/ r.generation = q.generation /\ r.state \notin Media \cup {"migrating"}
      BY <1>3, <1>4, <1>5, <2>1, <2>2
  <2> QED
      BY <1>1, <1>5, <2>1, <2>3, Quiet
<1>7. SameShare(r, q)
    BY <1>4, <1>5, ShareKept
<1>8. Place(q)
    BY <1>1, <1>4, <1>5, SetupFacts DEF Place, Media
<1>9. /\ Good(c) /\ Spared(b, c, s) /\ c.rec[s] = q /\ c.failed = b.failed /\ c.lpddr = b.lpddr
  <2>1. Near(b, b, s)
      BY NearSelf
  <2> QED
      BY <1>2, <1>5, <1>6, <1>7, <1>8, <2>1, WriteGood DEF r, J
<1> QED
    BY <1>5, <1>9 DEF c

\* The host drops a copy on the GPUs.
LEMMA DropGood ==
    ASSUME setup \in Setups, NEW b, Good(b), NEW s \in Session,
           b.rec[s].state \notin Media \cup {"migrating"}, NEW c, RecordTo(b, c, s, Dropped(b.rec[s]))
    PROVE  /\ Good(c) /\ Spared(b, c, s) /\ c.failed = b.failed /\ c.lpddr = b.lpddr
           /\ c.rec[s].state = "evicted" /\ c.rec[s].version = b.rec[s].version
<1> DEFINE r == b.rec[s]
           q == Dropped(r)
           J == Of(b.jobs, s)
<1>1. /\ Typed(b) /\ r \in RecordType /\ Place(r) /\ Lineage(J, r)
      /\ J \in SUBSET JobType /\ IsFiniteSet(J)
    BY GoodFacts
<1>2. r.committed = 0 /\ r.lpddr = 0 /\ r.version \in Nat /\ r.generation \in Nat /\ r.group \notin Group
    BY <1>1, RecordTyping DEF Place
<1>3. /\ q \in RecordType /\ q.state = "evicted" /\ q.generation = r.generation + 1
      /\ q.version = r.version /\ q.total = r.total /\ q.committed = r.committed
      /\ q.lpddr = r.lpddr /\ q.group = r.group
    BY <1>1, DroppedType
<1> HIDE DEF q
<1>4. Lineage(J, q)
    BY <1>1, <1>2, <1>3, Quiet
<1>5. SameShare(r, q)
    BY <1>3, ShareKept
<1>6. Place(q)
    BY <1>2, <1>3 DEF Place, Media
<1> HIDE DEF r, J
<1> QED
    BY <1>3, <1>4, <1>5, <1>6, WriteGood, NearSelf DEF r, J, q

\* publish_ssd_checkpoint, with nothing of the session in flight or not
Checkpointed(b, s) == [Touch(b, s) EXCEPT !.rec[s].state = "ssd_ready"]
LEMMA CheckpointGood ==
    ASSUME setup \in Setups, NEW b, Good(b), NEW s \in Session, b.rec[s].state = "gpu_ready"
    PROVE  LET c == Checkpointed(b, s) IN
           /\ Good(c) /\ Spared(b, c, s) /\ c.failed = b.failed /\ c.lpddr = b.lpddr
           /\ c.rec[s].state = "ssd_ready" /\ c.rec[s].version = b.rec[s].version
           /\ c.rec[s].total = b.rec[s].total
<1> DEFINE r == b.rec[s]
           q == InState(r, "ssd_ready")
           J == Of(b.jobs, s)
           d == Touch(b, s)
           c == Checkpointed(b, s)
<1>1. /\ Typed(b) /\ r \in RecordType /\ Place(r) /\ Lineage(J, r)
      /\ J \in SUBSET JobType /\ IsFiniteSet(J)
    BY GoodFacts
<1>2. /\ Near(b, d, s) /\ d.failed = b.failed /\ d.rec = b.rec /\ d.jobs = b.jobs
      /\ d.lpddr = b.lpddr /\ d.reserved = b.reserved
    BY NearSelf, NearTouch
<1>3. RecordTo(d, c, s, q)
  <2>1. Typed(d)
      BY <1>2 DEF Near
  <2> HIDE DEF d
  <2>2. c = [d EXCEPT !.rec[s] = [d.rec[s] EXCEPT !.state = "ssd_ready"]]
      BY <2>1, Typing DEF d, Checkpointed
  <2> HIDE DEF c
  <2> QED
      BY <1>2, <2>2 DEF RecordTo, InState
<1> HIDE DEF d, c
<1>4. r.state = "gpu_ready" /\ "ssd_ready" \in States /\ r.version \in Nat
    BY <1>1, RecordTyping DEF States
<1>5. /\ q \in RecordType /\ q.state = "ssd_ready" /\ q.generation = r.generation
      /\ q.version = r.version /\ q.total = r.total /\ q.committed = r.committed
      /\ q.lpddr = r.lpddr /\ q.group = r.group
    BY <1>1, <1>4, StateType
<1> HIDE DEF q
<1>6. Lineage(J, q)
    BY <1>1, <1>4, <1>5, Quiet DEF Media
<1>7. SameShare(r, q)
    BY <1>5, ShareKept
<1>8. Place(q)
    BY <1>1, <1>4, <1>5 DEF Place, Media
<1> HIDE DEF r, J
<1> QED
    BY <1>2, <1>3, <1>5, <1>6, <1>7, <1>8, WriteGood DEF r, c, J

\* What a live request holds is set to its placement.
LEMMA SubmitGood ==
    ASSUME setup \in Setups, NEW b, Good(b), NEW s \in Session, ~Submit(b, s).failed
    PROVE  LET c == Submit(b, s)
               r == b.rec[s] IN
           /\ ~b.failed /\ Good(c) /\ Spared(b, c, s) /\ c.rec = b.rec
           /\ \A x \in Owner \ {Holder(s)} : c.lpddr[x] = b.lpddr[x]
           /\ c.lpddr[Holder(s)] = Entry(r.group, Stripe(r.committed, r.lpddr))
<1> DEFINE r == b.rec[s]
           v == Stripe(r.committed, r.lpddr)
           c == SetBytes(b, r.group, Holder(s), v)
<1>1. r \in RecordType /\ Place(r) /\ Near(b, b, s)
    BY GoodFacts, NearSelf
<1>2. r.group \in Places /\ r.committed \in Nat /\ r.lpddr \in Nat
    BY <1>1, RecordTyping
<1>3. v \in Counts
    BY <1>2, StripeType
<1>4. c = Submit(b, s)
    BY DEF Submit
<1> HIDE DEF v, r
<1>6. /\ Near(b, c, s) /\ c.rec = b.rec /\ c.jobs = b.jobs
      /\ \A x \in Owner \ {Holder(s)} : c.lpddr[x] = b.lpddr[x]
      /\ ~c.failed => ~b.failed /\ c.lpddr[Holder(s)] = Entry(r.group, v)
    BY <1>1, <1>2, <1>3, NearSet
<1> HIDE DEF c
<1> QED
    BY <1>1, <1>4, <1>6, NearGood DEF v, r, Near


-----------------------------------------------------------------------------
(* The turns the pool knows, and what it may assume of their records.      *)

Stages == OnHbf \cup {"none", "gpu"}
TurnType == [stage : Stages, reused : Nat, done : Nat, generated : Nat, hbf : Nat, published : Nat]
Running == {"prefill", "decode"}
Gated == {"gate", "waiting", "bound"}

\* How far a turn on HBF has come with its call.
Progressed(t, call) ==
  /\ t.stage = "prefill" => t.generated = 0 /\ t.reused + t.done <= call.input
  /\ t.stage # "prefill" => t.reused + t.done = call.input
  /\ t.stage \in Gated => t.generated = 1 /\ setup.tail >= 0
  /\ t.stage \in Gated \cup {"decode"} => t.generated \in 1..(call.output - 1)
  /\ t.stage = "complete" => t.generated = call.output
\* The pool works with the placement the record has.
Placed(t, r) ==
  /\ t.published = r.total /\ r.total <= t.reused + t.done
  /\ setup.refresh => t.hbf = r.committed
Fitting(s, t, n, r) ==
  /\ n <= Len(setup.script[s]) /\ (t.stage # "none" => n >= 1)
  /\ t.stage = "gpu" <=> r.state = "gpu_active"
  /\ t.stage \in OnHbf <=> r.state = "hbf_active"
  /\ (r.state = "none" => r.total = 0) /\ (n = 0 => r.state = "none")
  /\ t.stage # "none" => t.reused <= setup.script[s][n].input
  /\ t.stage \in OnHbf => Placed(t, r) /\ Progressed(t, setup.script[s][n])
Launched(g, s) ==
  /\ s \in Session /\ batch[g][s] \in Grants(s)
  /\ turn[s].stage \in Running /\ hbf.rec[s].group = g
Staged ==
  /\ turn \in [Session -> TurnType] /\ offered \in [Session -> Nat] /\ DOMAIN batch = Group
  /\ \A s \in Session : Fitting(s, turn[s], offered[s], hbf.rec[s])
  /\ \A g \in Group : \A s \in DOMAIN batch[g] : Launched(g, s)

Sound == setup \in Setups /\ (~hbf.failed => Good(hbf) /\ Staged)

\* A step as the sessions see it: a step of the abstract cache, or none.
View(t, n, r) ==
  IF r.state = "ended" THEN KV!Ended(n - 1)
  ELSE IF t.stage # "none" THEN KV!Busy(n - 1, t.reused) ELSE KV!Idle(n, Context(r))
Moves(v, w) == v = w \/ KV!Step(v, w)
Shown(s) == View(turn[s], offered[s], hbf.rec[s])
Showing(s) == View(turn'[s], offered'[s], (hbf').rec[s])
Served == ~(hbf').failed => \A s \in Session : Moves(Shown(s), Showing(s))

\* The server a state is about never changes.
LEMMA GoodPrimed ==
    ASSUME setup' = setup, Good(hbf')
    PROVE  Good(hbf)'
<1> QED
    BY DEF Good, Place, Group, Typed, HbfType, RecordType, JobType, Places, Exact

LEMMA FittingPrimed ==
    ASSUME setup' = setup, NEW s \in Session,
           Fitting(s, turn'[s], offered'[s], (hbf').rec[s])
    PROVE  Fitting(s, turn[s], offered[s], hbf.rec[s])'
    BY DEF Fitting, Placed, Progressed

LEMMA ViewFacts ==
    ASSUME NEW t, NEW n, NEW r
    PROVE  /\ r.state = "ended" => View(t, n, r) = KV!Ended(n - 1)
           /\ r.state # "ended" /\ t.stage # "none" => View(t, n, r) = KV!Busy(n - 1, t.reused)
           /\ r.state # "ended" /\ t.stage = "none" => View(t, n, r) = KV!Idle(n, Context(r))
    BY DEF View

\* The moves of the abstract cache.
LEMMA KvMoves ==
    ASSUME NEW v \in Int, NEW n \in Nat, NEW h \in Nat
    PROVE  /\ Moves(KV!Idle(v, n), KV!Idle(v, 0))
           /\ h <= n => Moves(KV!Idle(v, n), KV!Busy(v, h))
           /\ h <= n => Moves(KV!Busy(v, h), KV!Idle(v + 1, n))
           /\ Moves(KV!Busy(v, h), KV!Ended(v))
    BY DEF Moves, KV!Step, KV!Lose, KV!Resume, KV!PublishNext, KV!Close, KV!Idle, KV!Busy, KV!Ended

LEMMA ContextFacts ==
    ASSUME NEW r \in RecordType
    PROVE  /\ Context(r) \in Nat
           /\ Place(r) => Context(r) = IF r.state \in {"none", "evicted"} THEN 0 ELSE r.total
<1> QED
    BY RecordTyping DEF Context, Place, Media

\* Another session that a step leaves alone, or evicts while it is idle.
LEMMA OthersFit ==
    ASSUME NEW b, Good(b), NEW c, NEW s \in Session, Spared(b, c, s), NEW t \in Session \ {s}
    PROVE  /\ \A u \in TurnType, n \in Nat : Fitting(t, u, n, b.rec[t]) =>
                 Fitting(t, u, n, c.rec[t]) /\ Moves(View(u, n, b.rec[t]), View(u, n, c.rec[t]))
           /\ b.rec[t].state = "hbf_active" => c.rec[t] = b.rec[t]
<1>1. b.rec[t] \in RecordType
    BY GoodFacts
<1>3. CASE Same(b, c, t)
    BY <1>3 DEF Same, Moves
<1>4. CASE Ousted(b, c, t)
  <2>1. /\ b.rec[t].state = "hbf_ready" /\ c.rec[t].state = "evicted" /\ c.rec[t] \in RecordType
      BY <1>1, <1>4, EvictedType DEF Ousted
  <2> SUFFICES ASSUME NEW u \in TurnType, NEW n \in Nat, Fitting(t, u, n, b.rec[t])
               PROVE  /\ Fitting(t, u, n, c.rec[t])
                      /\ Moves(View(u, n, b.rec[t]), View(u, n, c.rec[t]))
      BY <2>1
  <2>2. u.stage = "none"
      BY <2>1 DEF Fitting, TurnType, Stages
  <2> QED
      BY <1>1, <2>1, <2>2, KvMoves, ContextFacts DEF Fitting, OnHbf, View, Context, Media
<1> QED
    BY <1>3, <1>4 DEF Spared

\* A session in a batch keeps the work it was granted.
SameWork(s) ==
  /\ turn'[s].stage = turn[s].stage /\ turn'[s].reused = turn[s].reused
  /\ turn'[s].done = turn[s].done /\ offered'[s] = offered[s]
  /\ (hbf').rec[s].group = hbf.rec[s].group

LEMMA GrantsKept ==
    ASSUME setup' = setup, NEW s, turn'[s].stage = turn[s].stage, turn'[s].reused = turn[s].reused,
           turn'[s].done = turn[s].done, offered'[s] = offered[s]
    PROVE  Grants(s)' = Grants(s)
    BY DEF Grants, Remaining, Call

\* A step of one session, which is in no batch or keeps its place there.
LEMMA StepSound ==
    ASSUME Sound, ~hbf.failed, setup' = setup, NEW s \in Session,
           Good(hbf'), Spared(hbf, hbf', s),
           turn' \in [Session -> TurnType], offered' \in [Session -> Nat], batch' = batch,
           \A t \in Session \ {s} : turn'[t] = turn[t] /\ offered'[t] = offered[t],
           Fitting(s, turn'[s], offered'[s], (hbf').rec[s]),
           Moves(Shown(s), Showing(s)),
           turn[s].stage \in Running => SameWork(s)
    PROVE  Sound' /\ Served
<1>1. Good(hbf) /\ Staged /\ setup \in Setups
    BY DEF Sound
<1>2. /\ \A t \in Session : Fitting(t, turn[t], offered[t], hbf.rec[t])
      /\ turn \in [Session -> TurnType] /\ offered \in [Session -> Nat]
    BY <1>1 DEF Staged
<1>3. ASSUME NEW t \in Session
      PROVE  /\ Fitting(t, turn'[t], offered'[t], (hbf').rec[t])
             /\ Moves(Shown(t), Showing(t))
    BY <1>1, <1>2, OthersFit DEF Shown, Showing
<1>5. \A g \in Group : \A t \in DOMAIN batch[g] : Launched(g, t)'
  <2> SUFFICES ASSUME NEW g \in Group, NEW t \in DOMAIN batch[g] PROVE Launched(g, t)'
      OBVIOUS
  <2>1. t \in Session /\ batch[g][t] \in Grants(t) /\ turn[t].stage \in Running /\ hbf.rec[t].group = g
      BY <1>1 DEF Staged, Launched
  <2>2. SameWork(t)
      BY <1>1, <1>2, <2>1, OthersFit DEF Fitting, Running, OnHbf, SameWork
  <2> QED
      BY <2>1, <2>2, GrantsKept DEF Launched, SameWork
<1>6. Group' = Group
    BY DEF Group
<1>7. Staged'
    BY <1>1, <1>3, <1>5, <1>6, FittingPrimed DEF Staged, TurnType
<1>8. Good(hbf)'
    BY GoodPrimed
<1> QED
    BY <1>1, <1>3, <1>7, <1>8 DEF Sound, Served

-----------------------------------------------------------------------------
(* A failure is never undone: what follows a step that failed has failed.  *)

LEMMA RouteFails ==
    ASSUME setup \in Setups, NEW b, Good(b), NEW s \in Session, b.rec[s].state = "hbf_ready",
           NEW reuse \in Nat, reuse <= b.rec[s].total, NEW growth \in Nat
    PROVE  Typed(RouteHbf(b, s, reuse, growth))
<1> DEFINE d == TrimHbf(b, s, reuse)
           g == d.rec[s].group
           v == Stripe(reuse, growth)
           x == SetBytes(d, g, Headroom(s), v)
           q == InState(d.rec[s], "hbf_active")
           c == RouteHbf(b, s, reuse, growth)
<1>1. /\ Typed(d) /\ g \in Group
    BY TrimGood
<1>2. v \in Counts /\ g \in Places /\ d.rec[s] \in RecordType
    BY <1>1, StripeType, Typing DEF Places
<1>3. Holder(s) \in Owner /\ Headroom(s) \in Owner
    BY OwnerFacts
<1>4. c = IF ~CanSet(d, g, Headroom(s), v) THEN Abandon(d, s) ELSE [x EXCEPT !.rec[s].state = "hbf_active"]
    BY DEF RouteHbf
<1> HIDE DEF d, v, c
<1>5. CASE ~CanSet(d, g, Headroom(s), v)
  <2> DEFINE f == Free(d, g, Committed(d.rec[s]))
             h == Drop(Drop(f, Holder(s)), Headroom(s))
             p == Abandoned(d.rec[s])
  <2>1. RecordTo(h, c, s, p)
      BY <1>4, <1>5 DEF Abandon, RecordTo, Abandoned
  <2>3. p \in RecordType
      BY <1>2, AbandonedType
  <2> HIDE DEF p
  <2>4. Typed(f)
      BY <1>1, <1>2, FreeTyped, CardFacts, ShareType
  <2> HIDE DEF f
  <2>6. Typed(h)
      BY <1>3, <2>4, DropFacts
  <2> HIDE DEF h
  <2> QED
      BY <2>1, <2>3, <2>6, RecordSet DEF Wrote, c
<1>6. CASE CanSet(d, g, Headroom(s), v)
  <2>1. Typed(x) /\ x.rec = d.rec
      BY <1>1, <1>2, <1>3, SetKeeps
  <2>3. q \in RecordType
      BY <1>2, StateType DEF States
  <2>4. RecordTo(x, c, s, q)
    <3>2. [x EXCEPT !.rec[s].state = "hbf_active"] = [x EXCEPT !.rec[s] = [x.rec[s] EXCEPT !.state = "hbf_active"]]
      <4> HIDE DEF x
      <4> QED
          BY <2>1, Typing
    <3> QED
        BY <1>4, <1>6, <2>1, <3>2 DEF RecordTo, InState
  <2> HIDE DEF q, x
  <2> QED
      BY <2>1, <2>3, <2>4, RecordSet DEF Wrote, c
<1> QED
    BY <1>5, <1>6

\* An append or a migration that ends, in whatever way.
LEMMA FinishKeeps ==
    ASSUME setup \in Setups, NEW b, Good(b), NEW j \in b.jobs
    PROVE  LET c == FinishJob(b, j)
               s == j.session
               r == b.rec[s]
               q == c.rec[s] IN
           /\ Typed(c)
           /\ r.state = "hbf_active" => /\ q.state = "hbf_active" /\ q.group = r.group
                                        /\ q.total = r.total /\ q.committed + q.lpddr = r.total
<1> DEFINE s == j.session
           r == b.rec[s]
           e == Ends(b, j)
           c == FinishJob(b, j)
<1>1. Typed(b)
    BY DEF Good
<1>2. /\ Typed(e) /\ e.rec = b.rec /\ e.jobs = b.jobs \ {j} /\ j \in JobType /\ s \in Session
    BY <1>1, EndsFacts
<1>3. r \in RecordType /\ Place(r)
    BY <1>2, GoodFacts
<1>4. j.group \in Group /\ j.count \in Nat /\ JobBytes(j) \in Counts /\ r.committed \in Nat /\ r.lpddr \in Nat
    BY <1>2, <1>3, JobTyping, RecordTyping
<1>5. Holder(s) \in Owner
    BY <1>2, OwnerFacts
<1>6. r.state = "hbf_active" => r.committed + r.lpddr = r.total
    BY <1>3 DEF Place, Media
<1>7. LET f == Free(e, j.group, JobBytes(j)) IN Typed(f) /\ f.rec = e.rec
  <2> DEFINE f == Free(e, j.group, JobBytes(j))
  <2>1. Typed(f)
      BY <1>2, <1>4, FreeTyped
  <2>2. CASE Within(JobBytes(j), e.reserved[j.group])
    <3>1. f.rec = e.rec
        BY <1>2, <2>2, Typing DEF Free
    <3> QED
        BY <2>1, <3>1
  <2>3. CASE ~Within(JobBytes(j), e.reserved[j.group])
    <3>1. f.rec = e.rec
        BY <1>2, <2>3, Typing DEF Free, Raise
    <3> QED
        BY <2>1, <3>1
  <2> QED
      BY <2>2, <2>3
<1>8. CASE c = Free(e, j.group, JobBytes(j))
    BY <1>2, <1>6, <1>7, <1>8 DEF c, r, s
<1>9. CASE j.kind = "migration"
  <2>1. c = FinishMigration(b, j)
      BY <1>9 DEF FinishJob
  <2>2. CASE ~IsCurrent(b, j)
      BY <1>8, <2>1, <2>2 DEF FinishMigration, Ends
  <2>3. CASE IsCurrent(b, j)
    <3> DEFINE d == Drop(e, Holder(s))
               q == Migrated(r, j.count)
    <3>1. d.rec[s] = r
      <4>1. d.rec = e.rec
          BY <1>2, <1>5, DropFacts
      <4> QED
          BY <1>2, <4>1
    <3>2. RecordTo(d, c, s, q)
        BY <2>1, <2>3, <3>1 DEF FinishMigration, Ends, RecordTo, Migrated
    <3>3. q \in RecordType
        BY <1>3, <1>4, MigratedType
    <3>4. Typed(d)
        BY <1>2, <1>5, DropFacts
    <3>7. s \in Session
        BY <1>2
    <3> HIDE DEF d, q, c
    <3>6. Typed(c)
        BY <3>2, <3>3, <3>4, <3>7, RecordSet DEF Wrote
    <3> QED
        BY <2>3, <3>6 DEF c, IsCurrent
  <2> QED
      BY <2>2, <2>3
<1>10. CASE j.kind # "migration"
  <2>1. c = FinishAppend(b, j)
      BY <1>10 DEF FinishJob
  <2>2. CASE ~IsNext(b, j)
      BY <1>8, <2>1, <2>2 DEF FinishAppend, Ends
  <2>3. CASE IsNext(b, j) /\ j.count > r.lpddr
    <3>1. c = Raise(e)
        BY <2>1, <2>3, Zenon DEF FinishAppend, Ends
    <3> QED
        BY <1>2, <1>6, <3>1, RaiseFails, Typing DEF c, r, s, Raise
  <2>4. CASE IsNext(b, j) /\ ~(j.count > r.lpddr)
    <3> DEFINE d == Shrink(e, Holder(s), JobBytes(j))
               q == Appended(r, j.count)
    <3>1. RecordTo(d, c, s, q)
      <4>1. c = [d EXCEPT !.rec[s] = [r EXCEPT !.committed = @ + j.count, !.lpddr = @ - j.count]]
          BY <2>1, <2>4, Zenon DEF FinishAppend, Ends
      <4> HIDE DEF c, d
      <4> QED
          BY <4>1 DEF RecordTo, Appended
    <3>3. /\ q \in RecordType /\ q.state = r.state /\ q.group = r.group /\ q.total = r.total
          /\ q.committed = r.committed + j.count /\ q.lpddr = r.lpddr - j.count
        BY <1>3, <1>4, <2>4, AppendedType
    <3>4. Typed(d)
        BY <1>2, <1>4, <1>5, SetTyped DEF Places
    <3> HIDE DEF d, q, c, r, s
    <3>8. Wrote(d, c, s, q, d.jobs)
        BY <1>2, <3>1, <3>3, <3>4, RecordSet
    <3> QED
        BY <1>4, <1>6, <3>3, <3>8 DEF c, r, s, Wrote
  <2> QED
      BY <2>2, <2>3, <2>4
<1> QED
    BY <1>9, <1>10


LEMMA StartAppendFails ==
    ASSUME setup \in Setups, NEW b, Typed(b), NEW s \in Session, b.rec[s].group \in Group,
           NEW start \in Nat, NEW count \in Nat, ~StartAppend(b, s, start, count).failed
    PROVE  ~b.failed
<1> DEFINE r == b.rec[s]
           v == Stripe(start, count)
           e == EnsureCapacity(b, r.group, v)
           d == Reserve(e, r.group, v)
           j == Job("append", s, r, start, count)
           c == StartAppend(b, s, start, count)
<1>1. v \in Counts /\ r.group \in Group
    BY StripeType
<1>2. c = IF Fits(e, r.group, v, {}) THEN [d EXCEPT !.jobs = @ \cup {j}] ELSE e
    BY DEF StartAppend
<1> HIDE DEF v
<1>3. Typed(e) /\ Typed(d)
    BY <1>1, EnsureTyped, FreeTyped
<1>4. ~c.failed
    OBVIOUS
<1> HIDE DEF c
<1>5. ~e.failed
  <2>1. CASE ~Fits(e, r.group, v, {})
      BY <1>2, <1>4, <2>1
  <2>2. CASE Fits(e, r.group, v, {})
    <3> HIDE DEF d, e, j
    <3>2. ~d.failed
        BY <1>2, <1>3, <1>4, <2>2, Typing
    <3> QED
        BY <1>1, <1>3, <3>2, ReserveFacts DEF d
  <2> QED
      BY <2>1, <2>2
<1> QED
    BY <1>1, <1>5, EnsureFacts

LEMMA DrainFails ==
    ASSUME setup \in Setups, NEW b, Typed(b), NEW s \in Session, b.rec[s].group \in Group,
           b.rec[s].committed + b.rec[s].lpddr = b.rec[s].total,
           NEW total \in Nat, b.rec[s].total <= total, setup.tail >= 0, ~Drain(b, s, total).failed
    PROVE  ~b.failed
<1> DEFINE r == b.rec[s]
           n == r.lpddr + total - r.total
           y == Touch(b, s)
           q == Adopted(r, total, n)
           d == [y EXCEPT !.rec[s] = q]
           m == n - Min({setup.tail, n})
           c == Drain(b, s, total)
<1>1. /\ r \in RecordType /\ r.group \in Group /\ r.committed \in Nat /\ r.lpddr \in Nat
      /\ r.total \in Nat /\ r.committed + r.lpddr = r.total
    BY Typing, RecordTyping
<1>2. n \in Nat
    BY <1>1
<1>3. m \in Nat
  <2> HIDE DEF n
  <2>1. setup.tail \in Int /\ setup.tail >= 0 /\ n \in Int /\ n >= 0
      BY <1>2, SetupFacts
  <2>2. Min({setup.tail, n}) \in {setup.tail, n} /\ Min({setup.tail, n}) <= n
      BY <2>1, LesserFacts
  <2> QED
      BY <2>1, <2>2
<1> HIDE DEF n
<1>4. q \in RecordType /\ q.group = r.group
  <2>1. r \in RecordType
      BY <1>1
  <2> HIDE DEF r
  <2>2. LET x == Adopted(r, total, n) IN x \in RecordType /\ x.group = r.group
      BY <1>2, <2>1, AdoptedType, Zenon
  <2> QED
      BY <2>2
<1>5. ~c.failed
    OBVIOUS
<1>6. CASE Held(b, Holder(s)) # Stripe(r.committed, n)
  <2>1. c = Raise(b)
      BY <1>6, Zenon DEF Drain, n
  <2> QED
      BY <1>5, <2>1, RaiseFails
<1>7. CASE Held(b, Holder(s)) = Stripe(r.committed, n)
  <2>1. c = IF JobsOf(b, s, "append") # {} \/ m = 0 THEN d ELSE StartAppend(d, s, r.committed, m)
      BY <1>7, Zenon DEF Drain, Adopted, n, m
  <2>2. RecordTo(y, d, s, q)
      BY DEF RecordTo
  <2> HIDE DEF m, c, q, d, r
  <2>3. Typed(y) /\ y.failed = b.failed
      BY TouchFacts
  <2> HIDE DEF y
  <2>4. Wrote(y, d, s, q, y.jobs)
      BY <1>4, <2>2, <2>3, RecordSet
  <2>5. Typed(d) /\ d.failed = b.failed /\ d.rec[s] = q
      BY <2>3, <2>4 DEF Wrote
  <2>6. ~d.failed
      BY <1>1, <1>3, <1>4, <1>5, <2>1, <2>5, StartAppendFails
  <2> QED
      BY <2>5, <2>6
<1> QED
    BY <1>6, <1>7

-----------------------------------------------------------------------------
LEMMA ScriptFacts ==
    ASSUME setup \in Setups, NEW s \in Session, NEW n \in 1..Len(setup.script[s])
    PROVE  LET call == setup.script[s][n] IN
           call.input \in Nat \ {0} /\ call.output \in Nat \ {0} /\ call.reuse \in Nat
<1> DEFINE q == setup.script[s]
           T == [input : Nat \ {0}, output : Nat \ {0}, reuse : Nat]
<1>3. q \in Seq(T) /\ n \in 1..Len(q)
    BY SetupFacts
<1>2. q[n] \in T
  <2> HIDE DEF q, T
  <2> QED
      BY <1>3
<1> QED
    BY <1>2

LEMMA LeastOfThree ==
    ASSUME NEW x \in Nat, NEW y \in Nat, NEW z \in Nat
    PROVE  LET m == Min({x, y, z}) IN m \in Nat /\ m <= x /\ m <= y /\ m <= z
<1> QED
    BY DEF Min

\* What the next call reuses is there.
LEMMA ReuseFacts ==
    ASSUME setup \in Setups, NEW s \in Session, NextCall(s).input \in Nat \ {0},
           NextCall(s).reuse \in Nat, hbf.rec[s].total \in Nat
    PROVE  Reuse(s) \in Nat /\ Reuse(s) <= hbf.rec[s].total /\ Reuse(s) <= NextCall(s).input
<1> DEFINE i == NextCall(s).input
           kept == Min({NextCall(s).reuse, hbf.rec[s].total, i})
<1>1. kept \in Nat /\ kept <= hbf.rec[s].total /\ kept <= i
    BY LeastOfThree
<1>2. Reuse(s) = IF hbf.rec[s].state = "hbf_ready" \/ ~setup.native THEN kept
                 ELSE IF setup.recompute THEN 0 ELSE Min({kept, i - 1})
    BY DEF Reuse
<1> HIDE DEF kept
<1>3. CASE Reuse(s) = kept
    BY <1>1, <1>3
<1>4. CASE Reuse(s) = 0
    BY <1>4
<1>5. CASE Reuse(s) = Min({kept, i - 1})
  <2>1. kept \in Int /\ i - 1 \in Int /\ i - 1 >= 0 /\ kept >= 0
      BY <1>1
  <2>2. Min({kept, i - 1}) \in {kept, i - 1} /\ Min({kept, i - 1}) <= kept
      BY <2>1, LesserFacts
  <2> QED
      BY <1>1, <1>5, <2>1, <2>2
<1> QED
    BY <1>2, <1>3, <1>4, <1>5

-----------------------------------------------------------------------------
LEMMA RaisedSound ==
    ASSUME Sound, setup' = setup, (hbf').failed
    PROVE  Sound' /\ Served
    BY DEF Sound, Served

LEMMA SessionFacts ==
    ASSUME Sound, ~hbf.failed, NEW s \in Session
    PROVE  /\ setup \in Setups /\ Good(hbf) /\ Staged
           /\ turn \in [Session -> TurnType] /\ offered \in [Session -> Nat]
           /\ turn[s] \in TurnType /\ offered[s] \in Nat
           /\ Fitting(s, turn[s], offered[s], hbf.rec[s])
           /\ hbf.rec[s] \in RecordType /\ Place(hbf.rec[s])
    BY GoodFacts DEF Sound, Staged

LEMMA TurnTyping ==
    ASSUME NEW t \in TurnType
    PROVE  /\ t.stage \in Stages /\ t.reused \in Nat /\ t.done \in Nat /\ t.generated \in Nat
           /\ t.hbf \in Nat /\ t.published \in Nat
    BY DEF TurnType

\* Whoever runs no call is neither on the GPUs nor on HBF.
LEMMA IdleFacts ==
    ASSUME Sound, ~hbf.failed, NEW s \in Session, ~Live(s)
    PROVE  turn[s].stage = "none" /\ hbf.rec[s].state \notin {"gpu_active", "hbf_active"}
    BY SessionFacts DEF Live, Fitting, OnHbf

LEMMA CopiedType ==
    ASSUME NEW t \in TurnType, NEW r \in RecordType
    PROVE  LET u == Copied(t, r) IN
           /\ u \in TurnType /\ u.stage = t.stage /\ u.reused = t.reused /\ u.done = t.done
           /\ u.generated = t.generated /\ u.hbf = r.committed
           /\ u.published = r.committed + r.lpddr
<1> DEFINE c == r.committed
           p == r.committed + r.lpddr
           u == [t EXCEPT !.hbf = c, !.published = p]
<1>1. c \in Nat /\ p \in Nat
    BY RecordTyping
<1>2. Copied(t, r) = u
    BY DEF Copied
<1> HIDE DEF c, p
<1>3. u \in TurnType
    BY <1>1 DEF TurnType
<1>4. /\ u.stage = t.stage /\ u.reused = t.reused /\ u.done = t.done
      /\ u.generated = t.generated /\ u.hbf = c /\ u.published = p
    BY <1>1 DEF TurnType
<1> HIDE DEF u
<1> QED
    BY <1>2, <1>3, <1>4 DEF c, p

\* A call that starts, on HBF or on the GPUs.
Started(t, stage, reused) ==
  t.stage = stage /\ t.reused = reused /\ t.done = 0 /\ t.generated = 0

LEMMA NewTurn ==
    ASSUME NEW stage \in {"prefill", "gpu"}, NEW n \in Nat
    PROVE  LET u == [NoTurn EXCEPT !.stage = stage, !.reused = n] IN
           u \in TurnType /\ Started(u, stage, n)
    BY DEF NoTurn, TurnType, Stages, OnHbf, Started

\* What is asked of the lifecycle for a call.
LEMMA OfferFacts ==
    ASSUME Sound, ~hbf.failed, NEW s \in Session, ~Live(s), offered[s] < Len(setup.script[s])
    PROVE  LET call == NextCall(s)
               b    == Touch(hbf, s) IN
           /\ call.input \in Nat \ {0} /\ call.output \in Nat \ {0}
           /\ Reuse(s) \in Nat /\ Reuse(s) <= hbf.rec[s].total /\ Reuse(s) <= call.input
           /\ offered[s] + 1 \in 1..Len(setup.script[s])
           /\ call.input - Reuse(s) + call.output - 1 \in Nat
           /\ Good(b) /\ Spared(hbf, b, s) /\ b.rec = hbf.rec /\ b.lpddr = hbf.lpddr
           /\ b.failed = hbf.failed
<1> DEFINE r    == hbf.rec[s]
           call == NextCall(s)
           k    == Reuse(s)
           b    == Touch(hbf, s)
<1>1. setup \in Setups /\ Good(hbf) /\ offered \in [Session -> Nat] /\ r \in RecordType
    BY SessionFacts
<1>2. call.input \in Nat \ {0} /\ call.output \in Nat \ {0} /\ call.reuse \in Nat
      /\ offered[s] + 1 \in 1..Len(setup.script[s])
  <2>2. Len(setup.script[s]) \in Nat
      BY <1>1, SetupFacts
  <2> QED
      BY <1>1, <2>2, ScriptFacts DEF NextCall
<1>3. k \in Nat /\ k <= r.total /\ k <= call.input
  <2>1. r.total \in Nat
      BY <1>1, RecordTyping
  <2> QED
      BY <1>1, <1>2, <2>1, ReuseFacts
<1> HIDE DEF call, k
<1>5. Near(hbf, b, s) /\ b.rec = hbf.rec /\ b.lpddr = hbf.lpddr /\ b.failed = hbf.failed
    BY <1>1, NearSelf, NearTouch
<1> HIDE DEF b
<1>6. Good(b) /\ Spared(hbf, b, s)
    BY <1>1, <1>5, NearGood, GoodFacts DEF Near
<1> QED
    BY <1>2, <1>3, <1>5, <1>6 DEF call, k, b

LEMMA OfferSound ==
    ASSUME Sound, ~hbf.failed, NEW s \in Session, Offer(s)
    PROVE  Sound' /\ Served
<1> DEFINE r      == hbf.rec[s]
           call   == NextCall(s)
           b      == Touch(hbf, s)
           reuse  == Reuse(s)
           growth == call.input - reuse + call.output - 1
           routed == IF r.state = "hbf_ready" THEN RouteHbf(b, s, reuse, growth)
                                              ELSE RouteGpu(b, s, reuse)
           onHbf  == routed.rec[s].state = "hbf_active"
           lost   == r.state = "evicted" \/ (r.state = "hbf_ready" /\ ~onHbf)
           left   == IF lost THEN 0 ELSE reuse
           new    == [NoTurn EXCEPT !.stage = IF onHbf THEN "prefill" ELSE "gpu", !.reused = left]
<1>1. /\ setup \in Setups /\ Good(hbf) /\ Staged
      /\ turn \in [Session -> TurnType] /\ offered \in [Session -> Nat]
      /\ r \in RecordType /\ Place(r) /\ Fitting(s, turn[s], offered[s], r)
    BY SessionFacts
<1>2. /\ ~Live(s) /\ offered[s] < Len(setup.script[s]) /\ r.state # "ended"
      /\ hbf' = (IF onHbf THEN Submit(routed, s) ELSE routed)
      /\ turn' = [turn EXCEPT ![s] = IF onHbf THEN Copied(new, routed.rec[s]) ELSE new]
      /\ offered' = [offered EXCEPT ![s] = offered[s] + 1]
      /\ setup' = setup /\ batch' = batch
    BY Zenon DEF Offer
<1>3. turn[s].stage = "none" /\ r.state \notin {"gpu_active", "hbf_active"}
    BY <1>2, IdleFacts
<1>4. SUFFICES ASSUME ~(hbf').failed PROVE Sound' /\ Served
    BY <1>2, RaisedSound
<1>5. /\ call.input \in Nat \ {0} /\ call.output \in Nat \ {0}
      /\ offered[s] + 1 \in 1..Len(setup.script[s])
      /\ reuse \in Nat /\ reuse <= r.total /\ reuse <= call.input /\ growth \in Nat
      /\ Good(b) /\ Spared(hbf, b, s) /\ b.rec = hbf.rec
    BY <1>2, OfferFacts
<1>a. left \in Nat /\ left <= reuse /\ left <= Context(r)
  <2>1. r.state \in {"none", "evicted"} => left = 0
      BY <1>1, <1>5 DEF Fitting
  <2> HIDE DEF reuse, r, lost
  <2> QED
      BY <1>1, <1>5, <2>1, ContextFacts, RecordTyping
<1> HIDE DEF call, reuse, b, growth
<1>9. /\ Good(hbf') /\ Spared(b, hbf', s) /\ routed.rec[s] \in RecordType
      /\ (hbf').rec[s] = routed.rec[s]
      /\ \/ /\ onHbf /\ r.state = "hbf_ready" /\ (hbf').rec[s].state = "hbf_active"
            /\ (hbf').rec[s].total = reuse
         \/ ~onHbf /\ (hbf').rec[s].state = "gpu_active"
  <2>1. CASE r.state = "hbf_ready"
    <3>1. routed = RouteHbf(b, s, reuse, growth)
        BY <2>1
    <3> HIDE DEF routed
    <3>2. b.rec[s].state = "hbf_ready" /\ reuse <= b.rec[s].total
        BY <1>5, <2>1
    <3>3. Typed(routed)
        BY <1>1, <1>5, <3>1, <3>2, RouteFails
    <3>4. ~routed.failed => /\ Good(routed) /\ Spared(b, routed, s)
                            /\ Taken(b, routed, s, reuse, growth) \/ GivenUp(routed, s, reuse)
        BY <1>1, <1>5, <3>1, <3>2, RouteHbfGood
    <3>5. CASE onHbf
      <4>1. hbf' = Submit(routed, s)
          BY <1>2, <3>5
      <4>2. ~routed.failed
        <5>2. /\ routed.rec[s].group \in Places /\ Holder(s) \in Owner
              /\ Stripe(routed.rec[s].committed, routed.rec[s].lpddr) \in Counts
            BY <3>3, RecordTyping, StripeType, OwnerFacts, Typing
        <5> QED
            BY <1>4, <3>3, <4>1, <5>2, SetFacts DEF Submit
      <4>3. Good(hbf') /\ Spared(routed, hbf', s) /\ (hbf').rec = routed.rec
          BY <1>1, <1>4, <3>4, <4>1, <4>2, SubmitGood
      <4>4. Spared(b, hbf', s)
          BY <1>5, <3>4, <4>2, <4>3, SparedTwice, Typing DEF Good
      <4>5. routed.rec[s].state = "hbf_active" /\ routed.rec[s].total = reuse
          BY <3>4, <3>5, <4>2 DEF Taken, GivenUp
      <4> QED
          BY <2>1, <3>3, <3>5, <4>3, <4>4, <4>5, Typing
    <3>6. CASE ~onHbf
        BY <1>2, <1>4, <3>3, <3>4, <3>6, Typing DEF Taken, GivenUp
    <3> QED
        BY <3>5, <3>6
  <2>2. CASE r.state # "hbf_ready"
    <3>1. routed = RouteGpu(b, s, reuse)
        BY <2>2
    <3> HIDE DEF routed
    <3>3. /\ Good(routed) /\ Spared(b, routed, s) /\ routed.rec[s].state = "gpu_active"
        BY <1>1, <1>3, <1>5, <2>2, <3>1, RouteGpuGood DEF Media
    <3> QED
        BY <1>2, <3>3, GoodFacts
  <2> QED
      BY <2>1, <2>2
<1>b. onHbf => left = reuse
    BY <1>9
<1> HIDE DEF lost, left
<1>10. /\ Spared(hbf, hbf', s)
    BY <1>1, <1>5, <1>9, SparedTwice, Typing DEF Good
<1> DEFINE q == routed.rec[s]
<1>11. /\ turn' \in [Session -> TurnType]
       /\ Started(turn'[s], IF onHbf THEN "prefill" ELSE "gpu", left)
       /\ onHbf => turn'[s].hbf = q.committed /\ turn'[s].published = q.committed + q.lpddr
       /\ \A t \in Session \ {s} : turn'[t] = turn[t]
  <2> DEFINE stage == IF onHbf THEN "prefill" ELSE "gpu"
  <2>0. stage \in {"prefill", "gpu"}
      OBVIOUS
  <2>1. new \in TurnType /\ Started(new, stage, left)
    <3>1. new = [NoTurn EXCEPT !.stage = stage, !.reused = left]
        OBVIOUS
    <3> HIDE DEF stage, new
    <3> QED
        BY <1>a, <2>0, <3>1, NewTurn, Zenon
  <2> HIDE DEF new, routed, stage
  <2>2. /\ Copied(new, q) \in TurnType /\ Started(Copied(new, q), stage, left)
        /\ Copied(new, q).hbf = q.committed /\ Copied(new, q).published = q.committed + q.lpddr
      BY <1>9, <2>1, CopiedType DEF Started
  <2> QED
      BY <1>1, <1>2, <2>1, <2>2 DEF stage
<1> HIDE DEF new
<1>12. /\ offered' \in [Session -> Nat] /\ offered'[s] = offered[s] + 1
       /\ \A t \in Session \ {s} : offered'[t] = offered[t]
    BY <1>1, <1>2
<1>13. Fitting(s, turn'[s], offered'[s], (hbf').rec[s])
  <2>1. setup.script[s][offered'[s]].input = call.input
      BY <1>12 DEF call, NextCall
  <2> HIDE DEF routed
  <2>3. /\ (hbf').rec[s] = q /\ q.state \in {"hbf_active", "gpu_active"}
        /\ onHbf <=> q.state = "hbf_active"
        /\ turn'[s].reused = left /\ turn'[s].done = 0 /\ turn'[s].generated = 0
        /\ turn'[s].stage = IF onHbf THEN "prefill" ELSE "gpu"
      BY <1>9, <1>11 DEF Started
  <2>4. onHbf => Placed(turn'[s], q)
      BY <1>5, <1>9, <1>11, <1>b, <2>3, GoodFacts DEF Placed, Place, Media
  <2>5. onHbf => Progressed(turn'[s], setup.script[s][offered'[s]])
    <3> HIDE DEF call
    <3> QED
        BY <1>5, <1>a, <2>1, <2>3 DEF Progressed, Gated
  <2> HIDE DEF onHbf, q
  <2> QED
      BY <1>5, <1>12, <1>a, <2>1, <2>3, <2>4, <2>5 DEF Fitting, OnHbf
<1>14. Moves(Shown(s), Showing(s))
  <2>2. Showing(s) = KV!Busy(offered'[s] - 1, left)
      BY <1>9, <1>11, ViewFacts DEF Started, Showing
  <2>3. offered'[s] - 1 = offered[s] /\ offered[s] \in Nat /\ Context(r) \in Nat
      BY <1>1, <1>12, ContextFacts
  <2>4. Moves(KV!Idle(offered[s], Context(r)), KV!Busy(offered[s], left))
      BY <1>a, <2>3, KvMoves
  <2> QED
      BY <1>2, <1>3, <2>2, <2>3, <2>4 DEF Shown, View
<1> QED
    BY <1>2, <1>3, <1>9, <1>10, <1>11, <1>12, <1>13, <1>14, StepSound DEF Running

\* What a live call says of its session.
LEMMA LiveFacts ==
    ASSUME Sound, ~hbf.failed, NEW s \in Session, Live(s)
    PROVE  /\ Call(s).input \in Nat \ {0} /\ Call(s).output \in Nat \ {0} /\ Call(s).reuse \in Nat
           /\ offered[s] \in 1..Len(setup.script[s]) /\ Call(s) = setup.script[s][offered[s]]
           /\ FinalTokens(s) \in Nat /\ Call(s).input <= FinalTokens(s)
           /\ FinalTokens(s) = Call(s).input + Call(s).output - 1
           /\ turn[s].reused <= Call(s).input
           /\ turn[s].stage \in OnHbf =>
                /\ Placed(turn[s], hbf.rec[s]) /\ Progressed(turn[s], Call(s))
                /\ turn[s].reused + turn[s].done <= Call(s).input
                /\ hbf.rec[s].total <= Call(s).input
                /\ hbf.rec[s].state = "hbf_active"
<1>1. /\ setup \in Setups /\ offered[s] \in Nat /\ turn[s] \in TurnType
      /\ Fitting(s, turn[s], offered[s], hbf.rec[s]) /\ hbf.rec[s] \in RecordType
    BY SessionFacts
<1>4. offered[s] \in 1..Len(setup.script[s]) /\ Call(s) = setup.script[s][offered[s]]
    BY <1>1, SetupFacts DEF Fitting, Live, Call
<1>5. Call(s).input \in Nat \ {0} /\ Call(s).output \in Nat \ {0} /\ Call(s).reuse \in Nat
    BY <1>1, <1>4, ScriptFacts
<1>6. /\ FinalTokens(s) \in Nat /\ Call(s).input <= FinalTokens(s)
      /\ FinalTokens(s) = Call(s).input + Call(s).output - 1
    BY <1>5 DEF FinalTokens
<1>7. turn[s].stage \in OnHbf => /\ Placed(turn[s], hbf.rec[s]) /\ Progressed(turn[s], Call(s))
                                 /\ hbf.rec[s].state = "hbf_active"
    BY <1>1, <1>4 DEF Fitting
<1>8. turn[s].stage \in OnHbf => /\ turn[s].reused + turn[s].done <= Call(s).input
                                 /\ hbf.rec[s].total <= Call(s).input
  <2> SUFFICES ASSUME turn[s].stage \in OnHbf
               PROVE  /\ turn[s].reused + turn[s].done <= Call(s).input
                      /\ hbf.rec[s].total <= Call(s).input
      OBVIOUS
  <2> QED
      BY <1>1, <1>5, <1>7, TurnTyping, RecordTyping DEF Progressed, Placed
<1> QED
    BY <1>1, <1>4, <1>5, <1>6, <1>7, <1>8 DEF Fitting, Live

\* What a session sees of a step that neither starts nor ends a call.
LEMMA StaysBusy ==
    ASSUME NEW s \in Session, turn[s].stage # "none", turn'[s].stage # "none",
           turn'[s].reused = turn[s].reused, offered'[s] = offered[s],
           hbf.rec[s].state # "ended", (hbf').rec[s].state # "ended"
    PROVE  Moves(Shown(s), Showing(s))
<1> QED
    BY ViewFacts DEF Showing, Moves, Shown

LEMMA StaysIdle ==
    ASSUME NEW s \in Session, turn[s].stage = "none", turn'[s].stage = "none",
           offered'[s] = offered[s], offered[s] \in Nat, Context(hbf.rec[s]) \in Nat,
           hbf.rec[s].state # "ended", (hbf').rec[s].state # "ended",
           Context((hbf').rec[s]) \in {Context(hbf.rec[s]), 0}
    PROVE  Moves(Shown(s), Showing(s))
<1>1. Shown(s) = KV!Idle(offered[s], Context(hbf.rec[s]))
    BY ViewFacts DEF Shown
<1>3. Showing(s) = KV!Idle(offered[s], Context((hbf').rec[s]))
    BY ViewFacts DEF Showing
<1>4. CASE Context((hbf').rec[s]) = Context(hbf.rec[s])
    BY <1>1, <1>3, <1>4 DEF Moves
<1>5. CASE Context((hbf').rec[s]) = 0
    BY <1>1, <1>3, <1>5, KvMoves
<1> QED
    BY <1>4, <1>5

LEMMA AfterDrainType ==
    ASSUME NEW t \in TurnType, NEW b, NEW s \in Session, Drain(b, s, Call(s).input).rec[s] \in RecordType
    PROVE  LET u == AfterDrain(t, b, s)
               q == Drain(b, s, Call(s).input).rec[s] IN
           /\ u \in TurnType /\ u.stage \in {"waiting", "bound", "decode"}
           /\ u.reused = t.reused /\ u.done = t.done /\ u.generated = t.generated
           /\ u.hbf = q.committed /\ u.published = q.committed + q.lpddr
<1> DEFINE q == Drain(b, s, Call(s).input).rec[s]
           v == Copied(t, q)
           st == IF JobsOf(b, s, "append") # {} THEN "waiting"
                 ELSE IF JobsOf(Drain(b, s, Call(s).input), s, "append") # {} THEN "bound" ELSE "decode"
           u == AfterDrain(t, b, s)
<1>1. /\ v \in TurnType /\ v.reused = t.reused /\ v.done = t.done /\ v.generated = t.generated
      /\ v.hbf = q.committed /\ v.published = q.committed + q.lpddr
    BY CopiedType
<1>2. st \in {"waiting", "bound", "decode"}
    BY Zenon
<1>3. u = [v EXCEPT !.stage = st]
    BY DEF AfterDrain
<1> HIDE DEF q, v, st, u
<1> QED
    BY <1>1, <1>2, <1>3 DEF u, q, TurnType, Stages, OnHbf

\* A gated turn whose prompt has been adopted.
LEMMA DrainedFits ==
    ASSUME NEW t \in TurnType, t.stage \in Gated, NEW b, NEW s \in Session, NEW n,
           NEW q, q = Drain(b, s, Call(s).input).rec[s], q \in RecordType, Place(q),
           q.state = "hbf_active", q.total = setup.script[s][n].input,
           n <= Len(setup.script[s]), n >= 1, t.reused <= setup.script[s][n].input,
           Progressed(t, setup.script[s][n])
    PROVE  Fitting(s, AfterDrain(t, b, s), n, q)
<1> DEFINE u == AfterDrain(t, b, s)
           call == setup.script[s][n]
<1> HIDE DEF u, call
<1> QED
    BY RecordTyping, AfterDrainType DEF Fitting, OnHbf, u, call, Placed, Place, Media,
       Progressed, Gated

LEMMA AdoptedTotal ==
    ASSUME NEW r \in RecordType, NEW k \in Nat, r.total <= k
    PROVE  /\ Adopted(r, k, r.lpddr + k - r.total).state = r.state
           /\ Adopted(r, k, r.lpddr + k - r.total).total = k
<1> DEFINE n == r.lpddr + k - r.total
<1>1. n \in Nat
    BY RecordTyping
<1> HIDE DEF n
<1> QED
    BY <1>1, AdoptedType, Zenon DEF n

LEMMA StartDrainSound ==
    ASSUME Sound, ~hbf.failed, NEW s \in Session, StartDrain(s)
    PROVE  Sound' /\ Served
<1> DEFINE r == hbf.rec[s]
           c == Drain(hbf, s, Call(s).input)
           u == AfterDrain(turn[s], hbf, s)
<1>1. /\ setup \in Setups /\ Good(hbf) /\ Staged
      /\ turn \in [Session -> TurnType] /\ offered \in [Session -> Nat]
      /\ turn[s] \in TurnType /\ r \in RecordType
      /\ Fitting(s, turn[s], offered[s], r)
    BY SessionFacts
<1>2. /\ turn[s].stage = "gate" /\ hbf' = c /\ turn' = [turn EXCEPT ![s] = u]
      /\ setup' = setup /\ batch' = batch /\ offered' = offered
    BY DEF StartDrain
<1>3. SUFFICES ASSUME ~c.failed PROVE Sound' /\ Served
    BY <1>2, RaisedSound
<1>4. Live(s) /\ turn[s].stage \in OnHbf /\ turn[s].stage \in Gated
    BY <1>1, <1>2 DEF Live, OnHbf, Gated
<1>5. /\ Call(s).input \in Nat /\ r.total <= Call(s).input /\ r.state = "hbf_active"
      /\ Progressed(turn[s], Call(s)) /\ turn[s].reused <= Call(s).input
      /\ offered[s] \in 1..Len(setup.script[s]) /\ Call(s) = setup.script[s][offered[s]]
    BY <1>4, LiveFacts
<1>a. setup.tail >= 0
    BY <1>4, <1>5 DEF Progressed
<1>6. /\ Good(c) /\ Spared(hbf, c, s)
      /\ c.rec[s] = Adopted(r, Call(s).input, r.lpddr + Call(s).input - r.total)
    BY <1>1, <1>3, <1>5, <1>a, DrainGood
<1>7. /\ c.rec[s].state = "hbf_active" /\ c.rec[s].total = Call(s).input
      /\ c.rec[s] \in RecordType /\ Place(c.rec[s])
    BY <1>1, <1>5, <1>6, AdoptedTotal, GoodFacts
<1>8. /\ u \in TurnType /\ u.stage \in {"waiting", "bound", "decode"}
      /\ u.reused = turn[s].reused
    BY <1>1, <1>7, AfterDrainType
<1>b. Fitting(s, u, offered[s], c.rec[s])
  <2>1. offered[s] <= Len(setup.script[s]) /\ offered[s] >= 1
      BY <1>5
  <2> QED
      BY <1>1, <1>4, <1>5, <1>7, <2>1, DrainedFits
<1> HIDE DEF c, u
<1>9. /\ turn' \in [Session -> TurnType] /\ turn'[s] = u
      /\ \A t \in Session \ {s} : turn'[t] = turn[t]
    BY <1>1, <1>2, <1>8
<1>12. Moves(Shown(s), Showing(s))
    BY <1>2, <1>5, <1>7, <1>8, <1>9, StaysBusy
<1> QED
    BY <1>1, <1>2, <1>6, <1>9, <1>12, <1>b, StepSound DEF Running


\* A call that ends: its session is closed, or waits with the context it published.
LEMMA TurnEnds ==
    ASSUME NEW s \in Session, turn[s].stage # "none", turn'[s].stage = "none",
           offered'[s] = offered[s], offered[s] \in Nat, turn[s].reused \in Nat,
           hbf.rec[s].state # "ended",
           \/ (hbf').rec[s].state = "ended"
           \/ /\ (hbf').rec[s].state # "ended" /\ Context((hbf').rec[s]) \in Nat
              /\ turn[s].reused <= Context((hbf').rec[s])
    PROVE  Moves(Shown(s), Showing(s))
<1>1. Shown(s) = KV!Busy(offered[s] - 1, turn[s].reused)
    BY ViewFacts DEF Shown
<1>2. offered[s] - 1 \in Int /\ (offered[s] - 1) + 1 = offered[s]
    OBVIOUS
<1>3. CASE (hbf').rec[s].state = "ended"
    BY <1>1, <1>2, <1>3, ViewFacts, KvMoves DEF Showing
<1>4. CASE /\ (hbf').rec[s].state # "ended" /\ Context((hbf').rec[s]) \in Nat
           /\ turn[s].reused <= Context((hbf').rec[s])
  <2> DEFINE n == Context((hbf').rec[s])
  <2>2. Showing(s) = KV!Idle(offered[s], n)
      BY <1>4, ViewFacts DEF Showing
  <2>3. n \in Nat /\ turn[s].reused <= n
      BY <1>4
  <2> HIDE DEF n
  <2> QED
      BY <1>1, <1>2, <2>2, <2>3, KvMoves
<1> QED
    BY <1>3, <1>4

LEMMA CompleteHbfSound ==
    ASSUME Sound, ~hbf.failed, NEW s \in Session, CompleteHbf(s)
    PROVE  Sound' /\ Served
<1> DEFINE r == hbf.rec[s]
           c == CompleteHbfTurn(hbf, s, FinalTokens(s), HasSuccessor(s))
<1>1. /\ setup \in Setups /\ Good(hbf) /\ Staged
      /\ turn \in [Session -> TurnType] /\ offered \in [Session -> Nat]
      /\ r \in RecordType /\ Place(r) /\ turn[s].reused \in Nat
      /\ Fitting(s, turn[s], offered[s], r)
    BY SessionFacts, TurnTyping
<1>2. /\ turn[s].stage = "complete" /\ hbf' = c /\ turn' = [turn EXCEPT ![s] = NoTurn]
      /\ setup' = setup /\ batch' = batch /\ offered' = offered
    BY DEF CompleteHbf
<1>3. SUFFICES ASSUME ~c.failed PROVE Sound' /\ Served
    BY <1>2, RaisedSound
<1>4. Live(s) /\ turn[s].stage \in OnHbf /\ turn[s].stage \notin Running
    BY <1>2 DEF Live, OnHbf, Running
<1>5. /\ FinalTokens(s) \in Nat /\ r.total <= FinalTokens(s) /\ r.state = "hbf_active"
      /\ HasSuccessor(s) \in BOOLEAN /\ turn[s].reused <= FinalTokens(s)
    BY <1>1, <1>4, LiveFacts, RecordTyping DEF HasSuccessor
<1>6. /\ Good(c) /\ Spared(hbf, c, s)
      /\ c.rec[s] = HbfReady(Renewed(r, FinalTokens(s)), r.lpddr + FinalTokens(s) - r.total)
         \/ c.rec[s].state = "ended"
    BY <1>1, <1>3, <1>5, CompleteHbfGood
<1>7. \/ c.rec[s].state = "ended"
      \/ c.rec[s].state = "hbf_ready" /\ c.rec[s].total = FinalTokens(s)
  <2> DEFINE k == FinalTokens(s)
             n == r.lpddr + k - r.total
             q == Renewed(r, k)
  <2>1. n \in Nat /\ k \in Nat
      BY <1>1, <1>5, RecordTyping
  <2> HIDE DEF n, k
  <2>2. q \in RecordType /\ q.total = k
      BY <1>1, <2>1, GrownType
  <2> HIDE DEF q
  <2>3. HbfReady(q, n).state = "hbf_ready" /\ HbfReady(q, n).total = k
      BY <2>1, <2>2, HbfReadyType
  <2> QED
      BY <1>6, <2>3 DEF q, n, k
<1>a. c.rec[s].state # "ended" => Context(c.rec[s]) = FinalTokens(s)
    BY <1>6, <1>7, GoodFacts, ContextFacts
<1> HIDE DEF c
<1>8. NoTurn \in TurnType /\ NoTurn.stage = "none"
    BY DEF NoTurn, TurnType, Stages
<1>9. /\ turn' \in [Session -> TurnType] /\ turn'[s] = NoTurn
      /\ \A t \in Session \ {s} : turn'[t] = turn[t]
    BY <1>1, <1>2, <1>8
<1>10. Fitting(s, turn'[s], offered'[s], (hbf').rec[s])
    BY <1>1, <1>2, <1>7, <1>8, <1>9 DEF Fitting, OnHbf
<1>11. Moves(Shown(s), Showing(s))
    BY <1>1, <1>2, <1>5, <1>8, <1>9, <1>a, TurnEnds
<1> QED
    BY <1>1, <1>2, <1>4, <1>6, <1>9, <1>10, <1>11, StepSound

LEMMA CompleteGpuSound ==
    ASSUME Sound, ~hbf.failed, NEW s \in Session, CompleteGpu(s)
    PROVE  Sound' /\ Served
<1> DEFINE r == hbf.rec[s]
<1>1. /\ setup \in Setups /\ Good(hbf) /\ Staged
      /\ turn \in [Session -> TurnType] /\ offered \in [Session -> Nat]
      /\ r \in RecordType /\ Place(r) /\ turn[s].reused \in Nat
      /\ Fitting(s, turn[s], offered[s], r)
    BY SessionFacts, TurnTyping
<1>2. PICK start \in StartsNow(s) :
        hbf' = CompleteGpuTurn(hbf, s, FinalTokens(s), HasSuccessor(s), start)
    BY DEF CompleteGpu
<1>3. /\ turn[s].stage = "gpu" /\ turn' = [turn EXCEPT ![s] = NoTurn]
      /\ setup' = setup /\ batch' = batch /\ offered' = offered
    BY DEF CompleteGpu
<1>4. SUFFICES ASSUME ~(hbf').failed PROVE Sound' /\ Served
    BY <1>3, RaisedSound
<1>5. Live(s) /\ turn[s].stage \notin Running /\ r.state = "gpu_active"
    BY <1>1, <1>3 DEF Live, Running, Fitting
<1>6. /\ FinalTokens(s) \in Nat /\ HasSuccessor(s) \in BOOLEAN /\ start \in BOOLEAN
      /\ turn[s].reused <= FinalTokens(s)
  <2>3. StartsNow(s) \subseteq BOOLEAN
      BY DEF StartsNow
  <2> QED
      BY <1>1, <1>5, <2>3, LiveFacts DEF HasSuccessor
<1>7. /\ Good(hbf') /\ Spared(hbf, hbf', s)
      /\ \/ (hbf').rec[s].state = "ended"
         \/ /\ (hbf').rec[s].state \in {"migrating", "gpu_ready", "ssd_ready"}
            /\ (hbf').rec[s].total = FinalTokens(s)
  <2> DEFINE c == CompleteGpuTurn(hbf, s, FinalTokens(s), HasSuccessor(s), start)
  <2>1. ~c.failed
      BY <1>2, <1>4
  <2> QED
      BY <1>1, <1>2, <1>5, <1>6, <2>1, CompleteGpuGood
<1>a. (hbf').rec[s].state # "ended" => Context((hbf').rec[s]) = FinalTokens(s)
    BY <1>7, GoodFacts, ContextFacts
<1>8. NoTurn \in TurnType /\ NoTurn.stage = "none"
    BY DEF NoTurn, TurnType, Stages
<1>9. /\ turn' \in [Session -> TurnType] /\ turn'[s] = NoTurn
      /\ \A t \in Session \ {s} : turn'[t] = turn[t]
    BY <1>1, <1>3, <1>8
<1>10. Fitting(s, turn'[s], offered'[s], (hbf').rec[s])
    BY <1>1, <1>3, <1>7, <1>8, <1>9 DEF Fitting, OnHbf
<1>11. Moves(Shown(s), Showing(s))
    BY <1>1, <1>3, <1>5, <1>6, <1>8, <1>9, <1>a, TurnEnds
<1> QED
    BY <1>1, <1>3, <1>5, <1>7, <1>9, <1>10, <1>11, StepSound

\* What the host does with a context that no call uses.
LEMMA HostSound ==
    ASSUME Sound, ~hbf.failed, NEW s \in Session, ~Live(s), setup' = setup, turn' = turn,
           batch' = batch, offered' = offered, hbf.rec[s].state # "none", hbf.rec[s].state # "ended",
           hbf.rec[s].state # "evicted",
           ~(hbf').failed =>
             /\ Good(hbf') /\ Spared(hbf, hbf', s)
             /\ (hbf').rec[s].state \notin {"gpu_active", "hbf_active", "ended", "none"}
             /\ (hbf').rec[s].state # "evicted" => (hbf').rec[s].total = hbf.rec[s].total
    PROVE  Sound' /\ Served
<1>1. SUFFICES ASSUME ~(hbf').failed PROVE Sound' /\ Served
    BY RaisedSound
<1> QED
    BY <1>1, StepSound, GoodFacts, ContextFacts, StaysIdle, SessionFacts DEF Fitting, OnHbf,
       Running, Live

LEMMA StartMigrationSound ==
    ASSUME Sound, ~hbf.failed, NEW s \in Session, StartMigration(s)
    PROVE  Sound' /\ Served
<1>1. /\ ~Live(s) /\ hbf.rec[s].state = "gpu_ready" /\ hbf' = Migrate(hbf, s, "gpu", TRUE)
      /\ setup' = setup /\ turn' = turn /\ batch' = batch /\ offered' = offered
    BY DEF StartMigration, OnGpu
<1>3. ASSUME ~(hbf').failed
      PROVE  /\ Good(hbf') /\ Spared(hbf, hbf', s)
             /\ (hbf').rec[s].state \notin {"gpu_active", "hbf_active", "ended", "none"}
             /\ (hbf').rec[s].total = hbf.rec[s].total
  <2> DEFINE c == Migrate(hbf, s, "gpu", TRUE)
  <2>2. /\ ~hbf.failed /\ Good(c) /\ Spared(hbf, c, s)
        /\ c.rec[s].state \in {"migrating", "gpu_ready", "ssd_ready"}
        /\ c.rec[s].version = hbf.rec[s].version /\ c.rec[s].total = hbf.rec[s].total
        /\ c.lpddr[Holder(s)] = hbf.lpddr[Holder(s)]
        /\ c.lpddr[Headroom(s)] = hbf.lpddr[Headroom(s)]
      BY <1>1, <1>3, MigrateGood, SessionFacts DEF Media
  <2> QED
      BY <1>1, <2>2
<1> QED
    BY <1>1, <1>3, HostSound

LEMMA StartImportSound ==
    ASSUME Sound, ~hbf.failed, NEW s \in Session, StartImport(s)
    PROVE  Sound' /\ Served
<1>1. /\ ~Live(s) /\ hbf.rec[s].state = "ssd_ready" /\ hbf' = Migrate(hbf, s, "ssd", FALSE)
      /\ setup' = setup /\ turn' = turn /\ batch' = batch /\ offered' = offered
    BY DEF StartImport
<1>3. ASSUME ~(hbf').failed
      PROVE  /\ Good(hbf') /\ Spared(hbf, hbf', s)
             /\ (hbf').rec[s].state \notin {"gpu_active", "hbf_active", "ended", "none"}
             /\ (hbf').rec[s].total = hbf.rec[s].total
  <2> DEFINE c == Migrate(hbf, s, "ssd", FALSE)
  <2>2. /\ ~hbf.failed /\ Good(c) /\ Spared(hbf, c, s)
        /\ c.rec[s].state \in {"migrating", "gpu_ready", "ssd_ready"}
        /\ c.rec[s].version = hbf.rec[s].version /\ c.rec[s].total = hbf.rec[s].total
        /\ c.lpddr[Holder(s)] = hbf.lpddr[Holder(s)]
        /\ c.lpddr[Headroom(s)] = hbf.lpddr[Headroom(s)]
      BY <1>1, <1>3, MigrateGood, SessionFacts DEF Media
  <2> QED
      BY <1>1, <2>2
<1> QED
    BY <1>1, <1>3, HostSound

LEMMA EvictGpuReadySound ==
    ASSUME Sound, ~hbf.failed, NEW s \in Session, EvictGpuReady(s)
    PROVE  Sound' /\ Served
<1>2. RecordTo(hbf, hbf', s, Dropped(hbf.rec[s]))
    BY DEF EvictGpuReady, RecordTo, Dropped
<1> QED
    BY <1>2, HostSound, DropGood, SessionFacts DEF Media, EvictGpuReady, Reclaimable, OnGpu

LEMMA PublishCheckpointSound ==
    ASSUME Sound, ~hbf.failed, NEW s \in Session, PublishCheckpoint(s)
    PROVE  Sound' /\ Served
<1>1. /\ ~Live(s) /\ hbf.rec[s].state = "gpu_ready"
      /\ setup' = setup /\ turn' = turn /\ batch' = batch /\ offered' = offered
    BY DEF PublishCheckpoint, OnGpu
<1>4. ASSUME ~(hbf').failed
      PROVE  /\ Good(hbf') /\ Spared(hbf, hbf', s)
             /\ (hbf').rec[s].state \notin {"gpu_active", "hbf_active", "ended", "none"}
             /\ (hbf').rec[s].total = hbf.rec[s].total
  <2> DEFINE c == Checkpointed(hbf, s)
  <2> QED
      BY <1>1, <1>4, RaiseFails, CheckpointGood, SessionFacts DEF PublishCheckpoint,
         Checkpointed, Good
<1> QED
    BY <1>1, <1>4, HostSound

\* A session whose call goes on, or that waits with the context it had.
LEMMA SameView ==
    ASSUME NEW s \in Session, turn'[s].stage = turn[s].stage, turn'[s].reused = turn[s].reused,
           offered'[s] = offered[s],
           (hbf').rec[s].state = "ended" <=> hbf.rec[s].state = "ended",
           Context((hbf').rec[s]) = Context(hbf.rec[s])
    PROVE  Moves(Shown(s), Showing(s))
<1> QED
    BY DEF Shown, Showing, Moves, View

\* The callback of a migration or an append.
LEMMA RefreshedType ==
    ASSUME turn \in [Session -> TurnType], NEW b, Typed(b)
    PROVE  /\ Refreshed(b) \in [Session -> TurnType]
           /\ \A s \in Session :
                LET u == Refreshed(b)[s] IN
                /\ u.stage = turn[s].stage /\ u.reused = turn[s].reused /\ u.done = turn[s].done
                /\ u.generated = turn[s].generated /\ u.published = turn[s].published
                /\ setup.refresh /\ turn[s].stage \in OnHbf => u.hbf = b.rec[s].committed
                /\ b.rec[s].committed = turn[s].hbf => u = turn[s]
                /\ turn[s].stage \notin OnHbf => u = turn[s]
<1> DEFINE Kept1(u, s) ==
             /\ u.stage = turn[s].stage /\ u.reused = turn[s].reused /\ u.done = turn[s].done
             /\ u.generated = turn[s].generated /\ u.published = turn[s].published
             /\ setup.refresh /\ turn[s].stage \in OnHbf => u.hbf = b.rec[s].committed
             /\ b.rec[s].committed = turn[s].hbf => u = turn[s]
             /\ turn[s].stage \notin OnHbf => u = turn[s]
<1> SUFFICES ASSUME NEW s \in Session
             PROVE  /\ (IF setup.refresh /\ turn[s].stage \in OnHbf
                        THEN [turn[s] EXCEPT !.hbf = b.rec[s].committed] ELSE turn[s]) \in TurnType
                    /\ Kept1(Refreshed(b)[s], s)
    BY DEF Refreshed
<1> DEFINE t == turn[s]
           n == b.rec[s].committed
<1>2. t \in TurnType /\ n \in Nat
    BY Typing, RecordTyping
<1> SUFFICES /\ (IF setup.refresh /\ t.stage \in OnHbf THEN [t EXCEPT !.hbf = n] ELSE t) \in TurnType
             /\ LET u == IF setup.refresh /\ t.stage \in OnHbf THEN [t EXCEPT !.hbf = n] ELSE t IN
                /\ u.stage = t.stage /\ u.reused = t.reused /\ u.done = t.done
                /\ u.generated = t.generated /\ u.published = t.published
                /\ setup.refresh /\ t.stage \in OnHbf => u.hbf = n
                /\ n = t.hbf => u = t
                /\ t.stage \notin OnHbf => u = t
    BY DEF Refreshed
<1> HIDE DEF t, n
<1> QED
    BY <1>2 DEF TurnType

\* What the callback of a job comes to when no check of it fails.
LEMMA FinishCases ==
    ASSUME Sound, ~hbf.failed, NEW j \in hbf.jobs, Finish(j), ~(hbf').failed
    PROVE  LET s == j.session
               b == FinishJob(hbf, j)
               r == Refreshed(b)
               k == Call(s).input IN
           /\ s \in Session /\ setup' = setup /\ batch' = batch /\ offered' = offered
           /\ Typed(b) /\ ~b.failed
           /\ hbf.rec[s].state = "hbf_active" =>
                /\ b.rec[s].state = "hbf_active" /\ b.rec[s].group = hbf.rec[s].group
                /\ b.rec[s].total = hbf.rec[s].total
                /\ b.rec[s].committed + b.rec[s].lpddr = hbf.rec[s].total
           /\ r \in [Session -> TurnType]
           /\ \A t \in Session :
                /\ r[t].stage = turn[t].stage /\ r[t].reused = turn[t].reused /\ r[t].done = turn[t].done
                /\ r[t].generated = turn[t].generated /\ r[t].published = turn[t].published
                /\ setup.refresh /\ turn[t].stage \in OnHbf => r[t].hbf = b.rec[t].committed
           /\ \A t \in Session \ {s} : r[t] = turn[t]
           /\ ResumesGate(r[s]) =>
                /\ turn[s].stage \in {"bound", "waiting"} /\ turn[s].stage \notin Running
                /\ turn[s].stage \in Gated /\ turn[s].stage # "none"
                /\ setup.tail >= 0 /\ k \in Nat /\ hbf.rec[s].total <= k
                /\ hbf.rec[s].state = "hbf_active" /\ Progressed(r[s], Call(s))
                /\ offered[s] >= 1 /\ offered[s] <= Len(setup.script[s])
                /\ Call(s) = setup.script[s][offered[s]] /\ r[s].reused <= k
           /\ \/ /\ ResumesGate(r[s])
                 /\ hbf' = b /\ turn' = [r EXCEPT ![s].stage = "decode"]
              \/ /\ ResumesGate(r[s])
                 /\ hbf' = Drain(b, s, k) /\ turn' = [r EXCEPT ![s] = AfterDrain(r[s], b, s)]
              \/ hbf' = b /\ turn' = r
<1> DEFINE s == j.session
           b == FinishJob(hbf, j)
           r == Refreshed(b)
           k == Call(s).input
<1>1. /\ setup \in Setups /\ Good(hbf) /\ Staged /\ Typed(hbf)
      /\ turn \in [Session -> TurnType] /\ offered \in [Session -> Nat]
    BY DEF Sound, Staged, Good
<1>2. s \in Session
    BY <1>1, Typing, JobTyping
<1>3. /\ hbf.rec[s] \in RecordType /\ Place(hbf.rec[s]) /\ turn[s] \in TurnType
      /\ Fitting(s, turn[s], offered[s], hbf.rec[s]) /\ offered[s] \in Nat
    BY <1>2, SessionFacts
<1>5. \/ hbf' = Raise(b)
      \/ /\ ResumesGate(r[s])
         /\ hbf' = b /\ turn' = [r EXCEPT ![s].stage = "decode"]
      \/ /\ ResumesGate(r[s])
         /\ hbf' = Drain(b, s, k) /\ turn' = [r EXCEPT ![s] = AfterDrain(r[s], b, s)]
      \/ hbf' = b /\ turn' = r
    BY Zenon DEF Finish
<1>6. ~(hbf').failed
    OBVIOUS
<1>7. /\ Typed(b)
      /\ hbf.rec[s].state = "hbf_active" =>
           /\ b.rec[s].state = "hbf_active" /\ b.rec[s].group = hbf.rec[s].group
           /\ b.rec[s].total = hbf.rec[s].total
           /\ b.rec[s].committed + b.rec[s].lpddr = hbf.rec[s].total
    BY <1>1, FinishKeeps
<1> HIDE DEF b
<1>8. /\ r \in [Session -> TurnType]
      /\ \A t \in Session :
           /\ r[t].stage = turn[t].stage /\ r[t].reused = turn[t].reused /\ r[t].done = turn[t].done
           /\ r[t].generated = turn[t].generated /\ r[t].published = turn[t].published
           /\ setup.refresh /\ turn[t].stage \in OnHbf => r[t].hbf = b.rec[t].committed
           /\ b.rec[t].committed = turn[t].hbf => r[t] = turn[t]
           /\ turn[t].stage \notin OnHbf => r[t] = turn[t]
    BY <1>1, <1>7, RefreshedType
<1>b. ~setup.refresh => \A t \in Session : r[t] = turn[t]
    BY DEF Refreshed
<1> HIDE DEF r
<1>9. ResumesGate(r[s]) => /\ turn[s].stage \in {"bound", "waiting"} /\ turn[s].stage \notin Running
                           /\ turn[s].stage \in Gated /\ turn[s].stage # "none"
                           /\ setup.tail >= 0 /\ k \in Nat /\ hbf.rec[s].total <= k
                           /\ hbf.rec[s].state = "hbf_active" /\ Progressed(r[s], Call(s))
                           /\ offered[s] >= 1 /\ offered[s] <= Len(setup.script[s])
                           /\ Call(s) = setup.script[s][offered[s]] /\ r[s].reused <= k
  <2> SUFFICES ASSUME ResumesGate(r[s])
               PROVE  /\ turn[s].stage \in {"bound", "waiting"} /\ turn[s].stage \notin Running
                      /\ turn[s].stage \in Gated /\ turn[s].stage # "none"
                      /\ setup.tail >= 0 /\ k \in Nat /\ hbf.rec[s].total <= k
                      /\ hbf.rec[s].state = "hbf_active" /\ Progressed(r[s], Call(s))
                      /\ offered[s] >= 1 /\ offered[s] <= Len(setup.script[s])
                      /\ Call(s) = setup.script[s][offered[s]] /\ r[s].reused <= k
      OBVIOUS
  <2> QED
      BY <1>2, <1>3, <1>8, LiveFacts DEF Fitting, Live, Progressed, OnHbf, Running, Gated,
         ResumesGate
<1>10. ~b.failed
  <2>1. CASE hbf' = Raise(b)
      BY <1>6, <1>7, <2>1, RaiseFails
  <2>2. CASE hbf' = b
      BY <1>6, <2>2
  <2>3. CASE ResumesGate(r[s]) /\ hbf' = Drain(b, s, k)
      BY <1>1, <1>2, <1>3, <1>6, <1>7, <1>9, <2>3, DrainFails DEF Place, Media
  <2> QED
      BY <1>5, <2>1, <2>2, <2>3
<1>11. /\ Good(b) /\ Spared(hbf, b, s)
       /\ \/ b.rec[s] = hbf.rec[s]
          \/ hbf.rec[s].state = "migrating" /\ b.rec[s] = Migrated(hbf.rec[s], j.count)
          \/ /\ hbf.rec[s].state \in Media /\ j.count <= hbf.rec[s].lpddr
             /\ b.rec[s] = Appended(hbf.rec[s], j.count)
    BY <1>1, <1>10, FinishJobGood DEF b
<1>e. \A t \in Session \ {s} : r[t] = turn[t]
  <2> TAKE t \in Session \ {s}
  <2>1. CASE setup.refresh /\ turn[t].stage \in OnHbf
      BY <1>1, <1>2, <1>8, <1>11, <2>1, SessionFacts, OthersFit DEF Fitting, Placed
  <2> QED
      BY <1>8, <1>b, <2>1
<1>c. \A t \in Session :
        /\ r[t].stage = turn[t].stage /\ r[t].reused = turn[t].reused /\ r[t].done = turn[t].done
        /\ r[t].generated = turn[t].generated /\ r[t].published = turn[t].published
        /\ setup.refresh /\ turn[t].stage \in OnHbf => r[t].hbf = b.rec[t].committed
    BY <1>8
<1>d. r \in [Session -> TurnType] /\ k = Call(s).input
    BY <1>8
<1> HIDE DEF k, s
<1>f. /\ s \in Session /\ setup' = setup /\ batch' = batch /\ offered' = offered
      /\ Typed(b) /\ ~b.failed
    BY <1>2, <1>7, <1>10 DEF Finish
<1>g. hbf.rec[s].state = "hbf_active" =>
           /\ b.rec[s].state = "hbf_active" /\ b.rec[s].group = hbf.rec[s].group
           /\ b.rec[s].total = hbf.rec[s].total
           /\ b.rec[s].committed + b.rec[s].lpddr = hbf.rec[s].total
    BY Zenon, <1>7
<1>h. ResumesGate(r[s]) =>
           /\ turn[s].stage \in {"bound", "waiting"} /\ turn[s].stage \notin Running
           /\ turn[s].stage \in Gated /\ turn[s].stage # "none"
           /\ setup.tail >= 0 /\ k \in Nat /\ hbf.rec[s].total <= k
           /\ hbf.rec[s].state = "hbf_active" /\ Progressed(r[s], Call(s))
           /\ offered[s] >= 1 /\ offered[s] <= Len(setup.script[s])
           /\ Call(s) = setup.script[s][offered[s]] /\ r[s].reused <= k
    BY Zenon, <1>9
<1>i. \/ /\ ResumesGate(r[s])
         /\ hbf' = b /\ turn' = [r EXCEPT ![s].stage = "decode"]
      \/ /\ ResumesGate(r[s])
         /\ hbf' = Drain(b, s, k) /\ turn' = [r EXCEPT ![s] = AfterDrain(r[s], b, s)]
      \/ hbf' = b /\ turn' = r
    BY <1>5, <1>6, <1>7, Zenon, RaiseFails
<1> QED
    BY Zenon, <1>f, <1>g, <1>h, <1>i, <1>c, <1>d, <1>e DEF b, r, k, s

LEMMA FinishSound ==
    ASSUME Sound, ~hbf.failed, NEW j \in hbf.jobs, Finish(j)
    PROVE  Sound' /\ Served
<1> DEFINE s == j.session
           b == FinishJob(hbf, j)
           r == Refreshed(b)
           k == Call(s).input
<1>1. /\ setup \in Setups /\ Good(hbf) /\ Staged /\ Typed(hbf)
      /\ turn \in [Session -> TurnType] /\ offered \in [Session -> Nat]
    BY DEF Sound, Staged, Good
<1>2. s \in Session
    BY <1>1, Typing, JobTyping
<1>3. /\ hbf.rec[s] \in RecordType /\ Place(hbf.rec[s]) /\ turn[s] \in TurnType
      /\ Fitting(s, turn[s], offered[s], hbf.rec[s]) /\ offered[s] \in Nat
    BY <1>2, SessionFacts
<1>4. setup' = setup
    BY DEF Finish
<1>6. SUFFICES ASSUME ~(hbf').failed PROVE Sound' /\ Served
    BY <1>4, RaisedSound
<1>5. /\ s \in Session /\ setup' = setup /\ batch' = batch /\ offered' = offered
      /\ Typed(b) /\ ~b.failed
      /\ hbf.rec[s].state = "hbf_active" =>
           /\ b.rec[s].state = "hbf_active" /\ b.rec[s].group = hbf.rec[s].group
           /\ b.rec[s].total = hbf.rec[s].total
           /\ b.rec[s].committed + b.rec[s].lpddr = hbf.rec[s].total
      /\ r \in [Session -> TurnType]
      /\ \A t \in Session :
           /\ r[t].stage = turn[t].stage /\ r[t].reused = turn[t].reused /\ r[t].done = turn[t].done
           /\ r[t].generated = turn[t].generated /\ r[t].published = turn[t].published
           /\ setup.refresh /\ turn[t].stage \in OnHbf => r[t].hbf = b.rec[t].committed
      /\ \A t \in Session \ {s} : r[t] = turn[t]
      /\ ResumesGate(r[s]) =>
           /\ turn[s].stage \in {"bound", "waiting"} /\ turn[s].stage \notin Running
           /\ turn[s].stage \in Gated /\ turn[s].stage # "none"
           /\ setup.tail >= 0 /\ k \in Nat /\ hbf.rec[s].total <= k
           /\ hbf.rec[s].state = "hbf_active" /\ Progressed(r[s], Call(s))
           /\ offered[s] >= 1 /\ offered[s] <= Len(setup.script[s])
           /\ Call(s) = setup.script[s][offered[s]] /\ r[s].reused <= k
      /\ \/ /\ ResumesGate(r[s])
            /\ hbf' = b /\ turn' = [r EXCEPT ![s].stage = "decode"]
         \/ /\ ResumesGate(r[s])
            /\ hbf' = Drain(b, s, k) /\ turn' = [r EXCEPT ![s] = AfterDrain(r[s], b, s)]
         \/ hbf' = b /\ turn' = r
    BY <1>6, FinishCases
<1> HIDE DEF b, r
<1>11. /\ Good(b) /\ Spared(hbf, b, s)
       /\ \/ b.rec[s] = hbf.rec[s]
          \/ hbf.rec[s].state = "migrating" /\ b.rec[s] = Migrated(hbf.rec[s], j.count)
          \/ /\ hbf.rec[s].state \in Media /\ j.count <= hbf.rec[s].lpddr
             /\ b.rec[s] = Appended(hbf.rec[s], j.count)
    BY <1>1, <1>5, FinishJobGood DEF b
<1>12. j.count \in Nat
    BY <1>1, Typing, JobTyping
<1>c. /\ b.rec[s].total = hbf.rec[s].total
      /\ \/ b.rec[s].state = hbf.rec[s].state
         \/ hbf.rec[s].state = "migrating" /\ b.rec[s].state = "hbf_ready"
  <2>1. CASE b.rec[s] = hbf.rec[s]
      BY <2>1
  <2>2. CASE hbf.rec[s].state = "migrating" /\ b.rec[s] = Migrated(hbf.rec[s], j.count)
      BY <1>3, <1>12, <2>2, MigratedType
  <2>3. CASE j.count <= hbf.rec[s].lpddr /\ b.rec[s] = Appended(hbf.rec[s], j.count)
      BY <1>3, <1>12, <2>3, AppendedType
  <2> QED
      BY <1>11, <2>1, <2>2, <2>3
<1>d. /\ Context(b.rec[s]) = Context(hbf.rec[s])
      /\ b.rec[s].state = "ended" <=> hbf.rec[s].state = "ended"
    BY <1>5, <1>3, <1>11, <1>c, GoodFacts, ContextFacts
<1>13. Fitting(s, r[s], offered[s], b.rec[s])
    BY <1>3, <1>5, <1>c DEF Fitting, Placed, Progressed
<1>14. CASE hbf' = b /\ turn' = r
  <2>1. /\ turn'[s].stage = turn[s].stage /\ turn'[s].reused = turn[s].reused
        /\ turn'[s].done = turn[s].done /\ \A t \in Session \ {s} : turn'[t] = turn[t]
      BY <1>5, <1>14
  <2>2. Fitting(s, turn'[s], offered'[s], (hbf').rec[s])
      BY <1>5, <1>13, <1>14
  <2>3. turn[s].stage \in Running => SameWork(s)
      BY <1>3, <1>5, <1>14, <2>1 DEF Fitting, Running, OnHbf, SameWork
  <2>4. turn' \in [Session -> TurnType] /\ Good(hbf') /\ Spared(hbf, hbf', s)
        /\ offered' \in [Session -> Nat]
      BY <1>1, <1>5, <1>11, <1>14
  <2>5. Moves(Shown(s), Showing(s))
      BY <1>5, <1>14, <1>d, <2>1, SameView
  <2> QED
      BY <1>5, <2>1, <2>2, <2>3, <2>4, <2>5, StepSound
<1>15. CASE ResumesGate(r[s]) /\ hbf' = b /\ turn' = [r EXCEPT ![s].stage = "decode"]
  <2> DEFINE v == r[s]
             u == [v EXCEPT !.stage = "decode"]
  <2>0. v \in TurnType
      BY <1>5
  <2>1. /\ u \in TurnType /\ u.stage = "decode" /\ u.reused = v.reused /\ u.done = v.done
        /\ u.generated = v.generated /\ u.hbf = v.hbf /\ u.published = v.published
    <3> HIDE DEF v
    <3> QED
        BY <2>0 DEF TurnType, Stages, OnHbf
  <2>2. /\ turn' \in [Session -> TurnType] /\ turn'[s] = u
        /\ \A t \in Session \ {s} : turn'[t] = turn[t]
    <3>1. turn' = [r EXCEPT ![s] = u]
        BY <1>15
    <3> HIDE DEF u
    <3> QED
        BY <1>5, <2>1, <3>1
  <2> HIDE DEF u
  <2>3. Fitting(s, u, offered[s], b.rec[s])
    <3>1. v.stage \in Gated /\ v.stage \in OnHbf /\ v.stage # "none" /\ Progressed(v, setup.script[s][offered[s]])
        BY <1>5, <1>15 DEF Gated, OnHbf
    <3>2. Fitting(s, v, offered[s], b.rec[s])
        BY <1>13
    <3> HIDE DEF v
    <3> QED
        BY <2>1, <3>1, <3>2 DEF Fitting, OnHbf, Gated, Progressed, Placed
  <2>4. Good(hbf') /\ Spared(hbf, hbf', s) /\ offered' \in [Session -> Nat]
      BY <1>1, <1>5, <1>11, <1>15
  <2>5. Moves(Shown(s), Showing(s))
      BY <1>5, <1>15, <1>d, <2>1, <2>2, StaysBusy
  <2> QED
      BY <1>5, <1>15, <2>2, <2>3, <2>4, <2>5, StepSound
<1>16. CASE ResumesGate(r[s]) /\ hbf' = Drain(b, s, k) /\ turn' = [r EXCEPT ![s] = AfterDrain(r[s], b, s)]
  <2>1. /\ b.rec[s].state = "hbf_active" /\ b.rec[s].total <= k /\ k \in Nat /\ setup.tail >= 0
        /\ b.rec[s] \in RecordType
      BY <1>5, <1>16, Typing
  <2> DEFINE n == b.rec[s].lpddr + k - b.rec[s].total
             q == (hbf').rec[s]
  <2>2. /\ Good(hbf') /\ Spared(b, hbf', s) /\ q = Adopted(b.rec[s], k, n)
      BY <1>1, <1>5, <1>6, <1>11, <1>16, <2>1, DrainGood
  <2>3. q.state = "hbf_active" /\ q.total = k /\ q \in RecordType /\ Place(q)
      BY <1>5, <2>1, <2>2, AdoptedTotal, GoodFacts
  <2>4. Spared(hbf, hbf', s)
      BY <1>1, <1>5, <1>11, <2>2, SparedTwice, Typing
  <2>5. /\ AfterDrain(r[s], b, s) \in TurnType
        /\ AfterDrain(r[s], b, s).stage \in {"waiting", "bound", "decode"}
        /\ AfterDrain(r[s], b, s).reused = r[s].reused
      BY <1>5, <1>16, <2>3, AfterDrainType
  <2> DEFINE u == AfterDrain(r[s], b, s)
  <2>6. /\ turn' \in [Session -> TurnType] /\ turn'[s] = u
        /\ \A t \in Session \ {s} : turn'[t] = turn[t]
    <3>1. u \in TurnType /\ turn' = [r EXCEPT ![s] = u]
        BY <1>16, <2>5
    <3> HIDE DEF u
    <3> QED
        BY <1>5, <3>1
  <2>7. Fitting(s, u, offered[s], q)
      BY <1>5, <1>16, <2>3, DrainedFits
  <2> HIDE DEF u
  <2>8. offered' \in [Session -> Nat] /\ Fitting(s, turn'[s], offered'[s], (hbf').rec[s])
      BY <1>1, <1>5, <2>6, <2>7
  <2>9. Moves(Shown(s), Showing(s))
      BY <1>5, <1>16, <2>3, <2>5, <2>6, StaysBusy DEF u
  <2> QED
      BY <1>5, <1>16, <2>2, <2>4, <2>6, <2>8, <2>9, StepSound
<1> QED
    BY <1>5, <1>14, <1>15, <1>16

-----------------------------------------------------------------------------
(* Batches.                                                                *)

LEMMA StripeWide ==
    ASSUME NEW a \in Nat, NEW n \in Int
    PROVE  Stripe(a, n) \in Counts
<1> SUFFICES ASSUME NEW c \in Card
             PROVE  Cardinality({p \in a..(a + n - 1) : p % Tp = c}) \in Nat
    BY DEF Stripe, Counts
<1>1. IsFiniteSet(a..(a + n - 1))
    BY FS_Interval
<1> QED
    BY <1>1, FS_CardinalityType, FS_Subset

LEMMA MaterializedType ==
    ASSUME NEW t \in TurnType
    PROVE  /\ Materialized(t) \in Nat /\ t.reused + t.done <= Materialized(t)
           /\ t.generated = 0 => Materialized(t) = t.reused + t.done
           /\ t.generated >= 1 => Materialized(t) = t.reused + t.done + t.generated - 1
<1>1. t.reused \in Nat /\ t.done \in Nat /\ t.generated \in Nat
    BY TurnTyping
<1> DEFINE m == Max({0, t.generated - 1})
<1>2. m \in {0, t.generated - 1} /\ m >= 0 /\ m >= t.generated - 1
  <2>1. 0 \in Int /\ t.generated - 1 \in Int
      BY <1>1
  <2> QED
      BY <2>1, LesserFacts
<1>3. Materialized(t) = t.reused + t.done + m
    BY DEF Materialized
<1> HIDE DEF m
<1> QED
    BY <1>1, <1>2, <1>3

LEMMA BatchFacts ==
    ASSUME Sound, ~hbf.failed, NEW g \in Group, NEW s \in DOMAIN batch[g]
    PROVE  /\ s \in Session /\ batch[g][s] \in Grants(s) /\ turn[s].stage \in Running
           /\ hbf.rec[s].group = g /\ turn[s] \in TurnType /\ Live(s)
           /\ hbf.rec[s].state = "hbf_active" /\ turn[s].stage \in OnHbf
<1> QED
    BY SessionFacts DEF Fitting, Running, OnHbf, Live, Sound, Staged, Launched

\* A decode is granted its token, a prefill at most what is left of its prompt.
LEMMA GrantFacts ==
    ASSUME Sound, ~hbf.failed, NEW s \in Session, turn[s].stage \in Running, NEW n \in Grants(s)
    PROVE  /\ n \in Nat /\ (turn[s].stage = "decode" => n = 1)
           /\ Remaining(s) = Call(s).input - turn[s].reused - turn[s].done
           /\ turn[s].stage = "prefill" => Remaining(s) \in Nat /\ n <= Remaining(s)
<1>1. /\ turn[s] \in TurnType /\ turn[s].reused \in Nat /\ turn[s].done \in Nat /\ setup \in Setups
      /\ setup.chunk \in Nat \ {0}
    BY SessionFacts, TurnTyping, SetupFacts
<1>4. Remaining(s) = Call(s).input - turn[s].reused - turn[s].done /\ Remaining(s) \in Nat
    BY <1>1, LiveFacts DEF Remaining, Live, OnHbf, Running
<1>5. CASE turn[s].stage = "decode"
    BY <1>4, <1>5 DEF Grants
<1>6. CASE turn[s].stage # "decode" /\ Remaining(s) = 0
    BY <1>4, <1>6 DEF Grants
<1>7. CASE turn[s].stage # "decode" /\ Remaining(s) # 0
  <2> DEFINE m == Min({Remaining(s), setup.chunk})
  <2>1. m \in Nat /\ m <= Remaining(s)
    <3>1. Remaining(s) \in Int /\ setup.chunk \in Int
        BY <1>1, <1>4
    <3> QED
        BY <1>1, <1>4, <3>1, LesserFacts
  <2>2. n \in 1..m
      BY <1>7 DEF Grants
  <2> HIDE DEF m
  <2> QED
      BY <1>4, <1>7, <2>1, <2>2
<1> QED
    BY <1>5, <1>6, <1>7

LEMMA LaunchSound ==
    ASSUME Sound, ~hbf.failed, NEW g \in Group, Launch(g)
    PROVE  Sound' /\ Served
<1>1. /\ setup \in Setups /\ Good(hbf) /\ Staged
      /\ turn \in [Session -> TurnType] /\ offered \in [Session -> Nat]
      /\ Typed(hbf) /\ DOMAIN batch = Group
      /\ \A s \in Session : Fitting(s, turn[s], offered[s], hbf.rec[s])
    BY DEF Sound, Staged, Good
<1>a. PICK S \in SUBSET Runnable(g) \ {{}} : \E items \in [S -> 0..setup.chunk] :
        /\ \A s \in S : items[s] \in Grants(s)
        /\ batch' = [batch EXCEPT ![g] = items]
        /\ hbf' = IF \E s \in S : Disagrees(s) THEN Raise(hbf) ELSE hbf
        /\ turn' = [s \in Session |-> IF s \in S THEN Copied(turn[s], hbf.rec[s]) ELSE turn[s]]
    BY Zenon DEF Launch
<1>2. PICK items \in [S -> 0..setup.chunk] :
        /\ \A s \in S : items[s] \in Grants(s)
        /\ batch' = [batch EXCEPT ![g] = items]
        /\ hbf' = IF \E s \in S : Disagrees(s) THEN Raise(hbf) ELSE hbf
        /\ turn' = [s \in Session |-> IF s \in S THEN Copied(turn[s], hbf.rec[s]) ELSE turn[s]]
    BY Zenon, <1>a
<1>3. setup' = setup /\ offered' = offered
    BY DEF Launch
<1>4. SUFFICES ASSUME ~(hbf').failed PROVE Sound' /\ Served
    BY <1>3, RaisedSound
<1>5. hbf' = hbf
    BY <1>1, <1>2, <1>4, RaiseFails
<1>b. \A s \in S : s \in Session /\ turn[s].stage \in Running /\ hbf.rec[s].group = g
    BY DEF Runnable, Running
<1>6. /\ turn' \in [Session -> TurnType]
      /\ \A s \in Session :
           /\ turn'[s].stage = turn[s].stage /\ turn'[s].reused = turn[s].reused
           /\ turn'[s].done = turn[s].done
           /\ Fitting(s, turn'[s], offered'[s], (hbf').rec[s])
  <2>1. \A s \in Session :
          LET u == Copied(turn[s], hbf.rec[s]) IN
          /\ turn[s] \in TurnType /\ u \in TurnType
          /\ u.stage = turn[s].stage /\ u.reused = turn[s].reused /\ u.done = turn[s].done
          /\ u.generated = turn[s].generated /\ u.hbf = hbf.rec[s].committed
          /\ u.published = hbf.rec[s].committed + hbf.rec[s].lpddr
      BY <1>1, GoodFacts, CopiedType
  <2>3. ASSUME NEW s \in Session
        PROVE  /\ turn'[s].stage = turn[s].stage /\ turn'[s].reused = turn[s].reused
               /\ turn'[s].done = turn[s].done
               /\ Fitting(s, turn'[s], offered'[s], (hbf').rec[s])
    <3>1. CASE s \in S
      <4> DEFINE u == Copied(turn[s], hbf.rec[s])
                 r == hbf.rec[s]
                 n == offered[s]
      <4>1. /\ turn'[s] = u /\ offered'[s] = n /\ (hbf').rec[s] = r
          BY <1>2, <1>3, <1>5, <3>1
      <4>2. /\ u.stage = turn[s].stage /\ u.reused = turn[s].reused /\ u.done = turn[s].done
            /\ u.generated = turn[s].generated /\ u.hbf = r.committed
            /\ u.published = r.committed + r.lpddr
          BY <2>1
      <4>3. Fitting(s, turn[s], n, r) /\ turn[s].stage \in OnHbf
          BY <1>1, <1>b, <3>1 DEF Running, OnHbf
      <4>4. r.committed + r.lpddr = r.total
          BY <1>1, <4>3, GoodFacts DEF Fitting, Place, Media
      <4> HIDE DEF u, r, n
      <4> QED
          BY <4>1, <4>2, <4>3, <4>4 DEF Fitting, Placed, Progressed
    <3>2. CASE s \notin S
        BY <1>1, <1>2, <1>3, <1>5, <3>2
    <3> QED
        BY <3>1, <3>2
  <2> QED
      BY <1>2, <2>1, <2>3
<1>8. \A h \in Group : \A s \in DOMAIN batch'[h] : Launched(h, s)'
  <2> SUFFICES ASSUME NEW h \in Group, NEW s \in DOMAIN batch'[h]
               PROVE  /\ s \in Session /\ batch'[h][s] \in Grants(s)
                      /\ turn'[s].stage \in Running /\ (hbf').rec[s].group = h
      BY <1>3, <1>6, GrantsKept DEF Launched
  <2>1. CASE h = g
      BY <1>1, <1>2, <1>5, <1>6, <1>b, <2>1
  <2>2. CASE h # g
      BY <1>1, <1>2, <1>5, <1>6, <2>2, BatchFacts
  <2> QED
      BY <2>1, <2>2
<1>9. Group' = Group
    BY <1>3 DEF Group
<1>11. Staged'
    BY <1>1, <1>2, <1>3, <1>6, <1>8, <1>9, FittingPrimed DEF Staged, TurnType
<1> QED
    BY <1>1, <1>3, <1>5, <1>6, <1>11, SameView, GoodPrimed DEF Sound, Served

\* The token boundary: how far it takes a turn.
LEMMA ProgressType ==
    ASSUME NEW s, turn[s] \in TurnType, NEW n \in Nat
    PROVE  LET t == turn[s]
               u == Progress(s, n)
               token == t.stage = "decode" \/ Remaining(s) = n IN
           /\ u \in TurnType /\ u.reused = t.reused /\ u.hbf = t.hbf /\ u.published = t.published
           /\ u.done = t.done + (IF t.stage = "prefill" THEN n ELSE 0)
           /\ u.generated = t.generated + (IF token THEN 1 ELSE 0)
           /\ u.stage \in {"complete", "prefill", "gate", "decode"}
           /\ u.stage = "complete" <=> u.generated = Call(s).output
           /\ u.stage # "complete" => (u.stage = "prefill" <=> ~token)
           /\ u.stage = "gate" => setup.tail >= 0 /\ t.stage = "prefill"
<1> DEFINE t == turn[s]
           token == t.stage = "decode" \/ Remaining(s) = n
           x == IF t.stage = "prefill" THEN n ELSE 0
           y == IF token THEN 1 ELSE 0
           u == [t EXCEPT !.done = @ + x, !.generated = @ + y]
           st == IF u.generated = Call(s).output THEN "complete"
                 ELSE IF ~token THEN "prefill"
                 ELSE IF t.stage = "prefill" /\ Gates(u) THEN "gate" ELSE "decode"
           z == [u EXCEPT !.stage = st]
<1>1. Progress(s, n) = z
    BY DEF Progress
<1>2. x \in Nat /\ y \in Nat
    OBVIOUS
<1>3. /\ u \in TurnType /\ u.reused = t.reused /\ u.hbf = t.hbf /\ u.published = t.published
      /\ u.done = t.done + x /\ u.generated = t.generated + y
  <2>1. t \in TurnType /\ t.done \in Nat /\ t.generated \in Nat
      BY TurnTyping
  <2> HIDE DEF x, y, t
  <2> DEFINE v == t.done + x
             w == t.generated + y
  <2>2. v \in Nat /\ w \in Nat
      BY <1>2, <2>1
  <2>3. u = [[t EXCEPT !.done = v] EXCEPT !.generated = w]
      OBVIOUS
  <2> HIDE DEF v, w, u
  <2> QED
      BY <2>1, <2>2, <2>3 DEF v, w, TurnType
<1>4. /\ st \in {"complete", "prefill", "gate", "decode"}
      /\ st = "gate" => Gates(u) /\ t.stage = "prefill"
      /\ st = "complete" <=> u.generated = Call(s).output
      /\ st # "complete" => (st = "prefill" <=> ~token)
  <2> HIDE DEF u, token
  <2> QED
      OBVIOUS
<1> HIDE DEF st, u
<1>5. /\ z \in TurnType /\ z.stage = st /\ z.reused = u.reused /\ z.hbf = u.hbf
      /\ z.published = u.published /\ z.done = u.done /\ z.generated = u.generated
    BY <1>3, <1>4 DEF TurnType, Stages, OnHbf
<1> HIDE DEF z
<1> QED
    BY <1>1, <1>3, <1>4, <1>5 DEF Gates

LEMMA ProgressFits ==
    ASSUME Sound, ~hbf.failed, NEW s \in Session, turn[s].stage \in Running, NEW n \in Grants(s)
    PROVE  Fitting(s, Progress(s, n), offered[s], hbf.rec[s])
<1> DEFINE t == turn[s]
           u == Progress(s, n)
           r == hbf.rec[s]
           call == Call(s)
           token == t.stage = "decode" \/ Remaining(s) = n
<1>1. /\ t \in TurnType /\ t.reused \in Nat /\ t.done \in Nat /\ t.generated \in Nat
      /\ Fitting(s, t, offered[s], r) /\ r.total \in Nat
    BY SessionFacts, TurnTyping, RecordTyping
<1>2. Live(s) /\ t.stage \in OnHbf
    BY DEF Live, OnHbf, Running
<1>3. /\ call.input \in Nat /\ call.output \in Nat \ {0} /\ call = setup.script[s][offered[s]]
      /\ Placed(t, r) /\ Progressed(t, call)
    BY <1>2, LiveFacts
<1>4. /\ n \in Nat /\ (t.stage = "decode" => n = 1)
      /\ Remaining(s) = call.input - t.reused - t.done
      /\ t.stage = "prefill" => Remaining(s) \in Nat /\ n <= Remaining(s)
    BY GrantFacts
<1>5. /\ u \in TurnType /\ u.reused = t.reused /\ u.hbf = t.hbf /\ u.published = t.published
      /\ u.done = t.done + (IF t.stage = "prefill" THEN n ELSE 0)
      /\ u.generated = t.generated + (IF token THEN 1 ELSE 0)
      /\ u.stage \in {"complete", "prefill", "gate", "decode"}
      /\ u.stage = "complete" <=> u.generated = call.output
      /\ u.stage # "complete" => (u.stage = "prefill" <=> ~token)
      /\ u.stage = "gate" => setup.tail >= 0 /\ t.stage = "prefill"
    BY <1>1, <1>4, ProgressType
<1>6. t.stage \in {"prefill", "decode"}
    BY DEF Running
<1> HIDE DEF t, u, r, call
<1>8. Placed(u, r)
    BY <1>1, <1>3, <1>4, <1>5 DEF Placed
<1>9. Progressed(u, call)
  <2>1. CASE t.stage = "decode"
      BY <1>1, <1>3, <1>5, <2>1 DEF Progressed, Gated
  <2>2. CASE t.stage = "prefill" /\ Remaining(s) = n
      BY <1>1, <1>3, <1>4, <1>5, <2>2 DEF Progressed, Gated
  <2>3. CASE t.stage = "prefill" /\ Remaining(s) # n
      BY <1>1, <1>3, <1>4, <1>5, <2>3 DEF Progressed, Gated
  <2> QED
      BY <1>6, <2>1, <2>2, <2>3
<1>10. t.stage \in OnHbf
    BY <1>2
<1> QED
    BY <1>1, <1>3, <1>5, <1>8, <1>9, <1>10 DEF Fitting, OnHbf, t, u, r

\* _commit_lpddr_growth moves bytes of LPDDR, and nothing else.
Moved(g, items) ==
  [o \in Owner |-> LET s == o[2] IN
     IF ~(s \in DOMAIN items /\ items[s] > 0) THEN hbf.lpddr[o]
     ELSE Entry(g, IF o = Holder(s) THEN Grown(s, items[s]) ELSE Left(s, items[s]))]
LEMMA CommitFacts ==
    ASSUME Sound, ~hbf.failed, NEW g \in Group, ~Commit(g, batch[g]).failed
    PROVE  LET c == Commit(g, batch[g]) IN
           /\ Typed(c) /\ c.failed = hbf.failed /\ c.rec = hbf.rec /\ c.lru = hbf.lru
           /\ c.jobs = hbf.jobs /\ c.reserved = hbf.reserved /\ c.lpddr = Moved(g, batch[g])
           /\ Holds(Moved(g, batch[g]), g)
           /\ \A s \in DOMAIN batch[g] : Commits(s, batch[g][s])
<1> DEFINE items == batch[g]
           l == Moved(g, items)
           c == Commit(g, items)
<1>1. Typed(hbf) /\ setup \in Setups
    BY DEF Sound, Good
<1>3. c = IF Holds(l, g) /\ \A s \in DOMAIN items : Commits(s, items[s])
          THEN [hbf EXCEPT !.lpddr = l] ELSE Raise(hbf)
    BY DEF Commit, Moved
<1>4. Holds(l, g) /\ \A s \in DOMAIN items : Commits(s, items[s])
    BY <1>1, <1>3, RaiseFails
<1>5. l \in [Owner -> [group : Places, bytes : Counts]]
  <2> SUFFICES ASSUME NEW o \in Owner, NEW s, s = o[2], s \in DOMAIN items, items[s] > 0
               PROVE  Entry(g, IF o = Holder(s) THEN Grown(s, items[s]) ELSE Left(s, items[s]))
                        \in [group : Places, bytes : Counts]
      BY <1>1, Typing DEF Moved
  <2>1. s \in Session /\ items[s] \in Nat /\ turn[s] \in TurnType
      BY BatchFacts, GrantFacts
  <2>2. g \in Places
      BY DEF Places
  <2>3. Grown(s, items[s]) \in Counts
      BY <2>1, TurnTyping, MaterializedType, StripeWide DEF ActiveLpddr, Grown
  <2>4. Left(s, items[s]) \in Counts
      BY <1>1, <1>4, <2>1, MaterializedType, StripeType, OwnerFacts, Typing, PlusMinus DEF
         Growth, Commits, Held, Left
  <2>5. CASE o = Holder(s)
      BY <2>2, <2>3, <2>5, EntryFacts
  <2>6. CASE o # Holder(s)
      BY <2>2, <2>4, <2>6, EntryFacts
  <2> QED
      BY <2>5, <2>6
<1> HIDE DEF l, c
<1> QED
    BY <1>1, <1>3, <1>4, <1>5, Typing DEF l, c, Typed, HbfType
LEMMA FinishBatchSound ==
    ASSUME Sound, ~hbf.failed, NEW g \in Group, FinishBatch(g)
    PROVE  Sound' /\ Served
<1> DEFINE items == batch[g]
<1>1. /\ setup \in Setups /\ Good(hbf) /\ Staged
      /\ turn \in [Session -> TurnType] /\ offered \in [Session -> Nat]
      /\ Typed(hbf) /\ DOMAIN batch = Group
      /\ \A s \in Session : Fitting(s, turn[s], offered[s], hbf.rec[s])
    BY DEF Sound, Staged, Good
<1>2. /\ hbf' = Commit(g, items)
      /\ turn' = [s \in Session |-> IF s \in DOMAIN items THEN Progress(s, items[s]) ELSE turn[s]]
      /\ batch' = [batch EXCEPT ![g] = Idle]
      /\ setup' = setup /\ offered' = offered
    BY DEF FinishBatch
<1>3. SUFFICES ASSUME ~Commit(g, items).failed PROVE Sound' /\ Served
    BY <1>2, RaisedSound
<1>4. /\ Typed(hbf') /\ (hbf').rec = hbf.rec /\ (hbf').jobs = hbf.jobs
      /\ (hbf').reserved = hbf.reserved
  <2> DEFINE c == Commit(g, items)
  <2> QED
      BY <1>2, <1>3, CommitFacts
<1>5. Good(hbf')
    BY <1>1, <1>4, AlikeGood
<1>6. \A s \in DOMAIN items :
        /\ s \in Session /\ turn[s].stage \in Running /\ items[s] \in Grants(s)
        /\ hbf.rec[s].group = g /\ turn[s] \in TurnType /\ hbf.rec[s].state = "hbf_active"
    BY BatchFacts
<1> HIDE DEF items
<1>7. /\ turn' \in [Session -> TurnType]
      /\ \A s \in Session \ DOMAIN items : turn'[s] = turn[s]
      /\ \A s \in DOMAIN items : /\ turn'[s] = Progress(s, items[s])
                                 /\ turn'[s].stage # "none" /\ turn'[s].reused = turn[s].reused
  <2>1. ASSUME NEW s \in DOMAIN items
        PROVE  LET u == Progress(s, items[s]) IN
               u \in TurnType /\ u.stage # "none" /\ u.reused = turn[s].reused
    <3> DEFINE u == Progress(s, items[s])
    <3> HIDE DEF u
    <3> QED
        BY <1>6, ProgressType, GrantFacts DEF u
  <2> QED
      BY <1>1, <1>2, <1>6, <2>1
<1>8. \A s \in Session : Fitting(s, turn[s], offered[s], hbf.rec[s])'
  <2> TAKE s \in Session
  <2>1. CASE s \in DOMAIN items
      BY <1>2, <1>4, <1>6, <1>7, <2>1, ProgressFits, FittingPrimed
  <2>2. CASE s \notin DOMAIN items
      BY <1>1, <1>2, <1>4, <1>7, <2>2, FittingPrimed
  <2> QED
      BY <2>1, <2>2
<1>9. \A h \in Group : \A s \in DOMAIN batch'[h] : Launched(h, s)'
  <2> SUFFICES ASSUME NEW h \in Group, NEW s \in DOMAIN batch'[h]
               PROVE  Launched(h, s)'
      OBVIOUS
  <2>1. CASE h = g
      BY <1>1, <1>2, <2>1 DEF Idle
  <2>2. CASE h # g
    <3>1. batch'[h] = batch[h]
        BY <1>1, <1>2, <2>2
    <3>2. s \in Session /\ batch[h][s] \in Grants(s) /\ turn[s].stage \in Running /\ hbf.rec[s].group = h
        BY <3>1, BatchFacts
    <3>4. turn'[s] = turn[s] /\ offered'[s] = offered[s]
        BY <1>2, <1>6, <1>7, <2>2, <3>2
    <3> QED
        BY <1>2, <1>4, <3>1, <3>2, <3>4, GrantsKept DEF Launched
  <2> QED
      BY <2>1, <2>2
<1>10. Group' = Group
    BY <1>2 DEF Group
<1>12. Staged'
    BY <1>1, <1>2, <1>7, <1>8, <1>9, <1>10 DEF Staged, TurnType
<1>13. Good(hbf)'
    BY <1>2, <1>5, GoodPrimed
<1>14. ASSUME NEW s \in Session PROVE Moves(Shown(s), Showing(s))
    BY <1>2, <1>4, <1>6, <1>7, StaysBusy, SameView DEF Running
<1> QED
    BY <1>1, <1>2, <1>12, <1>13, <1>14 DEF Sound, Served


-----------------------------------------------------------------------------
(* The system: it starts sound, and every step keeps it so.                *)

LEMMA UnknownFacts == Unknown \in RecordType /\ Place(Unknown) /\ Lineage({}, Unknown)
<1>4. Tokens({}) = 0
    BY SumEmpty DEF Tokens
<1> QED
    BY <1>4 DEF Lineage, Unknown, RecordType, States, Places, Place, Media, NoGroup, Group,
       Aged, Moving, Appending, Now

LEMMA InitSound ==
    ASSUME Init
    PROVE  Sound
<1>1. /\ setup \in Setups
      /\ hbf = [rec |-> [s \in Session |-> Unknown], lru |-> <<>>, jobs |-> {},
                reserved |-> [g \in Group |-> Zero], lpddr |-> [o \in Owner |-> Nobody],
                failed |-> FALSE]
      /\ turn = [s \in Session |-> NoTurn] /\ batch = [g \in Group |-> Idle]
      /\ offered = [s \in Session |-> 0]
    BY DEF Init, HbfInit
<1>2. Typed(hbf)
  <2>1. Unknown \in RecordType /\ Zero \in Counts /\ <<>> \in Seq(Session)
      BY UnknownFacts, ZeroFacts
  <2> QED
      BY <1>1, <2>1, FS_EmptySet DEF Typed, HbfType, Nobody, Places
<1>3. Exact(hbf)
  <2> SUFFICES ASSUME NEW g \in Group, NEW c \in Card
               PROVE  /\ hbf.reserved[g][c] = Kept(hbf.rec, g, c) + Flying(hbf.jobs, g, c)
                      /\ hbf.reserved[g][c] <= setup.hbfCap
      BY DEF Exact
  <2>2. Kept(hbf.rec, g, c) = 0
    <3> DEFINE f == [s \in Session |-> Share(hbf.rec[s], g, c)]
    <3>1. g # NoGroup
        BY <1>1, SetupFacts
    <3> HIDE DEF f
    <3> QED
        BY <1>1, <3>1, SumZero, SessionsAssumption DEF Kept, f, Share, Unknown
  <2> QED
      BY <1>1, <2>2, ZeroFacts, SumEmpty, SetupFacts DEF Flying
<1>4. Good(hbf)
    BY <1>1, <1>2, <1>3, UnknownFacts DEF Of, Good
<1>5. Staged
    BY <1>1, SetupFacts DEF NoTurn, TurnType, Stages, Unknown, Fitting, OnHbf, Idle, Staged
<1> QED
    BY <1>1, <1>4, <1>5 DEF Sound

LEMMA StutterSound ==
    ASSUME Sound, UNCHANGED vars
    PROVE  Sound' /\ Served
<1>1. setup' = setup /\ hbf' = hbf /\ turn' = turn /\ batch' = batch /\ offered' = offered
    BY DEF vars
<1>2. SUFFICES ASSUME ~hbf.failed PROVE Sound' /\ Served
    BY <1>1 DEF Sound, Served
<1>3. setup \in Setups /\ Good(hbf) /\ Staged
    BY <1>2 DEF Sound
<1>4. Good(hbf)'
    BY <1>1, <1>3, GoodPrimed
<1>5. ASSUME NEW s \in Session PROVE Fitting(s, turn[s], offered[s], hbf.rec[s])'
    BY <1>1, <1>3, FittingPrimed DEF Staged
<1>7. Staged'
    BY <1>1, <1>3, <1>5, GrantsKept DEF Staged, Launched, TurnType, Group
<1> QED
    BY <1>1, <1>3, <1>4, <1>7, SameView DEF Sound, Served

LEMMA NextSound ==
    ASSUME Sound, [Next]_vars
    PROVE  Sound' /\ Served
<1>1. CASE UNCHANGED vars
    BY <1>1, StutterSound
<1>2. CASE Next
  <2>1. ~hbf.failed
      BY <1>2 DEF Next
  <2>2. ASSUME NEW s \in Session, StartDrain(s) PROVE Sound' /\ Served
      BY <2>1, <2>2, StartDrainSound
  <2>3. ASSUME NEW s \in Session, CompleteHbf(s) PROVE Sound' /\ Served
      BY <2>1, <2>3, CompleteHbfSound
  <2>4. ASSUME NEW s \in Session, CompleteGpu(s) PROVE Sound' /\ Served
      BY <2>1, <2>4, CompleteGpuSound
  <2>5. ASSUME NEW g \in Group, Launch(g) PROVE Sound' /\ Served
      BY <2>1, <2>5, LaunchSound
  <2>6. ASSUME NEW g \in Group, FinishBatch(g) PROVE Sound' /\ Served
      BY <2>1, <2>6, FinishBatchSound
  <2>7. ASSUME NEW j \in hbf.jobs, Finish(j) PROVE Sound' /\ Served
      BY <2>1, <2>7, FinishSound
  <2>8. ASSUME NEW s \in Session, Offer(s) PROVE Sound' /\ Served
      BY <2>1, <2>8, OfferSound
  <2>9. ASSUME NEW s \in Session, StartMigration(s) PROVE Sound' /\ Served
      BY <2>1, <2>9, StartMigrationSound
  <2>10. ASSUME NEW s \in Session, EvictGpuReady(s) PROVE Sound' /\ Served
      BY <2>1, <2>10, EvictGpuReadySound
  <2>11. ASSUME NEW s \in Session, PublishCheckpoint(s) PROVE Sound' /\ Served
      BY <2>1, <2>11, PublishCheckpointSound
  <2>12. ASSUME NEW s \in Session, StartImport(s) PROVE Sound' /\ Served
      BY <2>1, <2>12, StartImportSound
  <2> QED
      BY <1>2, <2>2, <2>3, <2>4, <2>5, <2>6, <2>7, <2>8, <2>9, <2>10, <2>11, <2>12
         DEF Next, Serve, Decide
<1> QED
    BY <1>1, <1>2

(* Until a RuntimeError stops it, the server is in a state where books,    *)
(* placements, the lineage of the jobs in flight, turns and batches fit    *)
(* each other: the invariant every other theorem here rests on.            *)
THEOREM AlwaysSound == Spec => []Sound
<1>1. Init => Sound
    BY InitSound
<1>2. Sound /\ [Next]_vars => Sound'
    BY NextSound
<1> QED
    BY <1>1, <1>2, PTL DEF Spec

LEMMA SoundBooks ==
    ASSUME Sound, ~hbf.failed
    PROVE  HbfBooksExact
BY BooksAreExact DEF Sound, Good

(* HBF neither loses nor doubles a byte, for any number of groups, cards   *)
(* and sessions and any script: whatever migrations and appends publish,   *)
(* go stale or are overtaken, and whatever is trimmed, evicted, abandoned  *)
(* or ended meanwhile, a group has reserved exactly what contexts and jobs *)
(* hold there, and no card more than it has (_release_group,               *)
(* assert_invariants).                                                     *)
THEOREM BooksStayExact == Spec => [](~hbf.failed => HbfBooksExact)
<1>1. Sound => (~hbf.failed => HbfBooksExact)
    BY SoundBooks
<1> QED
    BY <1>1, AlwaysSound, PTL

LEMMA SoundJobs ==
    ASSUME Sound, ~hbf.failed
    PROVE  JobsFollowSessions
<1> SUFFICES ASSUME NEW s \in Session, NEW r, r = hbf.rec[s],
                    NEW appends, appends = Current(s, "append")
             PROVE  /\ r.state = "migrating" =>
                         \E j \in hbf.jobs : Current(s, "migration") = {j} /\ IsCurrent(hbf, j)
                    /\ r.state # "migrating" => Current(s, "migration") = {}
                    /\ SumFunctionOnSet([j \in appends |-> j.count], appends) <= r.lpddr
                    /\ \A j \in appends : /\ r.state \in Media /\ j.group = r.group
                                          /\ j.start + j.count <= r.committed + r.lpddr
    BY DEF JobsFollowSessions
<1> DEFINE J == Of(hbf.jobs, s)
<1>1. Good(hbf)
    BY DEF Sound
<1>2. Lineage(J, r) /\ J \subseteq hbf.jobs
    BY <1>1, GoodFacts
<1>3. \A kind : Current(s, kind) = Now(J, r, kind)
    BY DEF Current, JobsOf, Now, Of
<1>5. ASSUME NEW j \in J, Now(J, r, "migration") = {j}, r.state = "migrating",
             j.group = r.group, j.version = r.version
      PROVE  IsCurrent(hbf, j)
    BY <1>5 DEF Of, Now, IsCurrent
<1> HIDE DEF J
<1> QED
    BY <1>2, <1>3, <1>5 DEF Lineage, Moving, Appending, Tokens

(* Jobs stay with their sessions: a session migrates exactly while one     *)
(* migration of its lineage is in flight, to the group and of the version  *)
(* that will let it publish, and the appends of a lineage move tokens its  *)
(* LPDDR part really has, however often it was trimmed, resumed, evicted   *)
(* or overtaken since (_complete_migration, _complete_append).             *)
THEOREM JobsStayWithSessions == Spec => [](~hbf.failed => JobsFollowSessions)
<1>1. Sound => (~hbf.failed => JobsFollowSessions)
    BY SoundJobs
<1> QED
    BY <1>1, AlwaysSound, PTL

-----------------------------------------------------------------------------
(* The sessions' view.                                                     *)

LEMMA SeenAsShown ==
    ASSUME NEW s \in Session, offered[s] \in Nat
    PROVE  SessionView(s) = Shown(s)
<1> DEFINE r == hbf.rec[s]
           n == offered[s]
<1>1. CASE r.state = "ended"
    BY <1>1, ViewFacts DEF SessionView, KV!Ended, Shown
<1>2. CASE r.state # "ended" /\ Live(s)
    BY <1>2, ViewFacts DEF SessionView, KV!Busy, Shown, Live
<1>3. CASE r.state # "ended" /\ ~Live(s)
    BY <1>3, ViewFacts DEF SessionView, KV!Idle, Shown, Live
<1> QED
    BY <1>1, <1>2, <1>3

LEMMA SeenAsShowing ==
    ASSUME NEW s \in Session, offered'[s] \in Nat
    PROVE  SessionView(s)' = Showing(s)
<1> DEFINE t == turn'[s]
           r == (hbf').rec[s]
           n == offered'[s]
<1>1. CASE r.state = "ended"
    BY <1>1, ViewFacts DEF SessionView, KV!Ended, Showing
<1>2. CASE r.state # "ended" /\ t.stage # "none"
    BY <1>2, ViewFacts DEF SessionView, KV!Busy, Live, Showing
<1>3. CASE r.state # "ended" /\ t.stage = "none"
    BY <1>3, ViewFacts DEF SessionView, KV!Idle, Live, Context, Showing
<1> QED
    BY <1>1, <1>2, <1>3

Seen == [s \in Session |-> SessionView(s)]

LEMMA InitServes ==
    ASSUME Init
    PROVE  KV!KVInit
<1> SUFFICES ASSUME NEW s \in Session PROVE SessionView(s) \in KV!Fresh
    BY DEF KV!KVInit
<1> QED
    BY ViewFacts, SeenAsShown DEF KV!Fresh, KV!Idle, Unknown, Context, Media, Shown, Init,
       HbfInit, NoTurn

LEMMA ServedSteps ==
    ASSUME Sound, ~hbf.failed, Sound', Served, ~(hbf').failed
    PROVE  [KV!KVNext]_Seen
<1>1. \A s \in Session : SessionView(s)' = SessionView(s) \/ KV!Step(SessionView(s), SessionView(s)')
  <2> TAKE s \in Session
  <2> QED
      BY SeenAsShown, SeenAsShowing DEF Moves, Served, Sound, Staged
<1> QED
    BY <1>1 DEF Seen, KV!KVNext

(* As long as no RuntimeError stops it, the server is a KV cache to every  *)
(* session: a call resumes from what the last one published or from        *)
(* nothing, only its end publishes, and neither a late callback of a       *)
(* migration or an append nor an eviction for somebody else's bytes        *)
(* changes a context behind the session's back (_route_call,               *)
(* complete_hbf_turn, _complete_append).                                   *)
THEOREM SessionsServed == Spec /\ []NeverRaises => ServesSessions
<1>1. Init => KV!KVInit
    BY InitServes
<1>2. Sound /\ NeverRaises /\ NeverRaises' /\ [Next]_vars => [KV!KVNext]_Seen
    BY NextSound, ServedSteps DEF NeverRaises
<1> QED
    BY <1>1, <1>2, AlwaysSound, PTL DEF Spec, ServesSessions, KV!KVSpec, Seen

-----------------------------------------------------------------------------
(* LPDDR: what the ledger holds for a session.                             *)

\* Bytes an owner holds on a card of a group, and a session with its live request.
Occupied(l, o, g, k) == IF l[o].group = g THEN l[o].bytes[k] ELSE 0
Weight(l, s, g, k) == Occupied(l, Holder(s), g, k) + Occupied(l, Headroom(s), g, k)
Ledgers == [Owner -> [group : Places, bytes : Counts]]

LEMMA UsedSum ==
    ASSUME NEW l \in Ledgers, NEW g, NEW k \in Card
    PROVE  /\ \A o \in Owner : Occupied(l, o, g, k) \in Nat
           /\ Used(l, g)[k] = SumFunctionOnSet([o \in Owner |-> Occupied(l, o, g, k)], Owner)
<1> DEFINE v == [o \in Owner |-> IF l[o].group = g THEN l[o].bytes ELSE Zero]
           f == [o \in Owner |-> v[o][k]]
           h == [o \in Owner |-> Occupied(l, o, g, k)]
<1>4. DOMAIN v = Owner
    OBVIOUS
<1>6. f = h
    BY ZeroFacts DEF Occupied
<1> QED
    BY <1>4, <1>6 DEF Occupied, Counts, Ledgers, Used, SumOf

LEMMA OwnersFinite == IsFiniteSet(Owner)
<1>2. IsFiniteSet({"session"} \cup {"request"})
    BY FS_Union, FS_Singleton
<1> QED
    BY <1>2, FS_Product, SessionsAssumption DEF Owner

\* A card is no fuller when neither the session nor anybody else holds more.
LEMMA HoldsLess ==
    ASSUME NEW l \in Ledgers, NEW m \in Ledgers, NEW g, Holds(l, g), setup.lpddrCap \in Nat,
           NEW s \in Session, \A k \in Card : Weight(m, s, g, k) <= Weight(l, s, g, k),
           \A o \in Owner \ {Holder(s), Headroom(s)}, k \in Card :
             Occupied(m, o, g, k) <= Occupied(l, o, g, k)
    PROVE  Holds(m, g)
<1> SUFFICES ASSUME NEW k \in Card PROVE Used(m, g)[k] <= setup.lpddrCap
    BY DEF Holds
<1> DEFINE f == [o \in Owner |-> Occupied(l, o, g, k)]
           h == [o \in Owner |-> Occupied(m, o, g, k)]
           a == Holder(s)
           b == Headroom(s)
           S == Owner \ {a}
           T == Owner \ {a, b}
<1>1. /\ \A o \in Owner : f[o] \in Nat /\ h[o] \in Nat
      /\ Used(l, g)[k] = SumFunctionOnSet(f, Owner) /\ Used(m, g)[k] = SumFunctionOnSet(h, Owner)
    BY UsedSum
<1>2. a \in Owner /\ b \in Owner /\ a # b
    BY OwnerFacts
<1>3. f[a] + f[b] = Weight(l, s, g, k) /\ h[a] + h[b] = Weight(m, s, g, k)
    BY <1>2 DEF Weight
<1>4. \A o \in T : h[o] <= f[o]
    OBVIOUS
<1> HIDE DEF f, h, a, b
<1>6. IsFiniteSet(Owner) /\ IsFiniteSet(S) /\ IsFiniteSet(T) /\ b \in S /\ T = S \ {b}
    BY <1>2, OwnersFinite, FS_Subset
<1>7. /\ SumFunctionOnSet(f, Owner) = f[a] + SumFunctionOnSet(f, S)
      /\ SumFunctionOnSet(h, Owner) = h[a] + SumFunctionOnSet(h, S)
    BY <1>1, <1>2, <1>6, SumRemove
<1>8. /\ SumFunctionOnSet(f, S) = f[b] + SumFunctionOnSet(f, T)
      /\ SumFunctionOnSet(h, S) = h[b] + SumFunctionOnSet(h, T)
    BY <1>1, <1>6, SumRemove
<1>9. /\ SumFunctionOnSet(h, T) <= SumFunctionOnSet(f, T)
      /\ SumFunctionOnSet(h, T) \in Nat /\ SumFunctionOnSet(f, T) \in Nat
    BY <1>1, <1>4, <1>6, SumMono
<1> HIDE DEF S, T
<1> QED
    BY <1>1, <1>2, <1>3, <1>7, <1>8, <1>9 DEF Holds

\* How far the tokens of a context reach, and how far those of its call will.
Middle(t, r) ==
  IF r.state = "hbf_active" THEN Materialized(t)
  ELSE IF r.state = "hbf_ready" THEN r.total ELSE 0
Last(s, n, r) ==
  IF r.state = "hbf_active" THEN setup.script[s][n].input + setup.script[s][n].output - 1
  ELSE IF r.state = "hbf_ready" THEN r.total ELSE 0
Stored(s, r, m, f, l) ==
  /\ l[Holder(s)] = Entry(r.group, Stripe(r.committed, m - r.committed))
  /\ l[Headroom(s)] = Entry(r.group, Stripe(m, f - m))
Load(r, f, g, k) == IF r.group = g THEN Stripe(r.committed, f - r.committed)[k] ELSE 0

\* Two ranges that meet.
LEMMA StripeJoin ==
    ASSUME NEW a \in Nat, NEW m \in Nat, NEW f \in Nat, a <= m, m <= f, NEW k \in Card
    PROVE  Stripe(a, f - a)[k] = Stripe(a, m - a)[k] + Stripe(m, f - m)[k]
<1> DEFINE x == m - a
           y == f - a
<1>1. x \in Nat /\ y \in Nat /\ x <= y /\ a + x = m /\ y - x = f - m
    OBVIOUS
<1> HIDE DEF x, y
<1> QED
    BY <1>1, StripeWithin DEF x, y

LEMMA StoredWeight ==
    ASSUME setup \in Setups, NEW s \in Session, NEW r \in RecordType, NEW m \in Nat, NEW f \in Nat,
           r.committed <= m, m <= f, NEW l, Stored(s, r, m, f, l), NEW g \in Group, NEW k \in Card
    PROVE  /\ Weight(l, s, g, k) = Load(r, f, g, k)
           /\ r.group # g => Occupied(l, Holder(s), g, k) = 0 /\ Occupied(l, Headroom(s), g, k) = 0
<1> DEFINE c == r.committed
           v == Stripe(c, m - c)
           w == Stripe(m, f - m)
<1>1. c \in Nat /\ m - c \in Nat /\ f - m \in Nat /\ f - c \in Nat /\ c + (m - c) = m
      /\ (f - c) - (m - c) = f - m /\ m - c <= f - c
    BY RecordTyping
<1>2. v \in Counts /\ w \in Counts
    BY <1>1, StripeType
<1>3. Stripe(c, f - c)[k] = v[k] + w[k]
    BY <1>1, StripeJoin
<1>4. g # NoGroup
    BY SetupFacts
<1>6. /\ Occupied(l, Holder(s), g, k) = (IF r.group = g THEN v[k] ELSE 0)
      /\ Occupied(l, Headroom(s), g, k) = (IF r.group = g THEN w[k] ELSE 0)
    BY <1>2, <1>4, ZeroFacts DEF Occupied, Stored, Entry, Nobody
<1> HIDE DEF v, w, c
<1> QED
    BY <1>2, <1>3, <1>6 DEF Weight, Counts, Load, c

\* A shorter range within the old one.
LEMMA LoadLess ==
    ASSUME NEW r \in RecordType, NEW q \in RecordType, NEW f \in Nat, NEW e \in Nat,
           r.committed <= f, q.committed <= e, NEW g, NEW k \in Card,
           \/ q.committed = e
           \/ q.group = r.group /\ r.committed <= q.committed /\ e <= f
    PROVE  Load(q, e, g, k) <= Load(r, f, g, k)
<1> DEFINE a == r.committed
           b == q.committed
<1>1. a \in Nat /\ b \in Nat /\ f - a \in Nat /\ e - b \in Nat
    BY RecordTyping
<1>2. Stripe(a, f - a)[k] \in Nat
    BY <1>1, StripeType DEF Counts
<1>3. CASE b = e
  <2>1. Stripe(b, e - b) = Zero
    <3>1. e - b = 0
        BY <1>1, <1>3
    <3> QED
        BY <1>1, <3>1, StripeNone
  <2> QED
      BY <1>2, <2>1, ZeroFacts DEF Load
<1>4. CASE q.group = r.group /\ a <= b /\ e <= f
  <2> DEFINE n == b - a
             w == f - a
             x == e - b
             y == f - b
  <2>1. n \in Nat /\ w \in Nat /\ x \in Nat /\ y \in Nat /\ n <= w /\ x <= y /\ a + n = b /\ w - n = y
      BY <1>1, <1>4
  <2>2. Stripe(a + n, w - n)[k] <= Stripe(a, w)[k]
      BY <1>1, <2>1, StripeWithin
  <2>3. Stripe(b, x)[k] <= Stripe(b, y)[k]
      BY <1>1, <2>1, StripeWithin
  <2>4. Stripe(b, x)[k] \in Nat /\ Stripe(b, y)[k] \in Nat /\ Stripe(a, w)[k] \in Nat
      BY <1>1, <2>1, StripeType DEF Counts
  <2> QED
      BY <1>4, <2>1, <2>2, <2>3, <2>4 DEF Load
<1> QED
    BY <1>3, <1>4

\* No card is fuller when no owner holds more.
LEMMA HoldsFewer ==
    ASSUME NEW l \in Ledgers, NEW m \in Ledgers, NEW g, Holds(l, g), setup.lpddrCap \in Nat,
           \A o \in Owner, k \in Card : Occupied(m, o, g, k) <= Occupied(l, o, g, k)
    PROVE  Holds(m, g)
<1> SUFFICES ASSUME NEW k \in Card PROVE Used(m, g)[k] <= setup.lpddrCap
    BY DEF Holds
<1> DEFINE f == [o \in Owner |-> Occupied(l, o, g, k)]
           h == [o \in Owner |-> Occupied(m, o, g, k)]
<1>1. /\ \A o \in Owner : f[o] \in Nat /\ h[o] \in Nat
      /\ Used(l, g)[k] = SumFunctionOnSet(f, Owner) /\ Used(m, g)[k] = SumFunctionOnSet(h, Owner)
    BY UsedSum
<1>2. \A o \in Owner : f[o] \in Nat /\ h[o] \in Nat /\ h[o] <= f[o]
    BY <1>1
<1> HIDE DEF f, h
<1> QED
    BY <1>1, <1>2, OwnersFinite, SumMono DEF Holds

\* The span of a call: its committed prefix, what it has computed, what it will have.
LEMMA SpanFacts ==
    ASSUME setup \in Setups, NEW s \in Session, NEW t \in TurnType, NEW n \in Nat,
           NEW r \in RecordType, Place(r), Fitting(s, t, n, r)
    PROVE  /\ Middle(t, r) \in Nat /\ Last(s, n, r) \in Nat
           /\ r.committed <= Middle(t, r) /\ Middle(t, r) <= Last(s, n, r)
           /\ r.committed + r.lpddr <= Middle(t, r)
           /\ r.state \notin Media => r.committed = 0 /\ Middle(t, r) = 0 /\ Last(s, n, r) = 0
           /\ r.state = "hbf_ready" => Middle(t, r) = r.total /\ Last(s, n, r) = r.total
           /\ r.state \in Media => r.committed + r.lpddr = r.total
<1>1. r.committed \in Nat /\ r.lpddr \in Nat /\ r.total \in Nat
    BY RecordTyping
<1>2. /\ r.state \notin Media => r.committed = 0 /\ r.lpddr = 0
      /\ r.state \in Media => r.committed + r.lpddr = r.total
    BY DEF Place
<1>3. CASE r.state = "hbf_active"
  <2> DEFINE call == setup.script[s][n]
             m == Materialized(t)
  <2>1. t.stage \in OnHbf /\ t.stage # "none" /\ n \in 1..Len(setup.script[s])
    <3>3. Len(setup.script[s]) \in Nat
        BY SetupFacts
    <3> QED
        BY <1>3, <3>3 DEF Fitting, OnHbf
  <2>2. call.input \in Nat \ {0} /\ call.output \in Nat \ {0}
      BY <2>1, ScriptFacts
  <2>3. Placed(t, r) /\ Progressed(t, call)
      BY <2>1 DEF Fitting
  <2>4. /\ t.reused \in Nat /\ t.done \in Nat /\ t.generated \in Nat
        /\ m \in Nat /\ t.reused + t.done <= m
        /\ t.generated = 0 => m = t.reused + t.done
        /\ t.generated >= 1 => m = t.reused + t.done + t.generated - 1
      BY TurnTyping, MaterializedType
  <2>5. Middle(t, r) = m /\ Last(s, n, r) = call.input + call.output - 1
      BY <1>3 DEF Middle, Last
  <2> HIDE DEF call, m
  <2>6. r.total <= m
      BY <1>1, <2>3, <2>4 DEF Placed
  <2>7. m <= call.input + call.output - 1
    <3>1. CASE t.stage = "prefill"
        BY <2>2, <2>3, <2>4, <3>1 DEF Progressed
    <3>2. CASE t.stage \in Gated \cup {"decode"}
        BY <2>2, <2>3, <2>4, <3>2 DEF Progressed, Gated
    <3>3. CASE t.stage = "complete"
        BY <2>2, <2>3, <2>4, <3>3 DEF Progressed
    <3> QED
        BY <2>1, <3>1, <3>2, <3>3 DEF OnHbf, Gated
  <2> QED
      BY <1>1, <1>2, <1>3, <2>2, <2>4, <2>5, <2>6, <2>7 DEF Media
<1>4. CASE r.state = "hbf_ready"
    BY <1>1, <1>2, <1>4 DEF Middle, Last, Media
<1>5. CASE r.state \notin Media
    BY <1>1, <1>2, <1>5 DEF Middle, Last, Media
<1> QED
    BY <1>3, <1>4, <1>5 DEF Media

\* What the ledger holds for a session, and that no card of LPDDR is overfull.
Rests(b, t, n, s) ==
  Stored(s, b.rec[s], Middle(t, b.rec[s]), Last(s, n, b.rec[s]), b.lpddr)
Booked ==
  /\ \A s \in Session : Rests(hbf, turn[s], offered[s], s)
  /\ \A g \in Group : Holds(hbf.lpddr, g)

LEMMA BookedPrimed ==
    ASSUME setup' = setup, \A s \in Session : Rests(hbf', turn'[s], offered'[s], s),
           \A g \in Group : Holds((hbf').lpddr, g)
    PROVE  Booked'
<1> QED
    BY DEF Booked, Rests, Last, Holds, Group

\* Nothing is held for nothing.
LEMMA NothingStored ==
    ASSUME NEW s \in Session, NEW r, r.committed = 0, NEW l
    PROVE  Stored(s, r, 0, 0, l) <=> l[Holder(s)] = Nobody /\ l[Headroom(s)] = Nobody
<1> QED
    BY StripeNone DEF Stored, Entry

LEMMA RestFacts ==
    ASSUME Sound, ~hbf.failed, Booked, NEW s \in Session
    PROVE  LET r == hbf.rec[s]
               m == Middle(turn[s], r)
               f == Last(s, offered[s], r) IN
           /\ setup \in Setups /\ Typed(hbf) /\ hbf.lpddr \in Ledgers /\ r \in RecordType
           /\ Place(r) /\ m \in Nat /\ f \in Nat /\ r.committed <= m /\ m <= f
           /\ Rests(hbf, turn[s], offered[s], s) /\ Stored(s, r, m, f, hbf.lpddr)
           /\ r.state \notin Media => hbf.lpddr[Holder(s)] = Nobody /\ hbf.lpddr[Headroom(s)] = Nobody
           /\ r.state = "hbf_ready" => hbf.lpddr[Headroom(s)] = Nobody
<1> DEFINE r == hbf.rec[s]
           m == Middle(turn[s], r)
           f == Last(s, offered[s], r)
<1>1. /\ setup \in Setups /\ Typed(hbf) /\ hbf.lpddr \in Ledgers /\ r \in RecordType /\ Place(r)
      /\ turn[s] \in TurnType /\ offered[s] \in Nat /\ Fitting(s, turn[s], offered[s], r)
    BY SessionFacts, Typing DEF Good, Ledgers
<1>2. /\ m \in Nat /\ f \in Nat /\ r.committed <= m /\ m <= f
      /\ r.state \notin Media => r.committed = 0 /\ m = 0 /\ f = 0
      /\ r.state = "hbf_ready" => m = r.total /\ f = r.total
    BY <1>1, SpanFacts
<1>3. Rests(hbf, turn[s], offered[s], s) /\ Stored(s, r, m, f, hbf.lpddr)
    BY DEF Booked, Rests
<1>5. r.state = "hbf_ready" => hbf.lpddr[Headroom(s)] = Nobody
  <2> HAVE r.state = "hbf_ready"
  <2> QED
      BY <1>2, <1>3, StripeNone DEF Stored, Entry
<1> HIDE DEF m, f
<1> QED
    BY <1>1, <1>2, <1>3, <1>5, NothingStored DEF m, f

LEMMA NextFitting ==
    ASSUME setup' = setup, Sound', ~(hbf').failed
    PROVE  /\ Typed(hbf')
           /\ \A s \in Session : /\ turn'[s] \in TurnType /\ offered'[s] \in Nat
                                 /\ (hbf').rec[s] \in RecordType /\ Place((hbf').rec[s])
                                 /\ Fitting(s, turn'[s], offered'[s], (hbf').rec[s])
<1>1. Good(hbf)' /\ Staged'
    BY DEF Sound
<1> QED
    BY <1>1, Typing DEF Good, Place, Group, Typed, HbfType, RecordType, JobType, Places, Staged,
       Fitting, Placed, Progressed, TurnType

\* A step of one session: its own part of the ledger is right, and not more
\* than before wherever the card was not checked.
LEMMA LedgerStep ==
    ASSUME Sound, ~hbf.failed, Sound', ~(hbf').failed, setup' = setup, Booked, NEW s \in Session,
           Spared(hbf, hbf', s),
           \A t \in Session \ {s} : turn'[t] = turn[t] /\ offered'[t] = offered[t],
           Rests(hbf', turn'[s], offered'[s], s),
           \A g \in Group :
             \/ Holds((hbf').lpddr, g)
             \/ \A k \in Card : Load((hbf').rec[s], Last(s, offered'[s], (hbf').rec[s]), g, k)
                                  <= Load(hbf.rec[s], Last(s, offered[s], hbf.rec[s]), g, k)
    PROVE  Booked'
<1>1. Typed(hbf') /\ (hbf').lpddr \in Ledgers
    BY NextFitting, Typing DEF Ledgers
<1>2. ASSUME NEW t \in Session \ {s}
      PROVE  /\ Rests(hbf', turn'[t], offered'[t], t)
             /\ (hbf').lpddr[Headroom(t)] = hbf.lpddr[Headroom(t)]
             /\ (hbf').lpddr[Holder(t)] \in {hbf.lpddr[Holder(t)], Nobody}
  <2>1. /\ (hbf').lpddr[Headroom(t)] = hbf.lpddr[Headroom(t)]
        /\ Same(hbf, hbf', t) \/ Ousted(hbf, hbf', t)
        /\ turn'[t] = turn[t] /\ offered'[t] = offered[t]
      BY DEF Spared
  <2>2. CASE Same(hbf, hbf', t)
      BY <2>1, <2>2 DEF Same, Booked, Rests, Stored
  <2>3. CASE Ousted(hbf, hbf', t)
    <3>1. /\ hbf.rec[t].state = "hbf_ready" /\ hbf.rec[t] \in RecordType
          /\ (hbf').rec[t] = Evicted(hbf.rec[t]) /\ (hbf').lpddr[Holder(t)] = Nobody
          /\ hbf.lpddr[Headroom(t)] = Nobody
        BY <2>3, RestFacts DEF Ousted
    <3> QED
        BY <2>1, <3>1, NothingStored, EvictedType DEF Rests, Middle, Last
  <2> QED
      BY <2>1, <2>2, <2>3
<1>3. ASSUME NEW g \in Group PROVE Holds((hbf').lpddr, g)
  <2> DEFINE r == hbf.rec[s]
             q == (hbf').rec[s]
             f == Last(s, offered[s], r)
             e == Last(s, offered'[s], q)
             m == Middle(turn[s], r)
             n == Middle(turn'[s], q)
  <2>1. CASE \A k \in Card : Load(q, e, g, k) <= Load(r, f, g, k)
    <3>1. /\ setup \in Setups /\ hbf.lpddr \in Ledgers /\ r \in RecordType /\ m \in Nat /\ f \in Nat
          /\ r.committed <= m /\ m <= f /\ Stored(s, r, m, f, hbf.lpddr)
        BY RestFacts
    <3>2. /\ q \in RecordType /\ n \in Nat /\ e \in Nat /\ q.committed <= n /\ n <= e
          /\ Stored(s, q, n, e, (hbf').lpddr)
        BY <3>1, NextFitting, SpanFacts DEF Rests
    <3> HIDE DEF r, q, f, e, m, n
    <3>3. \A k \in Card : Weight((hbf').lpddr, s, g, k) <= Weight(hbf.lpddr, s, g, k)
      <4> TAKE k \in Card
      <4> QED
          BY <2>1, <3>1, <3>2, StoredWeight
    <3>4. \A o \in Owner \ {Holder(s), Headroom(s)}, k \in Card :
            Occupied((hbf').lpddr, o, g, k) <= Occupied(hbf.lpddr, o, g, k)
      <4> TAKE o \in Owner \ {Holder(s), Headroom(s)}, k \in Card
      <4>1. PICK t \in Session : o = Holder(t) \/ o = Headroom(t)
          BY DEF Owner, Holder, Headroom
      <4>4. Occupied(hbf.lpddr, o, g, k) \in Nat /\ Occupied((hbf').lpddr, o, g, k) \in Nat
          BY <1>1, <3>1, UsedSum
      <4> QED
          BY <1>2, <4>1, <4>4, ZeroFacts DEF Occupied, Nobody
    <3> QED
        BY <1>1, <3>1, <3>3, <3>4, HoldsLess, SetupFacts DEF Booked
  <2> QED
      BY <2>1
<1> QED
    BY <1>2, <1>3, BookedPrimed

\* A session that has no context on the two media any more.
LEMMA LedgerEmpty ==
    ASSUME Sound, ~hbf.failed, Sound', ~(hbf').failed, setup' = setup, Booked, NEW s \in Session,
           Spared(hbf, hbf', s),
           \A t \in Session \ {s} : turn'[t] = turn[t] /\ offered'[t] = offered[t],
           (hbf').rec[s].state \notin Media,
           (hbf').lpddr[Holder(s)] \in {hbf.lpddr[Holder(s)], Nobody},
           (hbf').lpddr[Headroom(s)] \in {hbf.lpddr[Headroom(s)], Nobody},
           hbf.rec[s].state \in Media => /\ (hbf').lpddr[Holder(s)] = Nobody
                                         /\ (hbf').lpddr[Headroom(s)] = Nobody
    PROVE  Booked'
<1> DEFINE r == hbf.rec[s]
           q == (hbf').rec[s]
           f == Last(s, offered[s], r)
           e == Last(s, offered'[s], q)
<1>1. /\ r \in RecordType /\ f \in Nat /\ r.committed <= f
      /\ r.state \notin Media => hbf.lpddr[Holder(s)] = Nobody /\ hbf.lpddr[Headroom(s)] = Nobody
  <2> DEFINE m == Middle(turn[s], r)
  <2>1. /\ r \in RecordType /\ m \in Nat /\ f \in Nat /\ r.committed <= m /\ m <= f
        /\ r.state \notin Media => hbf.lpddr[Holder(s)] = Nobody /\ hbf.lpddr[Headroom(s)] = Nobody
      BY RestFacts
  <2> HIDE DEF m, f, r
  <2> QED
      BY <2>1, RecordTyping
<1>3. q \in RecordType /\ q.committed = 0
    BY NextFitting DEF Place
<1>4. Middle(turn'[s], q) = 0 /\ e = 0
    BY DEF Middle, Last, Media
<1> HIDE DEF r, q, f, e
<1>6. ASSUME NEW g \in Group, NEW k \in Card PROVE Load(q, e, g, k) <= Load(r, f, g, k)
    BY <1>1, <1>3, <1>4, LoadLess
<1> QED
    BY <1>1, <1>3, <1>4, <1>6, LedgerStep, NothingStored DEF q, r, e, f, Rests

\* A step that only moves the tokens a session has along the same span.
LEMMA LedgerAlong ==
    ASSUME Sound, ~hbf.failed, Sound', ~(hbf').failed, setup' = setup, Booked, NEW s \in Session,
           Spared(hbf, hbf', s),
           \A t \in Session \ {s} : turn'[t] = turn[t] /\ offered'[t] = offered[t],
           Rests(hbf', turn'[s], offered'[s], s),
           (hbf').rec[s].group = hbf.rec[s].group,
           hbf.rec[s].committed <= (hbf').rec[s].committed,
           Last(s, offered'[s], (hbf').rec[s]) = Last(s, offered[s], hbf.rec[s])
    PROVE  Booked'
<1> DEFINE r == hbf.rec[s]
           q == (hbf').rec[s]
           f == Last(s, offered[s], r)
           e == Last(s, offered'[s], q)
           m == Middle(turn[s], r)
           n == Middle(turn'[s], q)
<1>1. r \in RecordType /\ m \in Nat /\ f \in Nat /\ r.committed <= m /\ m <= f
    BY RestFacts
<1>2. q \in RecordType /\ n \in Nat /\ e \in Nat /\ q.committed <= n /\ n <= e
    BY NextFitting, SessionFacts, SpanFacts
<1> HIDE DEF r, q, f, e, m, n
<1>4. r.committed <= f /\ q.committed <= e /\ e <= f
  <2>1. e = f
      BY DEF e, f, q, r
  <2> QED
      BY <1>1, <1>2, <2>1, RecordTyping
<1>6. ASSUME NEW g \in Group, NEW k \in Card PROVE Load(q, e, g, k) <= Load(r, f, g, k)
    BY <1>1, <1>2, <1>4, LoadLess DEF q, r
<1> QED
    BY <1>6, LedgerStep DEF q, r, e, f

\* The same tokens, and the same bytes for them.
LEMMA SameSpan ==
    ASSUME NEW s \in Session, NEW t, NEW u, NEW n, NEW b, NEW c,
           c.rec[s].state = b.rec[s].state, c.rec[s].group = b.rec[s].group,
           c.rec[s].committed = b.rec[s].committed,
           b.rec[s].state = "hbf_ready" => c.rec[s].total = b.rec[s].total,
           b.rec[s].state = "hbf_active" => Materialized(u) = Materialized(t),
           c.lpddr[Holder(s)] = b.lpddr[Holder(s)], c.lpddr[Headroom(s)] = b.lpddr[Headroom(s)],
           Rests(b, t, n, s)
    PROVE  Rests(c, u, n, s) /\ Last(s, n, c.rec[s]) = Last(s, n, b.rec[s])
<1> QED
    BY DEF Rests, Stored, Middle, Last

LEMMA MaterializedSame ==
    ASSUME NEW t, NEW u, u.reused = t.reused, u.done = t.done, u.generated = t.generated
    PROVE  Materialized(u) = Materialized(t)
    BY DEF Materialized

LEMMA StartDrainBooked ==
    ASSUME Sound, ~hbf.failed, Sound', ~(hbf').failed, Booked, NEW s \in Session, StartDrain(s)
    PROVE  Booked'
<1> DEFINE r == hbf.rec[s]
           c == Drain(hbf, s, Call(s).input)
           u == AfterDrain(turn[s], hbf, s)
           k == Call(s).input
           n == r.lpddr + k - r.total
<1>1. /\ setup \in Setups /\ Good(hbf) /\ turn \in [Session -> TurnType]
      /\ turn[s] \in TurnType /\ r \in RecordType
    BY SessionFacts
<1>2. /\ turn[s].stage = "gate" /\ hbf' = c /\ turn' = [turn EXCEPT ![s] = u]
      /\ setup' = setup /\ offered' = offered
    BY DEF StartDrain
<1>3. /\ k \in Nat /\ r.total <= k /\ r.state = "hbf_active" /\ setup.tail >= 0
    BY <1>2, LiveFacts DEF Live, OnHbf, Gated, Progressed
<1>4. /\ Spared(hbf, c, s) /\ c.rec[s] = Adopted(r, k, n)
      /\ c.lpddr[Holder(s)] = hbf.lpddr[Holder(s)] /\ c.lpddr[Headroom(s)] = hbf.lpddr[Headroom(s)]
    BY <1>1, <1>2, <1>3, DrainGood
<1>5. n \in Nat
    BY <1>1, <1>3, RecordTyping
<1> HIDE DEF c, n
<1>6. /\ c.rec[s] \in RecordType /\ c.rec[s].state = r.state /\ c.rec[s].group = r.group
      /\ c.rec[s].committed = r.committed
  <2> DEFINE x == Adopted(r, k, n)
  <2>1. x \in RecordType /\ x.state = r.state /\ x.group = r.group /\ x.committed = r.committed
      BY <1>1, <1>3, <1>5, AdoptedType
  <2> QED
      BY <1>4, <2>1
<1>7. u.reused = turn[s].reused /\ u.done = turn[s].done /\ u.generated = turn[s].generated
    BY <1>1, <1>6, AfterDrainType DEF c
<1> HIDE DEF u
<1>11. /\ Rests(c, u, offered[s], s)
       /\ Last(s, offered[s], c.rec[s]) = Last(s, offered[s], r)
    BY <1>3, <1>4, <1>6, <1>7, SameSpan, MaterializedSame DEF Booked
<1>12. r.committed <= c.rec[s].committed
  <2>1. r.committed \in Nat
      BY <1>1, RecordTyping
  <2> QED
      BY <1>6, <2>1
<1> QED
    BY <1>1, <1>2, <1>4, <1>6, <1>11, <1>12, LedgerAlong

\* What a completed turn leaves: its tokens behind the prefix, and no headroom.
LEMMA CompleteHbfBooked ==
    ASSUME Sound, ~hbf.failed, Sound', ~(hbf').failed, Booked, NEW s \in Session, CompleteHbf(s)
    PROVE  Booked'
<1> DEFINE r == hbf.rec[s]
           k == FinalTokens(s)
           c == CompleteHbfTurn(hbf, s, k, HasSuccessor(s))
           n == r.lpddr + k - r.total
           q == Renewed(r, k)
<1>1. /\ setup \in Setups /\ Good(hbf) /\ turn \in [Session -> TurnType]
      /\ r \in RecordType /\ Place(r)
    BY SessionFacts
<1>2. /\ turn[s].stage = "complete" /\ hbf' = c /\ turn' = [turn EXCEPT ![s] = NoTurn]
      /\ setup' = setup /\ offered' = offered
    BY DEF CompleteHbf
<1>3. /\ k \in Nat /\ r.total <= k /\ r.state = "hbf_active" /\ HasSuccessor(s) \in BOOLEAN
      /\ Last(s, offered[s], r) = k
  <2>2. /\ FinalTokens(s) \in Nat /\ r.total <= Call(s).input /\ r.state = "hbf_active"
        /\ Call(s).input <= FinalTokens(s) /\ Call(s).input \in Nat
        /\ FinalTokens(s) = Call(s).input + Call(s).output - 1 /\ Call(s) = setup.script[s][offered[s]]
      BY <1>2, LiveFacts DEF Live, OnHbf
  <2> QED
      BY <1>1, <2>2, RecordTyping DEF HasSuccessor, Last
<1>4. /\ Spared(hbf, c, s) /\ c.lpddr[Headroom(s)] = Nobody
      /\ HasSuccessor(s) => /\ c.rec[s] = HbfReady(q, n)
                            /\ c.lpddr[Holder(s)] = Entry(r.group, Stripe(r.committed, n))
      /\ ~HasSuccessor(s) => c.rec[s].state = "ended" /\ c.lpddr[Holder(s)] = Nobody
    BY <1>1, <1>2, <1>3, CompleteHbfGood
<1>5. \A t \in Session \ {s} : turn'[t] = turn[t] /\ offered'[t] = offered[t]
    BY <1>1, <1>2
<1> HIDE DEF c
<1>6. CASE ~HasSuccessor(s)
    BY <1>2, <1>4, <1>5, <1>6, LedgerEmpty DEF Media
<1>7. CASE HasSuccessor(s)
  <2>1. n \in Nat /\ n = k - r.committed /\ r.committed \in Nat /\ k - k = 0
      BY <1>1, <1>3, RecordTyping DEF Place, Media
  <2>2. q \in RecordType /\ q.total = k /\ q.committed = r.committed /\ q.group = r.group
      BY <1>1, <1>3, GrownType
  <2> HIDE DEF n, q, k
  <2> DEFINE p == (hbf').rec[s]
  <2>3. p.state = "hbf_ready" /\ p.total = k /\ p.committed = r.committed /\ p.group = r.group
    <3>2. LET x == HbfReady(q, n) IN x.state = "hbf_ready" /\ x.total = k
                                      /\ x.committed = r.committed /\ x.group = r.group
        BY <2>1, <2>2, HbfReadyType
    <3> QED
        BY <1>2, <1>4, <1>7, <3>2
  <2>4. Middle(turn'[s], p) = k /\ Last(s, offered'[s], p) = k
      BY <2>3 DEF Middle, Last
  <2>5. Rests(hbf', turn'[s], offered'[s], s)
      BY <1>2, <1>3, <1>4, <1>7, <2>1, <2>3, <2>4, StripeNone DEF Entry, Rests, Stored
  <2>6. r.committed <= p.committed
      BY <2>1, <2>3
  <2> QED
      BY <1>2, <1>3, <1>4, <1>5, <2>3, <2>4, <2>5, <2>6, LedgerAlong
<1> QED
    BY <1>3, <1>6, <1>7

LEMMA CompleteGpuBooked ==
    ASSUME Sound, ~hbf.failed, Sound', ~(hbf').failed, Booked, NEW s \in Session, CompleteGpu(s)
    PROVE  Booked'
<1>1. /\ setup \in Setups /\ Good(hbf) /\ turn \in [Session -> TurnType]
      /\ Fitting(s, turn[s], offered[s], hbf.rec[s])
    BY SessionFacts
<1>2. PICK start \in StartsNow(s) :
        hbf' = CompleteGpuTurn(hbf, s, FinalTokens(s), HasSuccessor(s), start)
    BY DEF CompleteGpu
<1>3. /\ turn[s].stage = "gpu" /\ turn' = [turn EXCEPT ![s] = NoTurn]
      /\ setup' = setup /\ offered' = offered
    BY DEF CompleteGpu
<1>4. hbf.rec[s].state = "gpu_active"
    BY <1>1, <1>3 DEF Fitting
<1>5. FinalTokens(s) \in Nat /\ HasSuccessor(s) \in BOOLEAN
  <2>1. Live(s)
      BY <1>3 DEF Live
  <2> QED
      BY <2>1, LiveFacts DEF HasSuccessor
<1>6. start \in BOOLEAN
    BY DEF StartsNow
<1> DEFINE c == CompleteGpuTurn(hbf, s, FinalTokens(s), HasSuccessor(s), start)
<1>7. /\ Spared(hbf, c, s)
      /\ HasSuccessor(s) => /\ c.rec[s].state \in {"migrating", "gpu_ready", "ssd_ready"}
                            /\ c.lpddr[Holder(s)] = hbf.lpddr[Holder(s)]
                            /\ c.lpddr[Headroom(s)] = hbf.lpddr[Headroom(s)]
      /\ ~HasSuccessor(s) => /\ c.rec[s].state = "ended"
                             /\ c.lpddr[Holder(s)] = Nobody /\ c.lpddr[Headroom(s)] = Nobody
    BY <1>1, <1>2, <1>4, <1>5, <1>6, CompleteGpuGood
<1> HIDE DEF c
<1>8. hbf' = c
    BY <1>2 DEF c
<1> QED
    BY <1>1, <1>3, <1>4, <1>7, <1>8, LedgerEmpty DEF Media

\* What the host does with a context that waits on the GPUs or on the SSD.
LEMMA HostBooked ==
    ASSUME Sound, ~hbf.failed, Sound', ~(hbf').failed, Booked, NEW s \in Session, setup' = setup,
           turn' = turn, offered' = offered, hbf.rec[s].state \notin Media,
           (hbf').rec[s].state \notin Media, Spared(hbf, hbf', s),
           (hbf').lpddr[Holder(s)] = hbf.lpddr[Holder(s)],
           (hbf').lpddr[Headroom(s)] = hbf.lpddr[Headroom(s)]
    PROVE  Booked'
    BY LedgerEmpty

LEMMA StartMigrationBooked ==
    ASSUME Sound, ~hbf.failed, Sound', ~(hbf').failed, Booked, NEW s \in Session,
           StartMigration(s) \/ StartImport(s)
    PROVE  Booked'
<1>1. PICK source \in {"gpu", "ssd"}, evicts \in BOOLEAN :
        /\ ~Live(s) /\ hbf.rec[s].state \in {"gpu_ready", "ssd_ready"}
        /\ hbf' = Migrate(hbf, s, source, evicts)
        /\ setup' = setup /\ turn' = turn /\ offered' = offered
    BY DEF StartMigration, OnGpu, StartImport
<1> DEFINE c == Migrate(hbf, s, source, evicts)
<1>3. ~c.failed /\ hbf.rec[s].state \notin Media \cup {"migrating"}
    BY <1>1 DEF Media
<1>4. /\ Spared(hbf, c, s) /\ c.rec[s].state \in {"migrating", "gpu_ready", "ssd_ready"}
      /\ c.lpddr[Holder(s)] = hbf.lpddr[Holder(s)]
      /\ c.lpddr[Headroom(s)] = hbf.lpddr[Headroom(s)]
    BY <1>3, MigrateGood, SessionFacts
<1> HIDE DEF c
<1>5. hbf' = c
    BY <1>1 DEF c
<1> QED
    BY <1>1, <1>3, <1>4, <1>5, HostBooked DEF Media

LEMMA EvictGpuReadyBooked ==
    ASSUME Sound, ~hbf.failed, Sound', ~(hbf').failed, Booked, NEW s \in Session, EvictGpuReady(s)
    PROVE  Booked'
<1>1. /\ hbf.rec[s].state = "gpu_ready" /\ setup' = setup /\ turn' = turn /\ offered' = offered
    BY DEF EvictGpuReady, Reclaimable, OnGpu
<1>2. RecordTo(hbf, hbf', s, Dropped(hbf.rec[s]))
    BY DEF EvictGpuReady, RecordTo, Dropped
<1> QED
    BY <1>1, <1>2, HostBooked, DropGood, SessionFacts DEF Media

LEMMA PublishCheckpointBooked ==
    ASSUME Sound, ~hbf.failed, Sound', ~(hbf').failed, Booked, NEW s \in Session,
           PublishCheckpoint(s)
    PROVE  Booked'
<1>1. /\ hbf.rec[s].state = "gpu_ready" /\ setup' = setup /\ turn' = turn /\ offered' = offered
    BY DEF PublishCheckpoint, OnGpu
<1>3. setup \in Setups /\ Good(hbf) /\ Typed(hbf)
    BY SessionFacts DEF Good
<1> DEFINE c == Checkpointed(hbf, s)
<1>5. Spared(hbf, c, s) /\ c.lpddr = hbf.lpddr /\ c.rec[s].state = "ssd_ready"
    BY <1>1, <1>3, CheckpointGood
<1> HIDE DEF c
<1>6. hbf' = c
    BY <1>3, RaiseFails DEF c, PublishCheckpoint, Checkpointed
<1> QED
    BY <1>1, <1>5, <1>6, HostBooked DEF Media

\* An entry from which the front of its range is taken.
LEMMA EntryMinus ==
    ASSUME NEW g \in Places, NEW a \in Nat, NEW n \in Nat, NEW w \in Nat, NEW z \in Nat, n + z = w,
           NEW h, Stripe(a, w) # Zero => h = g
    PROVE  Entry(h, Minus(Stripe(a, w), Stripe(a, n))) = Entry(g, Stripe(a + n, z))
<1> DEFINE v == Stripe(a, w)
           x == Stripe(a, n)
           y == Stripe(a + n, z)
<1>1. v \in Counts /\ x \in Counts /\ y \in Counts
    BY StripeType
<1>2. \A k \in Card : v[k] = x[k] + y[k]
  <2>1. \A k \in Card : Stripe(a, n + z)[k] = x[k] + y[k]
      BY StripeSplit
  <2>2. n + z = w
      OBVIOUS
  <2> QED
      BY <2>1, <2>2
<1>3. Minus(v, x) = y
  <2>2. \A k \in Card : v[k] - x[k] = y[k]
    <3> TAKE k \in Card
    <3> HIDE DEF v, x, y
    <3> QED
        BY <1>1, <1>2 DEF Counts
  <2> HIDE DEF v, x, y
  <2> QED
      BY <1>1, <2>2 DEF Minus, Counts
<1>5. v = Zero => y = Zero
  <2> HAVE v = Zero
  <2>1. \A k \in Card : y[k] = 0
    <3> TAKE k \in Card
    <3> HIDE DEF v, x, y
    <3> QED
        BY <1>1, <1>2, ZeroFacts DEF Counts
  <2> QED
      BY <1>1, <2>1, ZeroFacts DEF Counts
<1>6. v # Zero => h = g
    OBVIOUS
<1> HIDE DEF v, x, y
<1> QED
    BY <1>3, <1>5, <1>6 DEF v, x, y, Entry

\* The callback of a job, before the pool takes notice: the record it writes and
\* the bytes it leaves go together.
LEMMA JobBooked ==
    ASSUME Sound, ~hbf.failed, Booked, NEW j \in hbf.jobs, ~FinishJob(hbf, j).failed,
           NEW s, s = j.session
    PROVE  LET b == FinishJob(hbf, j) IN
           /\ s \in Session /\ Good(b) /\ Spared(hbf, b, s) /\ b.rec[s] \in RecordType
           /\ Rests(b, turn[s], offered[s], s)
           /\ \/ b.rec[s].state = hbf.rec[s].state /\ b.rec[s].group = hbf.rec[s].group
                 /\ b.rec[s].total = hbf.rec[s].total
                 /\ hbf.rec[s].committed <= b.rec[s].committed
                 /\ Last(s, offered[s], b.rec[s]) = Last(s, offered[s], hbf.rec[s])
              \/ hbf.rec[s].state = "migrating" /\ b.rec[s].state = "hbf_ready"
                 /\ b.rec[s].committed = b.rec[s].total
<1> DEFINE b == FinishJob(hbf, j)
           r == hbf.rec[s]
           q == b.rec[s]
           o == hbf.lpddr[Holder(s)]
           m == Middle(turn[s], r)
           f == Last(s, offered[s], r)
<1>1. setup \in Setups /\ Good(hbf) /\ Typed(hbf)
    BY DEF Sound, Good
<1>2. s \in Session /\ j \in JobType /\ j.count \in Nat /\ j.kind \in {"migration", "append"}
    BY <1>1, Typing, JobTyping
<1>3. /\ r \in RecordType /\ Place(r) /\ m \in Nat /\ f \in Nat /\ r.committed <= m /\ m <= f
      /\ Rests(hbf, turn[s], offered[s], s) /\ Stored(s, r, m, f, hbf.lpddr)
      /\ r.state \notin Media => hbf.lpddr[Holder(s)] = Nobody /\ hbf.lpddr[Headroom(s)] = Nobody
    BY <1>2, RestFacts
<1>4. turn[s] \in TurnType /\ offered[s] \in Nat /\ Fitting(s, turn[s], offered[s], r)
    BY <1>2, SessionFacts
<1>5. /\ Good(b) /\ Spared(hbf, b, s)
      /\ b.lpddr[Headroom(s)] = hbf.lpddr[Headroom(s)]
      /\ \/ q = r /\ b.lpddr[Holder(s)] = o
         \/ /\ r.state = "migrating" /\ q = Migrated(r, j.count) /\ b.lpddr[Holder(s)] = Nobody
         \/ /\ r.state \in Media /\ j.start = r.committed /\ j.count <= r.lpddr
            /\ q = Appended(r, j.count)
            /\ b.lpddr[Holder(s)] = Entry(o.group, Minus(o.bytes, JobBytes(j)))
  <2>1. CASE j.kind = "migration"
    <3>1. b = FinishMigration(hbf, j) /\ ~FinishMigration(hbf, j).failed
        BY <2>1 DEF FinishJob
    <3> DEFINE c == FinishMigration(hbf, j)
    <3>2. /\ Good(c) /\ Spared(hbf, c, s) /\ c.lpddr[Headroom(s)] = hbf.lpddr[Headroom(s)]
          /\ \/ c.rec[s] = r /\ c.lpddr[Holder(s)] = o
             \/ /\ r.state = "migrating"
                /\ c.rec[s] = Migrated(r, j.count) /\ c.lpddr[Holder(s)] = Nobody
        BY <1>1, <2>1, <3>1, FinishMigrationGood
    <3> HIDE DEF b, c, r
    <3> QED
        BY <3>1, <3>2 DEF c
  <2>2. CASE j.kind = "append"
    <3>1. b = FinishAppend(hbf, j) /\ ~FinishAppend(hbf, j).failed
        BY <2>2 DEF FinishJob
    <3> DEFINE c == FinishAppend(hbf, j)
    <3>2. /\ Good(c) /\ Spared(hbf, c, s) /\ c.lpddr[Headroom(s)] = hbf.lpddr[Headroom(s)]
          /\ \/ c.rec[s] = r /\ c.lpddr[Holder(s)] = o
             \/ /\ r.state \in Media /\ IsNext(hbf, j) /\ j.count <= r.lpddr
                /\ c.rec[s] = Appended(r, j.count)
                /\ c.lpddr[Holder(s)] = Entry(o.group, Minus(o.bytes, JobBytes(j)))
        BY <1>1, <2>2, <3>1, FinishAppendGood
    <3>3. IsNext(hbf, j) => j.start = r.committed
        BY DEF IsNext
    <3> HIDE DEF b, c, r, o
    <3> QED
        BY <3>1, <3>2, <3>3 DEF c
  <2> QED
      BY <1>2, <2>1, <2>2
<1> HIDE DEF b, r, m, f, o
<1>6. q \in RecordType /\ Place(q)
    BY <1>2, <1>5, GoodFacts
<1>7. r.committed \in Nat /\ r.lpddr \in Nat /\ r.total \in Nat /\ r.group \in Places
    BY <1>3, RecordTyping
<1>8. CASE q = r /\ b.lpddr[Holder(s)] = o
    BY <1>2, <1>3, <1>5, <1>6, <1>7, <1>8 DEF Rests, Stored, r, o, b
<1>9. CASE r.state = "migrating" /\ q = Migrated(r, j.count) /\ b.lpddr[Holder(s)] = Nobody
  <2>1. q.state = "hbf_ready" /\ q.lpddr = 0 /\ q.committed = j.count
      BY <1>2, <1>3, <1>9, MigratedType
  <2>2. q.committed = q.total /\ q.total \in Nat
      BY <1>2, <1>6, <2>1, RecordTyping DEF Place, Media
  <2>6. Rests(b, turn[s], offered[s], s)
      BY <1>3, <1>5, <1>9, <2>1, <2>2, StripeNone DEF Rests, Stored, Entry, Middle, Last, Media
  <2> QED
      BY <1>2, <1>5, <1>6, <1>9, <2>1, <2>2, <2>6 DEF b, r
<1>10. CASE /\ r.state \in Media /\ j.start = r.committed /\ j.count <= r.lpddr
            /\ q = Appended(r, j.count)
            /\ b.lpddr[Holder(s)] = Entry(o.group, Minus(o.bytes, JobBytes(j)))
  <2> DEFINE n == j.count
             w == m - r.committed
  <2>1. /\ q.state = r.state /\ q.total = r.total /\ q.committed = r.committed + n
        /\ q.group = r.group
      BY <1>2, <1>3, <1>10, AppendedType
  <2>2. Middle(turn[s], q) = m /\ Last(s, offered[s], q) = f
      BY <2>1 DEF Middle, Last, m, f
  <2>3. /\ w \in Nat /\ n <= w /\ w - n = m - q.committed /\ n \in Nat
        /\ r.committed <= q.committed
      BY <1>1, <1>2, <1>3, <1>4, <1>7, <1>10, <2>1, SpanFacts DEF m, r
  <2>4. o = Entry(r.group, Stripe(r.committed, w)) /\ JobBytes(j) = Stripe(r.committed, n)
      BY <1>3, <1>10 DEF Stored, JobBytes, o
  <2> HIDE DEF n, w
  <2>5. b.lpddr[Holder(s)] = Entry(r.group, Stripe(r.committed + n, w - n))
    <3> DEFINE c == r.committed
               g == r.group
               z == w - n
    <3>1. g \in Places /\ c \in Nat /\ n \in Nat /\ w \in Nat /\ z \in Nat /\ n + z = w
          /\ o = Entry(g, Stripe(c, w))
        BY <1>7, <2>3, <2>4
    <3>2. o.bytes = Stripe(c, w) /\ (Stripe(c, w) # Zero => o.group = g)
      <4> HIDE DEF c, g, o, z
      <4> QED
          BY <3>1, EntryFacts, StripeType DEF Entry
    <3> HIDE DEF c, g, o, z
    <3> DEFINE h == o.group
    <3> HIDE DEF h
    <3> QED
        BY <1>10, <2>4, <3>1, <3>2, EntryMinus DEF c, g, z, h
  <2>6. Rests(b, turn[s], offered[s], s)
      BY <1>3, <1>5, <2>1, <2>2, <2>3, <2>5 DEF Stored, Rests
  <2> QED
      BY <1>2, <1>5, <1>6, <2>1, <2>2, <2>3, <2>6 DEF b, r, f
<1> QED
    BY <1>5, <1>8, <1>9, <1>10

\* The callback of a job, with what it does for a gated turn.
LEMMA FinishBooked ==
    ASSUME Sound, ~hbf.failed, Sound', ~(hbf').failed, Booked, NEW j \in hbf.jobs, Finish(j)
    PROVE  Booked'
<1> DEFINE s == j.session
           b == FinishJob(hbf, j)
           r == Refreshed(b)
           k == Call(s).input
<1>1. /\ s \in Session /\ setup' = setup /\ offered' = offered
      /\ Typed(b) /\ ~b.failed
      /\ hbf.rec[s].state = "hbf_active" =>
           /\ b.rec[s].state = "hbf_active" /\ b.rec[s].group = hbf.rec[s].group
           /\ b.rec[s].total = hbf.rec[s].total
           /\ b.rec[s].committed + b.rec[s].lpddr = hbf.rec[s].total
      /\ r \in [Session -> TurnType]
      /\ \A t \in Session :
           /\ r[t].stage = turn[t].stage /\ r[t].reused = turn[t].reused /\ r[t].done = turn[t].done
           /\ r[t].generated = turn[t].generated /\ r[t].published = turn[t].published
           /\ setup.refresh /\ turn[t].stage \in OnHbf => r[t].hbf = b.rec[t].committed
      /\ \A t \in Session \ {s} : r[t] = turn[t]
      /\ ResumesGate(r[s]) =>
           /\ turn[s].stage \in {"bound", "waiting"} /\ turn[s].stage \notin Running
           /\ turn[s].stage \in Gated /\ turn[s].stage # "none"
           /\ setup.tail >= 0 /\ k \in Nat /\ hbf.rec[s].total <= k
           /\ hbf.rec[s].state = "hbf_active" /\ Progressed(r[s], Call(s))
           /\ offered[s] >= 1 /\ offered[s] <= Len(setup.script[s])
           /\ Call(s) = setup.script[s][offered[s]] /\ r[s].reused <= k
      /\ \/ /\ ResumesGate(r[s])
            /\ hbf' = b /\ turn' = [r EXCEPT ![s].stage = "decode"]
         \/ /\ ResumesGate(r[s])
            /\ hbf' = Drain(b, s, k) /\ turn' = [r EXCEPT ![s] = AfterDrain(r[s], b, s)]
         \/ hbf' = b /\ turn' = r
    BY FinishCases
<1> HIDE DEF b, r, k
<1>2. /\ Good(b) /\ Spared(hbf, b, s) /\ b.rec[s] \in RecordType
      /\ Rests(b, turn[s], offered[s], s)
      /\ \/ b.rec[s].state = hbf.rec[s].state /\ b.rec[s].group = hbf.rec[s].group
            /\ b.rec[s].total = hbf.rec[s].total
            /\ hbf.rec[s].committed <= b.rec[s].committed
            /\ Last(s, offered[s], b.rec[s]) = Last(s, offered[s], hbf.rec[s])
         \/ hbf.rec[s].state = "migrating" /\ b.rec[s].state = "hbf_ready"
            /\ b.rec[s].committed = b.rec[s].total
    BY <1>1, JobBooked DEF b
<1>3. setup \in Setups /\ hbf.rec \in [Session -> RecordType] /\ hbf.rec[s] \in RecordType
    BY <1>1, SessionFacts, Typing DEF Good
<1> HIDE DEF s
<1>4. CASE hbf' = Drain(b, s, k) /\ turn' = [r EXCEPT ![s] = AfterDrain(r[s], b, s)]
           /\ ResumesGate(r[s])
  <2> DEFINE q == b.rec[s]
             n == q.lpddr + k - q.total
             c == Drain(b, s, k)
             u == AfterDrain(r[s], b, s)
  <2>1. /\ q.state = "hbf_active" /\ q.total = hbf.rec[s].total /\ q.total <= k /\ k \in Nat
        /\ setup.tail >= 0
      BY <1>1, <1>4
  <2>2. /\ Spared(b, c, s) /\ c.rec[s] = Adopted(q, k, n)
        /\ c.lpddr[Holder(s)] = b.lpddr[Holder(s)] /\ c.lpddr[Headroom(s)] = b.lpddr[Headroom(s)]
      BY <1>1, <1>2, <1>3, <1>4, <2>1, DrainGood
  <2>3. n \in Nat /\ q.committed \in Nat /\ hbf.rec[s].committed \in Nat
      BY <1>2, <1>3, <2>1, RecordTyping
  <2> HIDE DEF c, n
  <2>4. /\ c.rec[s] \in RecordType /\ c.rec[s].state = q.state /\ c.rec[s].group = q.group
        /\ c.rec[s].committed = q.committed
    <3> DEFINE x == Adopted(q, k, n)
    <3>1. x \in RecordType /\ x.state = q.state /\ x.group = q.group /\ x.committed = q.committed
        BY <1>2, <2>1, <2>3, AdoptedType
    <3> QED
        BY <2>2, <3>1
  <2>5. u.reused = turn[s].reused /\ u.done = turn[s].done /\ u.generated = turn[s].generated
      BY <1>1, <2>4, AfterDrainType DEF c, k
  <2> HIDE DEF u
  <2>7. Materialized(u) = Materialized(turn[s])
      BY <2>5, MaterializedSame
  <2>8. /\ Rests(c, u, offered[s], s)
        /\ Last(s, offered[s], c.rec[s]) = Last(s, offered[s], q)
      BY <1>1, <1>2, <2>1, <2>2, <2>4, <2>7, SameSpan
  <2>9. Spared(hbf, c, s)
      BY <1>1, <1>2, <1>3, <2>2, SparedTwice
  <2>10. hbf' = c
      BY <1>4 DEF c
  <2>11. /\ hbf.rec[s].state = "hbf_active" /\ c.rec[s].group = hbf.rec[s].group
         /\ hbf.rec[s].committed <= c.rec[s].committed
         /\ Last(s, offered[s], c.rec[s]) = Last(s, offered[s], hbf.rec[s])
      BY <1>1, <1>2, <1>4, <2>4, <2>8
  <2> QED
      BY <1>1, <1>4, <2>8, <2>9, <2>10, <2>11, LedgerAlong DEF u
<1>5. CASE /\ hbf' = b
           /\ \/ turn' = r
              \/ turn' = [r EXCEPT ![s].stage = "decode"]
  <2>1. /\ turn'[s].reused = turn[s].reused /\ turn'[s].done = turn[s].done
        /\ turn'[s].generated = turn[s].generated
    <3> DEFINE x == r[s]
    <3> HIDE DEF x
    <3> QED
        BY <1>1, <1>5 DEF TurnType
  <2>2. \A t \in Session \ {s} : turn'[t] = turn[t] /\ offered'[t] = offered[t]
      BY <1>1, <1>5
  <2>4. Rests(hbf', turn'[s], offered'[s], s)
      BY <1>1, <1>2, <1>5, <2>1, SameSpan, MaterializedSame
  <2>5. CASE b.rec[s].state = hbf.rec[s].state /\ b.rec[s].group = hbf.rec[s].group
             /\ hbf.rec[s].committed <= b.rec[s].committed
             /\ Last(s, offered[s], b.rec[s]) = Last(s, offered[s], hbf.rec[s])
      BY <1>1, <1>2, <1>5, <2>2, <2>4, <2>5, LedgerAlong
  <2>6. CASE hbf.rec[s].state = "migrating" /\ b.rec[s].state = "hbf_ready"
             /\ b.rec[s].committed = b.rec[s].total
    <3> DEFINE p == hbf.rec[s]
               q == (hbf').rec[s]
               f == Last(s, offered[s], p)
               e == Last(s, offered'[s], q)
    <3>1. p \in RecordType /\ f \in Nat /\ p.committed <= f
      <4> DEFINE m == Middle(turn[s], p)
      <4>1. p \in RecordType /\ m \in Nat /\ f \in Nat /\ p.committed <= m /\ m <= f
          BY <1>1, RestFacts
      <4> HIDE DEF m, f, p
      <4> QED
          BY <4>1, RecordTyping
    <3>2. q \in RecordType /\ e = q.committed /\ e \in Nat /\ q.committed <= e
        BY <1>2, <1>5, <2>6, RecordTyping DEF Last
    <3> HIDE DEF p, q, f, e
    <3>3. ASSUME NEW g \in Group, NEW c \in Card PROVE Load(q, e, g, c) <= Load(p, f, g, c)
        BY <3>1, <3>2, LoadLess
    <3> QED
        BY <1>1, <1>2, <1>5, <2>2, <2>4, <3>3, LedgerStep DEF p, q, f, e
  <2> QED
      BY <1>2, <2>5, <2>6
<1> QED
    BY <1>1, <1>4, <1>5

-----------------------------------------------------------------------------
(* The ledger and the batches.                                             *)

LEMMA LaunchBooked ==
    ASSUME Sound, ~hbf.failed, Sound', ~(hbf').failed, Booked, NEW g \in Group, Launch(g)
    PROVE  Booked'
<1>1. Typed(hbf) /\ \A s \in Session : turn[s] \in TurnType /\ hbf.rec[s] \in RecordType
    BY SessionFacts DEF Sound, Good
<1>a. PICK S \in SUBSET Runnable(g) \ {{}} : \E items \in [S -> 0..setup.chunk] :
        /\ hbf' = IF \E s \in S : Disagrees(s) THEN Raise(hbf) ELSE hbf
        /\ turn' = [s \in Session |-> IF s \in S THEN Copied(turn[s], hbf.rec[s]) ELSE turn[s]]
    BY Zenon DEF Launch
<1>2. setup' = setup /\ offered' = offered
    BY DEF Launch
<1>3. hbf' = hbf
    BY <1>1, <1>a, RaiseFails
<1>4. ASSUME NEW s \in Session PROVE Rests(hbf', turn'[s], offered'[s], s)
  <2> DEFINE u == Copied(turn[s], hbf.rec[s])
  <2>1. u.reused = turn[s].reused /\ u.done = turn[s].done /\ u.generated = turn[s].generated
      BY <1>1, CopiedType
  <2>2. turn'[s] = turn[s] \/ turn'[s] = u
      BY <1>a
  <2> HIDE DEF u
  <2> QED
      BY <1>2, <1>3, <2>1, <2>2, SameSpan, MaterializedSame DEF Booked
<1> QED
    BY <1>2, <1>3, <1>4, BookedPrimed DEF Booked

\* A batch materialises what it was granted.
LEMMA ProgressMaterialized ==
    ASSUME Sound, ~hbf.failed, NEW s \in Session, turn[s].stage \in Running, NEW n \in Grants(s)
    PROVE  Materialized(Progress(s, n)) = Materialized(turn[s]) + n
<1> DEFINE t == turn[s]
           u == Progress(s, n)
           token == t.stage = "decode" \/ Remaining(s) = n
<1>1. /\ t \in TurnType /\ t.reused \in Nat /\ t.done \in Nat /\ t.generated \in Nat
    BY SessionFacts, TurnTyping
<1>2. Live(s) /\ t.stage \in OnHbf /\ t.stage \in {"prefill", "decode"}
    BY DEF Live, OnHbf, Running
<1>3. Progressed(t, Call(s)) /\ Call(s).output \in Nat
    BY <1>2, LiveFacts
<1>4. n \in Nat /\ (t.stage = "decode" => n = 1)
    BY GrantFacts
<1>5. /\ u \in TurnType /\ u.reused = t.reused
      /\ u.done = t.done + (IF t.stage = "prefill" THEN n ELSE 0)
      /\ u.generated = t.generated + (IF token THEN 1 ELSE 0)
    BY <1>1, <1>4, ProgressType
<1>6. /\ u.generated = 0 => Materialized(u) = u.reused + u.done
      /\ u.generated >= 1 => Materialized(u) = u.reused + u.done + u.generated - 1
    BY <1>5, MaterializedType
<1>7. /\ t.generated = 0 => Materialized(t) = t.reused + t.done
      /\ t.generated >= 1 => Materialized(t) = t.reused + t.done + t.generated - 1
    BY <1>1, MaterializedType
<1>9. t.stage = "prefill" => t.generated = 0
    BY <1>3 DEF Progressed
<1> HIDE DEF t, u
<1>10. CASE t.stage = "decode"
    BY <1>1, <1>3, <1>4, <1>5, <1>6, <1>7, <1>10 DEF t, u, Progressed
<1>11. CASE t.stage = "prefill" /\ token
    BY <1>1, <1>4, <1>5, <1>6, <1>7, <1>9, <1>11 DEF t, u
<1>12. CASE t.stage = "prefill" /\ ~token
    BY <1>1, <1>4, <1>5, <1>6, <1>7, <1>9, <1>12 DEF t, u
<1> QED
    BY <1>2, <1>10, <1>11, <1>12

\* A batch leaves a request what it has materialised, and the room for the rest.
LEMMA MovedStored ==
    ASSUME Sound, ~hbf.failed, Booked, setup.refresh, NEW g \in Group, NEW s \in DOMAIN batch[g]
    PROVE  LET r == hbf.rec[s]
               n == batch[g][s]
               m == Materialized(turn[s])
               f == Last(s, offered[s], r)
               c == r.committed IN
           /\ n \in Nat /\ m \in Nat /\ f \in Nat /\ c \in Nat /\ c <= m /\ m + n <= f
           /\ Middle(Progress(s, n), r) = m + n
           /\ Held(hbf, Headroom(s)) = Stripe(m, f - m) /\ Held(hbf, Holder(s)) = Stripe(c, m - c)
           /\ Grown(s, n) = Stripe(c, (m + n) - c)
           /\ Stored(s, r, m, f, hbf.lpddr) /\ Stored(s, r, m + n, f, Moved(g, batch[g]))
<1> DEFINE r == hbf.rec[s]
           n == batch[g][s]
           t == turn[s]
           u == Progress(s, n)
           c == r.committed
           m == Materialized(t)
           f == Last(s, offered[s], r)
           l == Moved(g, batch[g])
           w == f - m
           z == f - (m + n)
<1>1. /\ s \in Session /\ n \in Grants(s) /\ t.stage \in Running /\ r.group = g
      /\ r.state = "hbf_active" /\ t.stage \in OnHbf
    BY BatchFacts
<1>2. n \in Nat /\ g \in Places
    BY <1>1, GrantFacts DEF Places
<1>3. m = Middle(t, r) /\ Middle(u, r) = Materialized(u)
    BY <1>1 DEF Middle
<1>4. /\ r \in RecordType /\ Place(r) /\ m \in Nat /\ f \in Nat /\ c <= m /\ m <= f
      /\ Stored(s, r, m, f, hbf.lpddr)
    BY <1>1, <1>3, RestFacts
<1>5. setup \in Setups /\ offered[s] \in Nat /\ t \in TurnType /\ Fitting(s, t, offered[s], r)
    BY <1>1, SessionFacts
<1>7. Middle(u, r) = m + n
    BY <1>1, <1>3, ProgressMaterialized
<1>8. m + n <= f
    BY <1>1, <1>2, <1>4, <1>5, <1>7, ProgressFits, ProgressType, SpanFacts
<1>9. c \in Nat /\ t.hbf = c
    BY <1>1, <1>4, <1>5, RecordTyping DEF Fitting, Placed
<1>11. Holder(s) \in Owner /\ Headroom(s) \in Owner /\ Holder(s) # Headroom(s)
       /\ Holder(s)[2] = s /\ Headroom(s)[2] = s
    BY <1>1, OwnerFacts DEF Holder, Headroom
<1>12. m - c \in Nat /\ w \in Nat /\ z \in Nat /\ n + z = w /\ (m - c) + n = (m + n) - c
    BY <1>2, <1>4, <1>8, <1>9
<1>13. Grown(s, n) = Stripe(c, (m + n) - c)
    BY <1>9, <1>12 DEF Grown, ActiveLpddr
<1>14. Held(hbf, Headroom(s)) = Stripe(m, w) /\ Held(hbf, Holder(s)) = Stripe(c, m - c)
    BY <1>1, <1>2, <1>4, <1>9, <1>12, StripeType, EntryFacts DEF Held, Stored
<1>15. ASSUME n > 0 PROVE Stored(s, r, m + n, f, l)
  <2>1. l[Holder(s)] = Entry(g, Grown(s, n)) /\ l[Headroom(s)] = Entry(g, Left(s, n))
      BY <1>11, <1>15 DEF Moved
  <2>2. Left(s, n) = Minus(Stripe(m, w), Stripe(m, n))
      BY <1>14 DEF Left, Growth
  <2> HIDE DEF m, w, z, n
  <2>3. Entry(g, Minus(Stripe(m, w), Stripe(m, n))) = Entry(g, Stripe(m + n, z))
      BY <1>2, <1>4, <1>12, EntryMinus
  <2> QED
      BY <1>1, <1>13, <2>1, <2>2, <2>3 DEF Stored, z
<1>16. ASSUME n = 0 PROVE Stored(s, r, m + n, f, l)
    BY <1>4, <1>11, <1>16 DEF Moved, Stored
<1>17. Stored(s, r, m + n, f, l)
    BY <1>2, <1>15, <1>16
<1> HIDE DEF m, f, l, n, u
<1>18. /\ n \in Nat /\ m \in Nat /\ f \in Nat /\ c \in Nat /\ c <= m /\ m + n <= f
       /\ Middle(u, r) = m + n
       /\ Held(hbf, Headroom(s)) = Stripe(m, f - m) /\ Held(hbf, Holder(s)) = Stripe(c, m - c)
       /\ Grown(s, n) = Stripe(c, (m + n) - c)
       /\ Stored(s, r, m, f, hbf.lpddr) /\ Stored(s, r, m + n, f, l)
    BY <1>2, <1>4, <1>7, <1>8, <1>9, <1>13, <1>14, <1>17
<1> QED
    BY <1>18, Zenon DEF m, f, l, n, u

LEMMA CommitRests ==
    ASSUME Sound, ~hbf.failed, Booked, setup.refresh, NEW g \in Group, ~Commit(g, batch[g]).failed,
           NEW s \in DOMAIN batch[g]
    PROVE  Rests(Commit(g, batch[g]), Progress(s, batch[g][s]), offered[s], s)
<1> DEFINE r == hbf.rec[s]
           u == Progress(s, batch[g][s])
           m == Materialized(turn[s])
           n == batch[g][s]
<1> QED
    BY CommitFacts, MovedStored DEF Rests

LEMMA FinishBatchBooked ==
    ASSUME Sound, ~hbf.failed, Sound', ~(hbf').failed, Booked, setup.refresh, NEW g \in Group,
           FinishBatch(g)
    PROVE  Booked'
<1> DEFINE items == batch[g]
           l == Moved(g, items)
<1>1. Typed(hbf) /\ setup \in Setups /\ hbf.lpddr \in Ledgers /\ setup.lpddrCap \in Nat
    BY Typing, SetupFacts DEF Sound, Good, Ledgers
<1>2. /\ hbf' = Commit(g, items)
      /\ turn' = [s \in Session |-> IF s \in DOMAIN items THEN Progress(s, items[s]) ELSE turn[s]]
      /\ setup' = setup /\ offered' = offered
    BY DEF FinishBatch
<1>3. ~Commit(g, items).failed
    BY <1>2
<1>4. Typed(hbf') /\ (hbf').rec = hbf.rec /\ (hbf').lpddr = l /\ Holds(l, g)
  <2> DEFINE c == Commit(g, items)
  <2> QED
      BY <1>2, <1>3, CommitFacts
<1>5. ASSUME NEW s \in Session PROVE Rests(hbf', turn'[s], offered'[s], s)
    BY <1>2, <1>3, <1>4, CommitRests, OwnerFacts DEF Holder, Headroom, Moved, Booked, Rests,
       Stored
<1>6. ASSUME NEW h \in Group PROVE Holds((hbf').lpddr, h)
  <2>1. CASE h = g
      BY <1>4, <2>1
  <2>2. CASE h # g
    <3>2. ASSUME NEW o \in Owner, NEW k \in Card PROVE Occupied(l, o, h, k) <= Occupied(hbf.lpddr, o, h, k)
      <4>1. Occupied(hbf.lpddr, o, h, k) \in Nat
          BY <1>1, UsedSum
      <4>2. l[o] = hbf.lpddr[o] \/ l[o].group \in {g, NoGroup}
          BY DEF Moved, Entry, Nobody
      <4>3. h # NoGroup
          BY <1>1, SetupFacts
      <4> HIDE DEF l
      <4>4. CASE l[o] = hbf.lpddr[o]
          BY <4>1, <4>4 DEF Occupied
      <4>5. CASE l[o].group \in {g, NoGroup}
          BY <2>2, <4>1, <4>3, <4>5 DEF Occupied
      <4> QED
          BY <4>2, <4>4, <4>5
    <3> HIDE DEF l
    <3> QED
        BY <1>1, <1>4, <3>2, HoldsFewer, Typing DEF Ledgers, Booked
  <2> QED
      BY <2>1, <2>2
<1> QED
    BY <1>2, <1>5, <1>6, BookedPrimed

\* A call that starts reserves the room for all it will materialise, or leaves
\* the two media.
LEMMA OfferBooked ==
    ASSUME Sound, ~hbf.failed, Sound', ~(hbf').failed, Booked, NEW s \in Session, Offer(s)
    PROVE  Booked'
<1> DEFINE r      == hbf.rec[s]
           call   == NextCall(s)
           b      == Touch(hbf, s)
           reuse  == Reuse(s)
           growth == call.input - reuse + call.output - 1
           routed == IF r.state = "hbf_ready" THEN RouteHbf(b, s, reuse, growth)
                                              ELSE RouteGpu(b, s, reuse)
           onHbf  == routed.rec[s].state = "hbf_active"
           lost   == r.state = "evicted" \/ (r.state = "hbf_ready" /\ ~onHbf)
           left   == IF lost THEN 0 ELSE reuse
           new    == [NoTurn EXCEPT !.stage = IF onHbf THEN "prefill" ELSE "gpu", !.reused = left]
<1>1. /\ setup \in Setups /\ Good(hbf)
      /\ turn \in [Session -> TurnType] /\ offered \in [Session -> Nat]
      /\ r \in RecordType /\ Place(r)
    BY SessionFacts
<1>2. /\ ~Live(s) /\ offered[s] < Len(setup.script[s])
      /\ hbf' = (IF onHbf THEN Submit(routed, s) ELSE routed)
      /\ turn' = [turn EXCEPT ![s] = IF onHbf THEN Copied(new, routed.rec[s]) ELSE new]
      /\ offered' = [offered EXCEPT ![s] = offered[s] + 1]
      /\ setup' = setup
    BY Zenon DEF Offer
<1>4. /\ call.input \in Nat \ {0} /\ call.output \in Nat \ {0}
      /\ reuse \in Nat /\ reuse <= r.total /\ reuse <= call.input
      /\ Good(b) /\ Spared(hbf, b, s) /\ b.rec = hbf.rec /\ b.lpddr = hbf.lpddr
    BY <1>2, OfferFacts
<1> DEFINE f == call.input + call.output - 1
<1>6. growth \in Nat /\ f \in Nat /\ reuse <= f /\ f - reuse = growth
  <2> HIDE DEF call, reuse
  <2> QED
      BY <1>4
<1>7. /\ offered'[s] = offered[s] + 1
      /\ \A t \in Session \ {s} : turn'[t] = turn[t] /\ offered'[t] = offered[t]
    BY <1>1, <1>2
<1>8. setup.script[s][offered'[s]].input + setup.script[s][offered'[s]].output - 1 = f
    BY <1>7 DEF NextCall
<1> HIDE DEF call, reuse, growth, f, b
<1>10. CASE r.state # "hbf_ready"
  <2>1. routed = RouteGpu(b, s, reuse)
      BY <1>10
  <2> HIDE DEF routed
  <2>2. b.rec[s].state \notin Media /\ r.state \notin Media
      BY <1>2, <1>4, <1>10, IdleFacts DEF Media
  <2>3. /\ Good(routed) /\ Spared(b, routed, s) /\ routed.rec[s].state = "gpu_active"
        /\ routed.lpddr = b.lpddr
      BY <1>1, <1>4, <2>1, <2>2, RouteGpuGood
  <2>4. ~onHbf /\ hbf' = routed
      BY <1>2, <2>3
  <2>5. Spared(hbf, hbf', s)
      BY <1>1, <1>4, <2>3, <2>4, SparedTwice, Typing DEF Good
  <2>6. /\ (hbf').rec[s].state \notin Media
        /\ (hbf').lpddr[Holder(s)] = hbf.lpddr[Holder(s)]
        /\ (hbf').lpddr[Headroom(s)] = hbf.lpddr[Headroom(s)]
      BY <1>4, <2>3, <2>4 DEF Media
  <2> QED
      BY <1>2, <1>7, <2>2, <2>5, <2>6, LedgerEmpty
<1>11. CASE r.state = "hbf_ready"
  <2>1. routed = RouteHbf(b, s, reuse, growth)
      BY <1>11
  <2>h. ~lost \/ ~onHbf
      BY <1>11
  <2> HIDE DEF routed
  <2>2. b.rec[s].state = "hbf_ready" /\ reuse <= b.rec[s].total
      BY <1>4, <1>11
  <2>3. Typed(routed)
      BY <1>1, <1>4, <1>6, <2>1, <2>2, RouteFails
  <2>4. ~routed.failed => /\ Good(routed) /\ Spared(b, routed, s)
                          /\ Taken(b, routed, s, reuse, growth) \/ GivenUp(routed, s, reuse)
      BY <1>1, <1>4, <1>6, <2>1, <2>2, RouteHbfGood
  <2>5. CASE ~onHbf
    <3>1. hbf' = routed /\ ~routed.failed
        BY <1>2, <2>5
    <3>3. Spared(hbf, hbf', s)
        BY <1>1, <1>4, <2>4, <3>1, SparedTwice, Typing DEF Good
    <3> QED
        BY <1>2, <1>7, <2>4, <2>5, <3>1, <3>3, LedgerEmpty DEF Media, GivenUp, Taken
  <2>6. CASE onHbf
    <3> DEFINE q == routed.rec[s]
               v == Stripe(q.committed, q.lpddr)
    <3>1. hbf' = Submit(routed, s) /\ ~SetBytes(routed, q.group, Holder(s), v).failed
        BY <1>2, <2>6 DEF Submit
    <3>2. /\ q \in RecordType /\ q.group \in Places /\ v \in Counts /\ q.committed \in Nat
          /\ q.lpddr \in Nat
        BY <2>3, Typing, RecordTyping, StripeType
    <3>3. Holder(s) \in Owner /\ Headroom(s) \in Owner /\ Holder(s) # Headroom(s)
        BY OwnerFacts
    <3>4. /\ ~routed.failed /\ CanSet(routed, q.group, Holder(s), v)
          /\ (hbf').lpddr = [routed.lpddr EXCEPT ![Holder(s)] = Entry(q.group, v)]
          /\ (hbf').rec = routed.rec
      <4> DEFINE c == SetBytes(routed, q.group, Holder(s), v)
      <4>1. /\ ~routed.failed /\ CanSet(routed, q.group, Holder(s), v) /\ c.rec = routed.rec
            /\ c.lpddr = [routed.lpddr EXCEPT ![Holder(s)] = Entry(q.group, v)]
          BY <2>3, <3>1, <3>2, <3>3, SetFacts
      <4>2. hbf' = c
          BY <3>1 DEF Submit
      <4> HIDE DEF c
      <4> QED
          BY <4>1, <4>2
    <3>6. /\ q.state = "hbf_active" /\ q.group \in Group /\ q.total = reuse
          /\ routed.lpddr[Headroom(s)] = Entry(q.group, Stripe(reuse, growth))
        BY <2>4, <2>6, <3>4 DEF Taken, GivenUp
    <3>8. Spared(hbf, hbf', s)
        BY <1>1, <1>4, <2>4, <3>1, <3>4, SubmitGood, SparedTwice, Typing DEF Good
    <3>9. Materialized(turn'[s]) = reuse
      <4> DEFINE u == Copied(new, q)
      <4>2. new \in TurnType /\ Started(new, "prefill", reuse)
        <5>1. new = [NoTurn EXCEPT !.stage = "prefill", !.reused = reuse]
            BY <2>6, <2>h
        <5> HIDE DEF new
        <5> QED
            BY <1>4, <5>1, NewTurn, Zenon
      <4> HIDE DEF new
      <4>3. u \in TurnType /\ u.reused = reuse /\ u.done = 0 /\ u.generated = 0
          BY <3>2, <4>2, CopiedType DEF Started
      <4>4. turn'[s] = u
          BY <1>1, <1>2, <2>6
      <4> HIDE DEF u
      <4> QED
          BY <1>4, <4>3, <4>4, MaterializedType
    <3> DEFINE p == (hbf').rec[s]
    <3>10. p = q
        BY <3>4
    <3>11. Middle(turn'[s], p) = reuse /\ Last(s, offered'[s], p) = f
        BY <1>8, <3>6, <3>9, <3>10 DEF Middle, Last
    <3>12. Rests(hbf', turn'[s], offered'[s], s)
      <4>1. (hbf').lpddr[Holder(s)] = Entry(q.group, v)
          BY <2>3, <3>3, <3>4, Typing
      <4>2. (hbf').lpddr[Headroom(s)] = Entry(q.group, Stripe(reuse, growth))
          BY <2>3, <3>3, <3>4, <3>6, Typing
      <4>3. q.lpddr = reuse - q.committed
          BY <2>4, <3>2, <3>4, <3>6, GoodFacts DEF Place, Media
      <4> QED
          BY <1>6, <3>10, <3>11, <4>1, <4>2, <4>3 DEF Rests, Stored
    <3>14. ASSUME NEW g \in Group, g # q.group, NEW k \in Card
           PROVE  Load(p, Last(s, offered'[s], p), g, k) <= Load(r, Last(s, offered[s], r), g, k)
      <4> DEFINE e == Last(s, offered[s], r)
      <4>1. e \in Nat /\ r.committed <= e
        <5> DEFINE m == Middle(turn[s], r)
        <5>1. m \in Nat /\ e \in Nat /\ r.committed <= m /\ m <= e
            BY RestFacts
        <5> HIDE DEF m, e
        <5> QED
            BY <1>1, <5>1, RecordTyping
      <4> HIDE DEF e
      <4>3. Stripe(r.committed, e - r.committed) \in Counts
          BY <1>1, <4>1, StripeType, RecordTyping
      <4> QED
          BY <3>10, <3>14, <4>3 DEF e, Load, Counts
    <3> QED
        BY <1>2, <1>7, <3>4, <3>8, <3>12, <3>14, LedgerStep DEF CanSet
  <2> QED
      BY <2>5, <2>6
<1> QED
    BY <1>10, <1>11

-----------------------------------------------------------------------------
(* The ledger along every step.                                            *)

LEMMA SetupKept ==
    ASSUME [Next]_vars
    PROVE  setup' = setup
<1>1. CASE UNCHANGED vars
    BY <1>1 DEF vars
<1>2. CASE Next
  <2>1. ASSUME NEW s \in Session, StartDrain(s) \/ CompleteHbf(s) \/ CompleteGpu(s)
        PROVE  setup' = setup
      BY <2>1 DEF StartDrain, CompleteHbf, CompleteGpu
  <2>2. ASSUME NEW g \in Group, Launch(g) \/ FinishBatch(g) PROVE setup' = setup
      BY <2>2 DEF Launch, FinishBatch
  <2>3. ASSUME NEW j \in hbf.jobs, Finish(j) PROVE setup' = setup
      BY <2>3 DEF Finish
  <2>4. ASSUME NEW s \in Session, \/ Offer(s) \/ StartMigration(s) \/ EvictGpuReady(s)
                                  \/ PublishCheckpoint(s) \/ StartImport(s)
        PROVE  setup' = setup
      BY <2>4 DEF Offer, StartMigration, EvictGpuReady, PublishCheckpoint, StartImport
  <2> QED
      BY <1>2, <2>1, <2>2, <2>3, <2>4 DEF Next, Serve, Decide
<1> QED
    BY <1>1, <1>2

LEMMA InitBooked ==
    ASSUME Init
    PROVE  Booked
<1>1. /\ setup \in Setups
      /\ hbf = [rec |-> [s \in Session |-> Unknown], lru |-> <<>>, jobs |-> {},
                reserved |-> [g \in Group |-> Zero], lpddr |-> [o \in Owner |-> Nobody],
                failed |-> FALSE]
    BY DEF Init, HbfInit
<1>2. ASSUME NEW s \in Session PROVE Rests(hbf, turn[s], offered[s], s)
    BY <1>1, OwnerFacts, NothingStored DEF Unknown, Middle, Last, Rests
<1>3. ASSUME NEW g \in Group PROVE Holds(hbf.lpddr, g)
  <2> SUFFICES ASSUME NEW k \in Card PROVE Used(hbf.lpddr, g)[k] <= setup.lpddrCap
      BY DEF Holds
  <2>1. setup.lpddrCap \in Nat /\ Typed(hbf)
      BY <1>1, InitSound, SetupFacts DEF Sound, Good
  <2> DEFINE f == [o \in Owner |-> Occupied(hbf.lpddr, o, g, k)]
  <2>2. hbf.lpddr \in Ledgers
      BY <2>1, Typing DEF Ledgers
  <2>3. Used(hbf.lpddr, g)[k] = SumFunctionOnSet(f, Owner)
      BY <2>2, UsedSum
  <2>4. \A o \in Owner : f[o] = 0
      BY <1>1, ZeroFacts DEF Occupied, Nobody
  <2> HIDE DEF f
  <2> QED
      BY <2>1, <2>3, <2>4, OwnersFinite, SumZero
<1> QED
    BY <1>2, <1>3 DEF Booked

\* With hosts that publish the moved boundaries.
Ledgered == setup.refresh /\ ~hbf.failed => Booked

LEMMA NextBooked ==
    ASSUME Sound, Ledgered, [Next]_vars
    PROVE  Ledgered'
<1>1. Sound' /\ setup' = setup
    BY NextSound, SetupKept
<1>2. SUFFICES ASSUME setup.refresh, ~(hbf').failed PROVE Booked'
    BY <1>1 DEF Ledgered
<1>3. CASE UNCHANGED vars
    BY <1>1, <1>2, <1>3, BookedPrimed DEF Ledgered, vars, Booked
<1>4. CASE Next
  <2>1. ~hbf.failed /\ Booked
      BY <1>2, <1>4 DEF Next, Ledgered
  <2>2. ASSUME NEW s \in Session, StartDrain(s) PROVE Booked'
      BY <1>1, <1>2, <2>1, <2>2, StartDrainBooked
  <2>3. ASSUME NEW s \in Session, CompleteHbf(s) PROVE Booked'
      BY <1>1, <1>2, <2>1, <2>3, CompleteHbfBooked
  <2>4. ASSUME NEW s \in Session, CompleteGpu(s) PROVE Booked'
      BY <1>1, <1>2, <2>1, <2>4, CompleteGpuBooked
  <2>5. ASSUME NEW g \in Group, Launch(g) PROVE Booked'
      BY <1>1, <1>2, <2>1, <2>5, LaunchBooked
  <2>6. ASSUME NEW g \in Group, FinishBatch(g) PROVE Booked'
      BY <1>1, <1>2, <2>1, <2>6, FinishBatchBooked
  <2>7. ASSUME NEW j \in hbf.jobs, Finish(j) PROVE Booked'
      BY <1>1, <1>2, <2>1, <2>7, FinishBooked
  <2>8. ASSUME NEW s \in Session, Offer(s) PROVE Booked'
      BY <1>1, <1>2, <2>1, <2>8, OfferBooked
  <2>9. ASSUME NEW s \in Session, StartMigration(s) \/ StartImport(s) PROVE Booked'
      BY <1>1, <1>2, <2>1, <2>9, StartMigrationBooked
  <2>10. ASSUME NEW s \in Session, EvictGpuReady(s) PROVE Booked'
      BY <1>1, <1>2, <2>1, <2>10, EvictGpuReadyBooked
  <2>11. ASSUME NEW s \in Session, PublishCheckpoint(s) PROVE Booked'
      BY <1>1, <1>2, <2>1, <2>11, PublishCheckpointBooked
  <2> QED
      BY <1>4, <2>2, <2>3, <2>4, <2>5, <2>6, <2>7, <2>8, <2>9, <2>10, <2>11
         DEF Next, Serve, Decide
<1> QED
    BY <1>3, <1>4

LEMMA HeldFacts ==
    ASSUME NEW s \in Session, NEW r, r.group \in Places, NEW a \in Nat, NEW n \in Nat, NEW o,
           hbf.lpddr[o] = Entry(r.group, Stripe(a, n))
    PROVE  /\ Held(hbf, o) = Stripe(a, n)
           /\ Held(hbf, o) # Zero => hbf.lpddr[o].group = r.group
<1>1. Stripe(a, n) \in Counts
    BY StripeType
<1> QED
    BY <1>1, EntryFacts DEF Held, Entry

LEMMA BookedExact ==
    ASSUME Sound, ~hbf.failed, Booked
    PROVE  LpddrBooksExact
<1> SUFFICES ASSUME NEW s \in Session
             PROVE  /\ Held(hbf, Holder(s)) = Owed(s)[1] /\ Held(hbf, Headroom(s)) = Owed(s)[2]
                    /\ \E a, b : Owed(s) = <<a, b>>
                    /\ \A o \in {Holder(s), Headroom(s)} :
                         Held(hbf, o) # Zero => hbf.lpddr[o].group = hbf.rec[s].group
    BY DEF LpddrBooksExact, Booked
<1> DEFINE r == hbf.rec[s]
           c == r.committed
           m == Middle(turn[s], r)
           f == Last(s, offered[s], r)
<1>1. /\ r \in RecordType /\ Place(r) /\ m \in Nat /\ f \in Nat /\ c <= m /\ m <= f
      /\ Stored(s, r, m, f, hbf.lpddr)
    BY RestFacts
<1>2. /\ setup \in Setups /\ turn[s] \in TurnType /\ offered[s] \in Nat
      /\ Fitting(s, turn[s], offered[s], r)
    BY SessionFacts
<1>3. /\ r.state = "hbf_ready" => m = r.total /\ f = r.total
      /\ r.state \in Media => c + r.lpddr = r.total
      /\ r.state \notin Media => c = 0 /\ m = 0 /\ f = 0
    BY <1>1, <1>2, SpanFacts
<1>4. c \in Nat /\ r.lpddr \in Nat /\ r.group \in Places /\ m - c \in Nat /\ f - m \in Nat
    BY <1>1, RecordTyping
<1>5. /\ Held(hbf, Holder(s)) = Stripe(c, m - c) /\ Held(hbf, Headroom(s)) = Stripe(m, f - m)
      /\ \A o \in {Holder(s), Headroom(s)} : Held(hbf, o) # Zero => hbf.lpddr[o].group = r.group
  <2>1. /\ hbf.lpddr[Holder(s)] = Entry(r.group, Stripe(c, m - c))
        /\ hbf.lpddr[Headroom(s)] = Entry(r.group, Stripe(m, f - m))
      BY <1>1 DEF Stored
  <2> HIDE DEF c, m, f, r
  <2> DEFINE v == m - c
             w == f - m
  <2> HIDE DEF v, w
  <2> QED
      BY <1>1, <1>4, <2>1, HeldFacts DEF v, w
<1>6. CASE r.state = "hbf_ready"
    BY <1>1, <1>3, <1>4, <1>5, <1>6, StripeNone DEF Media, Owed
<1>7. CASE r.state = "hbf_active"
    BY <1>2, <1>5, <1>7, LiveFacts DEF Middle, Fitting, OnHbf, Live, Last, Owed
<1>8. CASE r.state \notin {"hbf_ready", "hbf_active"}
  <2> HIDE DEF m, c, f
  <2> QED
      BY <1>3, <1>5, <1>8 DEF Owed, Zero, Media
<1> QED
    BY <1>6, <1>7, <1>8

(* The LPDDR of the servers neither loses nor doubles a token, for any     *)
(* number of groups, cards and sessions, any script and any policy of a    *)
(* host that publishes the moved boundaries: an idle context holds what    *)
(* lies behind its committed prefix, a live request what it has            *)
(* materialised there and the room for exactly what it still will, through *)
(* every batch, drain, append, trim and abandonment, and no card is ever   *)
(* overfull (_commit_lpddr_growth, set_card_bytes, assert_invariants).     *)
THEOREM LpddrStaysExact == Spec => [](setup.refresh /\ ~hbf.failed => LpddrBooksExact)
<1>1. Init => Ledgered
    BY InitBooked DEF Ledgered
<1>2. Sound /\ Ledgered /\ [Next]_vars => Ledgered'
    BY NextBooked
<1>3. Sound /\ Ledgered => (setup.refresh /\ ~hbf.failed => LpddrBooksExact)
    BY BookedExact DEF Ledgered
<1> QED
    BY <1>1, <1>2, <1>3, AlwaysSound, PTL DEF Spec

-----------------------------------------------------------------------------
(* No check fires. First when the operators do not raise: Free returns     *)
(* what is reserved, Reserve asks for room that is there.                  *)

Intact(b) == Typed(b) /\ Exact(b) /\ ~b.failed

LEMMA ReserveRuns ==
    ASSUME NEW b, Typed(b), ~b.failed, NEW g \in Group, NEW v
    PROVE  /\ (\A c \in Card : b.reserved[g][c] + v[c] <= setup.hbfCap) => ~Reserve(b, g, v).failed
           /\ Within(v, b.reserved[g]) => ~Free(b, g, v).failed
    BY Typing DEF Reserve, Free

LEMMA FreedReserved ==
    ASSUME NEW b, Typed(b), Exact(b), NEW g \in Group, NEW vs \in SUBSET Session,
           \A s \in vs : b.rec[s].group = g
    PROVE  Within(SumOf([s \in vs |-> Committed(b.rec[s])]), b.reserved[g])
<1> DEFINE v == SumOf([s \in vs |-> Committed(b.rec[s])])
           new == [s \in Session |-> IF s \in vs THEN Evicted(b.rec[s]) ELSE b.rec[s]]
<1> SUFFICES ASSUME NEW k \in Card PROVE v[k] <= b.reserved[g][k]
    BY DEF Within
<1>1. b.rec \in [Session -> RecordType] /\ b.jobs \in SUBSET JobType /\ IsFiniteSet(b.jobs)
    BY Typing
<1> HIDE DEF v
<1>2. Kept(new, g, k) = Kept(b.rec, g, k) - v[k]
  <2>1. ASSUME NEW h \in Group, NEW i \in Card
        PROVE  Kept(new, h, i) = Kept(b.rec, h, i) - (IF h = g THEN v[i] ELSE 0)
      BY <1>1, KeptEvict DEF v
  <2> HIDE DEF new
  <2> QED
      BY <2>1
<1>5. new \in [Session -> RecordType]
    BY <1>1, EvictedType
<1>3. v[k] \in Nat
    BY <1>1, FreedFacts DEF Counts, v
<1> HIDE DEF new
<1> QED
    BY <1>1, <1>2, <1>3, <1>5, KeptType, FlyingType DEF Exact

LEMMA ContextReserved ==
    ASSUME NEW b, Typed(b), Exact(b), NEW s \in Session, NEW g \in Group, b.rec[s].group = g
    PROVE  Within(Committed(b.rec[s]), b.reserved[g])
<1> SUFFICES ASSUME NEW k \in Card PROVE Committed(b.rec[s])[k] <= b.reserved[g][k]
    BY DEF Within
<1> DEFINE r == b.rec[s]
           q == Evicted(r)
           new == [b.rec EXCEPT ![s] = q]
<1>1. /\ b.rec \in [Session -> RecordType] /\ b.jobs \in SUBSET JobType /\ IsFiniteSet(b.jobs)
      /\ r \in RecordType
    BY Typing
<1>2. q \in RecordType /\ Share(q, g, k) = 0
    BY <1>1, EvictedType, NoShare
<1> HIDE DEF q
<1>4. Kept(new, g, k) = Kept(b.rec, g, k) - Share(r, g, k) + 0
    BY <1>1, <1>2, KeptChange
<1>5. new \in [Session -> RecordType]
    BY <1>1, <1>2
<1> HIDE DEF r, new
<1>6. Kept(new, g, k) \in Nat /\ Kept(b.rec, g, k) \in Nat /\ Flying(b.jobs, g, k) \in Nat
    BY <1>1, <1>5, KeptType, FlyingType
<1> QED
    BY <1>1, <1>4, <1>6, ShareType DEF Exact, r, Share

LEMMA JobReserved ==
    ASSUME NEW b, Typed(b), Exact(b), NEW j \in b.jobs
    PROVE  Within(JobBytes(j), b.reserved[j.group])
<1> SUFFICES ASSUME NEW k \in Card PROVE JobBytes(j)[k] <= b.reserved[j.group][k]
    BY DEF Within
<1> DEFINE e == Ends(b, j)
           g == j.group
<1>1. g \in Group /\ b.rec \in [Session -> RecordType]
    BY Typing, JobTyping
<1>2. /\ Typed(e) /\ JobShare(j, g, k) = JobBytes(j)[k] /\ JobShare(j, g, k) \in Nat
      /\ Flying(b.jobs, g, k) \in Nat /\ Flying(e.jobs, g, k) = Flying(b.jobs, g, k) - JobShare(j, g, k)
    BY <1>1, EndsFacts
<1> HIDE DEF e
<1>3. Flying(e.jobs, g, k) \in Nat /\ Kept(b.rec, g, k) \in Nat
    BY <1>1, <1>2, FlyingType, KeptType, Typing
<1> QED
    BY <1>1, <1>2, <1>3 DEF Exact

LEMMA EnsureRuns ==
    ASSUME setup \in Setups, NEW b, Intact(b), NEW g \in Group, NEW v \in Counts
    PROVE  Intact(EnsureCapacity(b, g, v))
<1> DEFINE vs == Victims(b, g, v)
           w == SumOf([s \in vs |-> Committed(b.rec[s])])
<1>1. Typed(b) /\ Exact(b) /\ ~b.failed
    BY DEF Intact
<1>4. ~Free(b, g, w).failed
    BY <1>1, ReserveRuns, FreedReserved, VictimsEvictable
<1>5. ~EnsureCapacity(b, g, v).failed
    BY <1>1, <1>4, EnsureTyped
<1> QED
    BY <1>1, <1>5, EnsureFacts DEF Intact

LEMMA StartAppendRuns ==
    ASSUME setup \in Setups, NEW b, Intact(b), NEW s \in Session, b.rec[s].group \in Group,
           NEW start \in Nat, NEW count \in Nat
    PROVE  ~StartAppend(b, s, start, count).failed
<1> DEFINE g == b.rec[s].group
           v == Stripe(start, count)
           e == EnsureCapacity(b, g, v)
           d == Reserve(e, g, v)
           j == Job("append", s, b.rec[s], start, count)
<1>1. v \in Counts
    BY StripeType
<1>2. StartAppend(b, s, start, count) = IF Fits(e, g, v, {}) THEN [d EXCEPT !.jobs = @ \cup {j}] ELSE e
    BY DEF StartAppend
<1> HIDE DEF v, j
<1>3. Typed(e) /\ ~e.failed
    BY <1>1, EnsureRuns DEF Intact
<1> HIDE DEF e
<1>4. Typed(d)
    BY <1>1, <1>3, FreeTyped
<1>5. Fits(e, g, v, {}) => ~d.failed
  <2> DEFINE z == SumOf([t \in {} |-> Committed(e.rec[t])])
  <2>1. \A k \in Card : z[k] = 0
      BY <1>3, Typing, FreedFacts, SumEmpty
  <2>2. setup.hbfCap \in Nat
      BY SetupFacts
  <2>3. Fits(e, g, v, {}) <=> \A k \in Card : e.reserved[g][k] + v[k] <= setup.hbfCap + z[k]
      BY DEF Fits
  <2> HIDE DEF z, g
  <2> QED
      BY <1>3, <2>1, <2>2, <2>3, ReserveRuns DEF g
<1> HIDE DEF d
<1> QED
    BY <1>2, <1>3, <1>4, <1>5, Typing

(* Whoever has been served is known to the order of access, so all that    *)
(* may be evicted is found there.                                          *)
Enlisted(l, t) == \E i \in DOMAIN l : l[i] = t
Listed(b) == \A t \in Session : b.rec[t].state = "hbf_ready" => Enlisted(b.lru, t)

LEMMA TouchLists ==
    ASSUME NEW b, Typed(b), NEW s \in Session
    PROVE  LET c == Touch(b, s) IN
           Enlisted(c.lru, s) /\ \A t \in Session : Enlisted(b.lru, t) => Enlisted(c.lru, t)
<1> DEFINE k == Only(b.lru, Session \ {s})
           l == Append(k, s)
<1>1. b.lru \in Seq(Session) /\ Touch(b, s).lru = l
    BY Typing, TouchFacts
<1>2. /\ k \in Seq(Session)
      /\ \A x : Occurrences(x, k) = IF x \in Session \ {s} THEN Occurrences(x, b.lru) ELSE 0
    BY <1>1, OnlyFacts
<1> HIDE DEF k
<1>3. /\ l \in Seq(Session) /\ l[Len(k) + 1] = s /\ Len(k) + 1 \in DOMAIN l
      /\ \A i \in DOMAIN k : i \in DOMAIN l /\ l[i] = k[i]
    BY <1>2
<1> HIDE DEF l
<1>4. ASSUME NEW t \in Session \ {s}, Enlisted(b.lru, t) PROVE Enlisted(l, t)
    BY <1>1, <1>2, <1>3, <1>4, OccMember DEF Enlisted
<1> QED
    BY <1>1, <1>3, <1>4 DEF Enlisted

LEMMA LeastFacts ==
    ASSUME NEW n \in Nat, NEW S \in SUBSET (0..n), S # {}
    PROVE  Min(S) \in S
<1>1. S \subseteq Nat
    OBVIOUS
<1> QED
    BY <1>1, LeastMember DEF Min

\* What makes the room is there, when all that may be evicted would do.
LEMMA VictimsSuffice ==
    ASSUME setup \in Setups, NEW b, Intact(b), Listed(b), NEW g \in Group, NEW v \in Counts,
           Fits(b, g, v, Evictable(b, g))
    PROVE  \A k \in Card : EnsureCapacity(b, g, v).reserved[g][k] + v[k] <= setup.hbfCap
<1> DEFINE E == Evictable(b, g)
           vs == Victims(b, g, v)
           enough == {n \in 0..Len(b.lru) : Fits(b, g, v, Oldest(b, g, n))}
           e == EnsureCapacity(b, g, v)
           Freed(S) == SumOf([t \in S |-> Committed(b.rec[t])])
<1>1. /\ Typed(b) /\ Exact(b) /\ ~b.failed /\ b.lru \in Seq(Session) /\ setup.hbfCap \in Nat
      /\ b.rec \in [Session -> RecordType] /\ b.reserved[g] \in Counts
    BY Typing, SetupFacts DEF Intact
<1>2. E \subseteq Session /\ \A t \in E : b.rec[t].group = g /\ b.rec[t].state = "hbf_ready"
  <2>1. /\ Victims(b, g, v) \subseteq Evictable(b, g)
        /\ Evictable(b, g) \subseteq Session
        /\ \A t \in Evictable(b, g) : (b.rec[t].group = g /\ b.rec[t].state = "hbf_ready")
                                      /\ b.rec[t].lpddr = 0
      BY VictimsEvictable
  <2> QED
      BY <2>1
<1>3. \A S \in SUBSET E : Freed(S) \in Counts
  <2> SUFFICES ASSUME NEW S \in SUBSET E PROVE Freed(S) \in Counts
      OBVIOUS
  <2>1. S \in SUBSET Session
      BY <1>2
  <2> QED
      BY <1>1, <2>1, FreedFacts
<1>4. \A S \in SUBSET E : Fits(b, g, v, S) <=>
        \A k \in Card : b.reserved[g][k] + v[k] <= setup.hbfCap + Freed(S)[k]
    BY DEF Fits
<1>5. Within(Freed(E), b.reserved[g])
    BY <1>1, <1>2, FreedReserved
<1> HIDE DEF Freed
<1>6. ~\E k \in Card : v[k] > setup.hbfCap
  <2> SUFFICES ASSUME NEW k \in Card PROVE v[k] <= setup.hbfCap
      BY <1>1 DEF Counts
  <2> QED
      BY <1>1, <1>3, <1>4, <1>5 DEF Within, Counts
<1>7. Len(b.lru) \in enough
  <2>1. DOMAIN b.lru = 1..Len(b.lru) /\ Len(b.lru) \in 0..Len(b.lru)
      BY <1>1
  <2> QED
      BY <1>2, <2>1 DEF Oldest, Listed, Enlisted
<1>9. Min(enough) \in enough
  <2>1. Len(b.lru) \in Nat /\ enough \in SUBSET (0..Len(b.lru)) /\ enough # {}
      BY <1>1, <1>7
  <2> HIDE DEF enough
  <2> QED
      BY <2>1, LeastFacts
<1>10. vs \in SUBSET E /\ Fits(b, g, v, vs)
    BY <1>6, <1>7, <1>9 DEF Oldest, Victims
<1> HIDE DEF vs, e, E
<1>11. \A k \in Card : e.reserved[g][k] = b.reserved[g][k] - Freed(vs)[k]
  <2>1. ~EnsureCapacity(b, g, v).failed
      BY EnsureRuns DEF Intact
  <2>2. Typed(b)
      BY <1>1
  <2>3. LET c == EnsureCapacity(b, g, v)
            xs == Victims(b, g, v) IN
        /\ ~b.failed /\ Typed(c)
        /\ c.jobs = b.jobs /\ c.lru = b.lru
        /\ c.rec = [s \in Session |-> IF s \in xs THEN Evicted(b.rec[s]) ELSE b.rec[s]]
        /\ c.lpddr = [o \in Owner |-> IF o \in {Holder(s) : s \in xs} THEN Nobody ELSE b.lpddr[o]]
        /\ \A k \in Card : SumOf([s \in xs |-> Committed(b.rec[s])])[k] <= b.reserved[g][k]
        /\ \A h \in Group, k \in Card :
             c.reserved[h][k] = b.reserved[h][k]
                 - (IF h = g THEN SumOf([s \in xs |-> Committed(b.rec[s])])[k] ELSE 0)
        /\ (Exact(b) => Exact(c))
      BY <2>1, <2>2, EnsureFacts, Zenon
  <2> QED
      BY <2>3, Zenon DEF e, Freed, vs
<1> SUFFICES ASSUME NEW k \in Card PROVE e.reserved[g][k] + v[k] <= setup.hbfCap
    BY DEF e
<1>13. Freed(vs)[k] \in Nat /\ b.reserved[g][k] \in Nat /\ v[k] \in Nat
    BY <1>1, <1>3, <1>10 DEF Counts
<1> QED
    BY <1>1, <1>4, <1>10, <1>11, <1>13

LEMMA MigrateRuns ==
    ASSUME setup \in Setups, NEW b, Intact(b), Listed(b), NEW s \in Session
    PROVE  ~Migrate(b, s, "gpu", TRUE).failed
<1> DEFINE r == b.rec[s]
           v == Stripe(0, r.total)
           gs == {g \in Group : Fits(b, g, v, Evictable(b, g))}
           g == Roomiest(b, v, gs)
           e == EnsureCapacity(b, g, v)
           d == Reserve(e, g, v)
           m == Migrating(r, g, "gpu")
<1>1. Typed(b) /\ ~b.failed /\ r \in RecordType
    BY Typing DEF Intact
<1>2. v \in Counts
    BY <1>1, RecordTyping, StripeType
<1>3. Migrate(b, s, "gpu", TRUE) = IF gs = {} THEN [b EXCEPT !.rec[s].state = "gpu_ready"]
        ELSE [d EXCEPT !.rec[s] = m, !.jobs = @ \cup {Job("migration", s, m, 0, r.total)}]
    BY DEF Migrate, Migrating
<1> HIDE DEF v, m, r
<1>4. ASSUME gs # {} PROVE Typed(d) /\ ~d.failed
  <2>1. g \in gs
    <3>1. gs \in SUBSET Group
        OBVIOUS
    <3> HIDE DEF gs
    <3> QED
        BY <1>1, <1>2, <1>4, <3>1, RoomiestIn
  <2>2. g \in Group /\ Fits(b, g, v, Evictable(b, g))
    <3> DEFINE h == g
    <3>1. h \in gs
        BY <2>1
    <3> HIDE DEF h
    <3> QED
        BY <3>1 DEF h
  <2> HIDE DEF g, e
  <2> QED
      BY <1>2, <2>2, FreeTyped, ReserveRuns, EnsureRuns, VictimsSuffice DEF Intact, e
<1> HIDE DEF d, gs
<1> QED
    BY <1>1, <1>3, <1>4, Typing


(* The elementary steps of a handler, and what they leave of the order of  *)
(* access.                                                                 *)
LEMMA IntactAlike ==
    ASSUME NEW b, Intact(b), NEW c, Typed(c), ~c.failed, c.rec = b.rec, c.jobs = b.jobs,
           c.reserved = b.reserved
    PROVE  Intact(c)
    BY DEF Intact, Exact

LEMMA IntactTouch ==
    ASSUME NEW b, Intact(b), NEW s \in Session
    PROVE  Intact(Touch(b, s)) /\ Touch(b, s).rec = b.rec /\ Touch(b, s).lpddr = b.lpddr
<1>1. Typed(b) /\ ~b.failed
    BY DEF Intact
<1>2. LET c == Touch(b, s) IN
      /\ Typed(c) /\ c.failed = b.failed
      /\ c.rec = b.rec /\ c.jobs = b.jobs /\ c.reserved = b.reserved /\ c.lpddr = b.lpddr
    BY <1>1, TouchFacts
<1> QED
    BY <1>1, <1>2, IntactAlike

LEMMA IntactWrite ==
    ASSUME setup \in Setups, NEW b, Intact(b), NEW s \in Session, NEW q \in RecordType,
           SameShare(b.rec[s], q), NEW c, RecordTo(b, c, s, q)
    PROVE  Intact(c) /\ Wrote(b, c, s, q, b.jobs)
<1>1. Typed(b) /\ Exact(b) /\ ~b.failed
    BY DEF Intact
<1>2. Wrote(b, c, s, q, b.jobs)
    BY <1>1, RecordSet
<1>3. /\ Typed(c) /\ c.rec[s] = q /\ c.jobs = b.jobs /\ c.failed = b.failed
      /\ c.reserved = b.reserved /\ \A t \in Session \ {s} : c.rec[t] = b.rec[t]
    BY <1>2 DEF Wrote
<1>5. Shifts(b, c, s)
    BY <1>1, <1>3, Typing, ShareType DEF Shifts, SameShare, Counts
<1>6. Exact(c)
    BY <1>1, <1>3, <1>5, ShiftExact
<1> QED
    BY <1>1, <1>2, <1>3, <1>6 DEF Intact

LEMMA EndRuns ==
    ASSUME NEW b, Intact(b), NEW s \in Session
    PROVE  ~End(b, s).failed
<1> DEFINE r == b.rec[s]
           x == Drop(b, Headroom(s))
           c == Drop(x, Holder(s))
           d == IF r.group = NoGroup THEN c ELSE Free(c, r.group, Committed(r))
<1>1. Typed(b) /\ Exact(b) /\ ~b.failed /\ Holder(s) \in Owner /\ Headroom(s) \in Owner
    BY OwnerFacts DEF Intact
<1>2. /\ Typed(x) /\ x.failed = b.failed /\ x.rec = b.rec /\ x.jobs = b.jobs
      /\ x.reserved = b.reserved
    BY <1>1, DropFacts
<1> HIDE DEF x
<1>3. /\ Typed(c) /\ c.failed = b.failed /\ c.rec = b.rec /\ c.jobs = b.jobs
      /\ c.reserved = b.reserved
    BY <1>1, <1>2, DropFacts
<1>4. End(b, s) = [d EXCEPT !.rec[s] = [Without(r) EXCEPT !.state = "ended", !.source = "none"]]
    BY DEF End, x
<1> HIDE DEF c
<1>5. r \in RecordType /\ r.group \in Group \cup {NoGroup}
    BY <1>1, Typing, RecordTyping DEF Places
<1>6. CASE r.group = NoGroup
    BY <1>1, <1>3, <1>4, <1>6, Typing
<1>7. CASE r.group \in Group
  <2> DEFINE g == r.group
             v == Committed(r)
             f == Free(c, g, v)
  <2>1. Within(v, c.reserved[g])
      BY <1>1, <1>3, <1>7, ContextReserved
  <2>2. v \in Counts
      BY <1>5, <1>7, CardFacts, ShareType
  <2> HIDE DEF v
  <2>3. Typed(f) /\ ~f.failed
      BY <1>1, <1>3, <1>7, <2>1, <2>2, ReserveRuns, FreeTyped
  <2>5. d = f
      BY <1>7, SetupFacts DEF NoGroup, Group, v
  <2> HIDE DEF f, d
  <2> QED
      BY <1>4, <2>3, <2>5, Typing
<1> QED
    BY <1>5, <1>6, <1>7

(* The handlers of turns.                                                  *)
LEMMA CompleteGpuRuns ==
    ASSUME setup \in Setups, NEW b, Good(b), ~b.failed, Listed(b), NEW s \in Session,
           b.rec[s].state = "gpu_active", NEW final \in Nat, NEW successor \in BOOLEAN,
           NEW start \in BOOLEAN
    PROVE  ~CompleteGpuTurn(b, s, final, successor, start).failed
<1> DEFINE r == b.rec[s]
           x == Touch(b, s)
           q == Published(r, final)
           d == [x EXCEPT !.rec[s] = q]
<1>1. Intact(b) /\ r \in RecordType /\ Place(r)
    BY GoodFacts DEF Intact
<1>2. Intact(x) /\ x.rec = b.rec /\ Typed(x)
    BY <1>1, IntactTouch DEF Intact
<1>3. /\ q \in RecordType /\ q.state = "gpu_active" /\ q.committed = r.committed
      /\ q.group = r.group
    BY <1>1, PublishedType
<1>4. RecordTo(x, d, s, q) /\ SameShare(x.rec[s], q)
    BY <1>2, <1>3, ShareKept DEF RecordTo
<1>5. d.rec[s] = q
    BY <1>1, <1>2, Typing
<1>6. CompleteGpuTurn(b, s, final, successor, start)
        = IF ~successor THEN End(d, s)
          ELSE IF start THEN Migrate(d, s, "gpu", TRUE)
          ELSE [d EXCEPT !.rec[s] = [@ EXCEPT !.state = "gpu_ready", !.group = NoGroup]]
    BY DEF CompleteGpuTurn, Published
<1>7. \A t \in Session : Enlisted(b.lru, t) => Enlisted(x.lru, t)
    BY <1>1, TouchLists DEF Intact
<1> HIDE DEF x, q, d
<1>8. Intact(d) /\ Wrote(x, d, s, q, x.jobs)
    BY <1>2, <1>3, <1>4, IntactWrite
<1>9. d.lru = x.lru /\ (\A t \in Session \ {s} : d.rec[t] = b.rec[t]) /\ Typed(d) /\ ~d.failed
    BY <1>2, <1>8 DEF Wrote, Intact
<1>10. Listed(d)
    BY <1>3, <1>5, <1>7, <1>9 DEF Listed
<1>12. ~[d EXCEPT !.rec[s] = [@ EXCEPT !.state = "gpu_ready", !.group = NoGroup]].failed
    BY <1>9, Typing
<1> QED
    BY <1>6, <1>8, <1>10, <1>12, EndRuns, MigrateRuns

\* An entry set to what it is.
LEMMA SetSame ==
    ASSUME NEW b, Typed(b), ~b.failed, NEW g, NEW o \in Owner, NEW v, b.lpddr[o] = Entry(g, v),
           Holds(b.lpddr, g)
    PROVE  ~SetBytes(b, g, o, v).failed
<1> QED
    BY Typing DEF SetBytes, CanSet, Ledgers

LEMMA CompleteHbfRuns ==
    ASSUME setup \in Setups, NEW b, Good(b), ~b.failed, NEW s \in Session,
           b.rec[s].state = "hbf_active", NEW final \in Nat, b.rec[s].total <= final,
           NEW successor \in BOOLEAN, NEW n, n = b.rec[s].lpddr + final - b.rec[s].total,
           b.lpddr[Holder(s)] = Entry(b.rec[s].group, Stripe(b.rec[s].committed, n)),
           b.lpddr[Headroom(s)] = Nobody, Holds(b.lpddr, b.rec[s].group)
    PROVE  ~CompleteHbfTurn(b, s, final, successor).failed
<1> DEFINE r == b.rec[s]
           target == Stripe(r.committed, n)
           kept == Drop(b, Headroom(s))
           c == IF successor THEN SetBytes(kept, r.group, Holder(s), target) ELSE kept
           x == Touch(c, s)
           q == Renewed(r, final)
           d == [x EXCEPT !.rec[s] = q]
           p == HbfReady(q, n)
           e == [d EXCEPT !.rec[s] = p]
           k == InFlight(b, s)
<1>1. Intact(b) /\ Typed(b) /\ r \in RecordType /\ Place(r) /\ DOMAIN b.lpddr = Owner
    BY GoodFacts, Typing DEF Intact
<1>2. /\ r.group \in Group /\ r.group \in Places /\ n \in Nat /\ r.committed \in Nat
      /\ target \in Counts
    BY <1>1, RecordTyping, StripeType DEF Place, Media
<1>3. Holder(s) \in Owner /\ Headroom(s) \in Owner
    BY OwnerFacts
<1>4. k \in Nat
    BY InFlightFacts
<1>6. Intact(kept) /\ Typed(kept) /\ kept.rec = b.rec /\ kept.lpddr = b.lpddr
  <2> HIDE DEF kept
  <2> QED
      BY <1>1, <1>3, Typing, IntactAlike, DropFacts DEF kept
<1>7. Intact(c) /\ c.rec = b.rec
  <2> HIDE DEF kept, target
  <2> QED
      BY <1>2, <1>3, <1>6, IntactAlike, SetSame, SetKeeps DEF Intact, target
<1>8. CompleteHbfTurn(b, s, final, successor)
        = IF ~successor THEN End(d, s)
          ELSE IF n - k <= 0 THEN e ELSE StartAppend(e, s, r.committed + k, n - k)
  <2> DEFINE y == [d EXCEPT !.rec[s] = [@ EXCEPT !.state = "hbf_ready", !.lpddr = n]]
  <2>1. CompleteHbfTurn(b, s, final, successor)
          = IF ~successor THEN End(d, s)
            ELSE IF n - k <= 0 THEN y ELSE StartAppend(y, s, r.committed + k, n - k)
      BY DEF CompleteHbfTurn, Renewed, Held, Nobody
  <2>2. Typed(x) /\ x.rec = b.rec
      BY <1>7, IntactTouch DEF Intact
  <2> HIDE DEF x, q
  <2>3. d.rec[s] = q
      BY <1>1, <2>2, Typing
  <2>4. e = y
      BY <2>3 DEF HbfReady
  <2> QED
      BY <2>1, <2>4
<1>9. Intact(x) /\ x.rec = b.rec
    BY <1>7, IntactTouch
<1>10. /\ q \in RecordType /\ q.committed = r.committed /\ q.group = r.group
       /\ p \in RecordType /\ p.committed = r.committed /\ p.group = r.group
  <2>1. q \in RecordType /\ q.committed = r.committed /\ q.group = r.group
      BY <1>1, GrownType
  <2> HIDE DEF q
  <2> QED
      BY <1>2, <2>1, HbfReadyType
<1>11. /\ RecordTo(x, d, s, q) /\ RecordTo(d, e, s, p)
       /\ SameShare(r, q) /\ SameShare(q, p)
    BY <1>10, ShareKept DEF RecordTo
<1> HIDE DEF x, q, d, p, e, k
<1>12. Intact(d) /\ d.rec[s] = q
  <2>1. Intact(d) /\ Wrote(x, d, s, q, x.jobs)
      BY <1>9, <1>10, <1>11, IntactWrite
  <2> QED
      BY <2>1 DEF Wrote
<1>13. Intact(e) /\ e.rec[s] = p
  <2>1. Intact(e) /\ Wrote(d, e, s, p, d.jobs)
      BY <1>10, <1>11, <1>12, IntactWrite
  <2> QED
      BY <2>1 DEF Wrote
<1>15. n - k > 0 => ~StartAppend(e, s, r.committed + k, n - k).failed
    BY <1>2, <1>4, <1>10, <1>13, StartAppendRuns
<1>16. n - k > 0 \/ n - k <= 0
    BY <1>2, <1>4
<1> QED
    BY <1>8, <1>12, <1>13, <1>15, <1>16, EndRuns DEF Intact

LEMMA DrainRuns ==
    ASSUME setup \in Setups, NEW b, Good(b), ~b.failed, NEW s \in Session,
           b.rec[s].state = "hbf_active", NEW total \in Nat, b.rec[s].total <= total,
           setup.tail >= 0,
           Held(b, Holder(s)) = Stripe(b.rec[s].committed, b.rec[s].lpddr + total - b.rec[s].total)
    PROVE  ~Drain(b, s, total).failed
<1> DEFINE r == b.rec[s]
           n == r.lpddr + total - r.total
           x == Touch(b, s)
           q == Adopted(r, total, n)
           c == [x EXCEPT !.rec[s] = q]
           k == n - Min({setup.tail, n})
<1>1. Intact(b) /\ r \in RecordType /\ Place(r)
    BY GoodFacts DEF Intact
<1>2. r.group \in Group /\ n \in Nat /\ r.committed \in Nat
    BY <1>1, RecordTyping DEF Place, Media
<1>7. Drain(b, s, total) = IF JobsOf(b, s, "append") # {} \/ k = 0 THEN c
                           ELSE StartAppend(c, s, r.committed, k)
    BY DEF Drain, Adopted
<1> HIDE DEF n
<1>3. k \in Nat
  <2>1. setup.tail \in Int /\ n \in Int
      BY <1>2, SetupFacts
  <2>2. Min({setup.tail, n}) \in {setup.tail, n} /\ Min({setup.tail, n}) <= n
      BY <2>1, LesserFacts
  <2> QED
      BY <2>1, <2>2
<1>4. Intact(x) /\ x.rec = b.rec
    BY <1>1, IntactTouch
<1>5. q \in RecordType /\ q.committed = r.committed /\ q.group = r.group
  <2> HIDE DEF r
  <2>2. r \in RecordType /\ n \in Nat
      BY <1>1, <1>2
  <2>1. LET m == Adopted(r, total, n) IN
        /\ m \in RecordType /\ m.state = r.state /\ m.generation = r.generation
        /\ m.version = r.version + 1 /\ m.total = total /\ m.committed = r.committed
        /\ m.lpddr = n /\ m.group = r.group
      BY <2>2, AdoptedType, Zenon
  <2> QED
      BY <2>1
<1>6. RecordTo(x, c, s, q) /\ SameShare(r, q)
    BY <1>5, ShareKept DEF RecordTo
<1> HIDE DEF x, q, c, k
<1>8. Intact(c) /\ c.rec[s] = q
  <2>1. Intact(c) /\ Wrote(x, c, s, q, x.jobs)
      BY <1>4, <1>5, <1>6, IntactWrite
  <2> QED
      BY <2>1 DEF Wrote
<1> QED
    BY <1>2, <1>3, <1>5, <1>7, <1>8, StartAppendRuns DEF Intact

(* The LPDDR has room for less of what it holds.                           *)
LEMMA EntryOccupied ==
    ASSUME setup \in Setups, NEW l, NEW o, NEW g \in Group, NEW w \in Counts, l[o] = Entry(g, w),
           NEW k \in Card
    PROVE  Occupied(l, o, g, k) = w[k]
<1>1. g # NoGroup
    BY SetupFacts
<1>2. CASE w = Zero
    BY <1>1, <1>2, ZeroFacts DEF Entry, Nobody, Occupied
<1>3. CASE w # Zero
    BY <1>3 DEF Entry, Occupied
<1> QED
    BY <1>2, <1>3

LEMMA SetLess ==
    ASSUME setup \in Setups, NEW b, Typed(b), ~b.failed, NEW g \in Places, NEW o \in Owner,
           NEW v \in Counts, Holds(b.lpddr, g), \A k \in Card : v[k] <= Occupied(b.lpddr, o, g, k)
    PROVE  ~SetBytes(b, g, o, v).failed
<1> DEFINE l == b.lpddr
           m == [l EXCEPT ![o] = Entry(g, v)]
<1>1. l \in Ledgers
    BY Typing DEF Ledgers
<1>2. /\ Entry(g, v) \in [group : Places, bytes : Counts] /\ Entry(g, v).bytes = v
      /\ setup.lpddrCap \in Nat
    BY EntryFacts, SetupFacts
<1>3. m \in Ledgers
    BY <1>1, <1>2 DEF Ledgers
<1>4. \A x \in Owner, k \in Card : Occupied(m, x, g, k) <= Occupied(l, x, g, k)
  <2> SUFFICES ASSUME NEW x \in Owner, NEW k \in Card
               PROVE  Occupied(m, x, g, k) <= Occupied(l, x, g, k)
      OBVIOUS
  <2>1. Occupied(l, x, g, k) \in Nat
      BY <1>1, UsedSum
  <2>2. CASE x = o
      BY <1>1, <1>2, <2>1, <2>2 DEF Ledgers, Counts, Occupied
  <2>3. CASE x # o
    <3>1. m[x] = l[x]
        BY <2>3
    <3> QED
        BY <2>1, <3>1 DEF Occupied
  <2> QED
      BY <2>2, <2>3
<1> HIDE DEF l, m
<1>5. Holds(m, g)
    BY <1>1, <1>2, <1>3, <1>4, HoldsFewer DEF l
<1> QED
    BY <1>5, Typing DEF SetBytes, CanSet, m, l

Resting(b, s) ==
  LET r == b.rec[s] IN
  /\ b.lpddr[Holder(s)] = Entry(r.group, Stripe(r.committed, r.lpddr))
  /\ Holds(b.lpddr, r.group)

LEMMA TrimRuns ==
    ASSUME setup \in Setups, NEW b, Good(b), ~b.failed, NEW s \in Session,
           b.rec[s].state = "hbf_ready", NEW reuse \in Nat, reuse <= b.rec[s].total, Resting(b, s)
    PROVE  ~TrimHbf(b, s, reuse).failed
<1> DEFINE r == b.rec[s]
           k == Min({reuse, r.committed})
           v == Minus(Committed(r), Stripe(0, k))
           w == Stripe(k, reuse - k)
           d == Free(b, r.group, v)
           x == SetBytes(d, r.group, Holder(s), w)
<1>1. Typed(b) /\ Exact(b) /\ r \in RecordType /\ Place(r) /\ Holder(s) \in Owner
    BY GoodFacts, OwnerFacts
<1>2. /\ r.group \in Group /\ r.group \in Places /\ r.committed \in Nat /\ r.lpddr \in Nat
      /\ r.committed + r.lpddr = r.total
    BY <1>1, RecordTyping DEF Place, Media, Places
<1>3. k \in {reuse, r.committed} /\ k \in Nat /\ k <= reuse /\ k <= r.committed /\ reuse - k \in Nat
  <2>1. reuse \in Int /\ r.committed \in Int
      BY <1>2
  <2>2. k \in {reuse, r.committed} /\ k <= reuse /\ k <= r.committed
      BY <2>1, LesserFacts
  <2> QED
      BY <1>2, <2>2
<1>4. TrimHbf(b, s, reuse) = IF reuse = r.committed + r.lpddr THEN b
                             ELSE [x EXCEPT !.rec[s] = Trimmed(r, reuse, k)]
    BY Zenon DEF TrimHbf, Trimmed
<1> HIDE DEF k
<1>5. Committed(r) \in Counts /\ Stripe(0, k) \in Counts /\ w \in Counts
    BY <1>2, <1>3, StripeType DEF Committed
<1>6. \A i \in Card : Stripe(0, k)[i] <= Committed(r)[i]
    BY <1>2, <1>3, StripeWithin DEF Committed
<1>7. v \in Counts /\ \A i \in Card : v[i] = Committed(r)[i] - Stripe(0, k)[i]
    BY <1>5, <1>6, PlusMinus DEF Within
<1>8. Within(v, b.reserved[r.group])
  <2> SUFFICES ASSUME NEW i \in Card PROVE v[i] <= b.reserved[r.group][i]
      BY DEF Within
  <2> QED
      BY <1>1, <1>2, <1>5, <1>7, ContextReserved, Typing DEF Within, Counts
<1> HIDE DEF v
<1>9. ~d.failed
    BY <1>1, <1>2, <1>8, ReserveRuns
<1>10. Typed(d) /\ d.lpddr = b.lpddr
    BY <1>1, <1>2, <1>7, <1>9, FreeFacts
<1>11. \A i \in Card : w[i] <= Occupied(b.lpddr, Holder(s), r.group, i)
  <2> SUFFICES ASSUME NEW i \in Card PROVE w[i] <= Occupied(b.lpddr, Holder(s), r.group, i)
      OBVIOUS
  <2>1. Stripe(r.committed, r.lpddr) \in Counts
      BY <1>2, StripeType
  <2>2. Occupied(b.lpddr, Holder(s), r.group, i) = Stripe(r.committed, r.lpddr)[i]
      BY <1>2, <2>1, EntryOccupied DEF Resting
  <2>3. CASE k = r.committed
    <3> DEFINE h == reuse - k
    <3>1. h \in Nat /\ h <= r.lpddr
        BY <1>2, <1>3, <2>3
    <3> HIDE DEF h
    <3>2. Stripe(r.committed, h)[i] <= Stripe(r.committed, r.lpddr)[i]
        BY <1>2, <3>1, StripeWithin
    <3> QED
        BY <2>2, <2>3, <3>2 DEF h
  <2>4. CASE k = reuse
      BY <1>3, <2>1, <2>2, <2>4, StripeNone, ZeroFacts DEF Counts
  <2> QED
      BY <1>3, <2>3, <2>4
<1> HIDE DEF d, w
<1>12. ~x.failed
    BY <1>1, <1>2, <1>5, <1>9, <1>10, <1>11, SetLess DEF Resting
<1> HIDE DEF r
<1>13. Typed(x)
    BY <1>1, <1>2, <1>5, <1>10, SetTyped
<1> HIDE DEF x
<1> QED
    BY <1>4, <1>12, <1>13, Typing

LEMMA DropRuns ==
    ASSUME NEW b, Typed(b), ~b.failed, NEW o \in Owner
    PROVE  Typed(Drop(b, o)) /\ ~Drop(b, o).failed
<1>1. Typed(Drop(b, o))
    BY DropFacts
<1> QED
    BY <1>1, Typing DEF Drop

LEMMA AbandonRuns ==
    ASSUME setup \in Setups, NEW b, Good(b), ~b.failed, NEW s \in Session, b.rec[s].group \in Group
    PROVE  ~Abandon(b, s).failed
<1> DEFINE g == b.rec[s].group
           v == Committed(b.rec[s])
           x == Free(b, g, v)
           y == Drop(x, Holder(s))
           z == Drop(y, Headroom(s))
<1>1. Typed(b) /\ Exact(b) /\ b.rec[s] \in RecordType
    BY GoodFacts
<1>2. v \in Counts /\ Within(v, b.reserved[g])
    BY <1>1, CardFacts, ShareType, ContextReserved
<1>3. Holder(s) \in Owner /\ Headroom(s) \in Owner
    BY OwnerFacts
<1>4. Abandon(b, s) = [z EXCEPT !.rec[s] = [Without(b.rec[s]) EXCEPT !.state = "gpu_active",
                                                                     !.version = @ + 1]]
    BY DEF Abandon
<1> HIDE DEF v, g
<1>5. Typed(x) /\ ~x.failed
    BY <1>1, <1>2, FreeTyped, ReserveRuns DEF g
<1> HIDE DEF x
<1>6. Typed(y) /\ ~y.failed
    BY <1>3, <1>5, DropRuns
<1> HIDE DEF y
<1>7. Typed(z) /\ ~z.failed
    BY <1>3, <1>6, DropRuns
<1> HIDE DEF z
<1> QED
    BY <1>4, <1>7, Typing

LEMMA RouteHbfRuns ==
    ASSUME setup \in Setups, NEW b, Good(b), ~b.failed, NEW s \in Session,
           b.rec[s].state = "hbf_ready", NEW reuse \in Nat, reuse <= b.rec[s].total, Resting(b, s),
           NEW growth \in Nat
    PROVE  LET c == RouteHbf(b, s, reuse, growth) IN
           ~c.failed /\ (c.rec[s].state = "hbf_active" => ~Submit(c, s).failed)
<1> DEFINE d == TrimHbf(b, s, reuse)
           g == d.rec[s].group
           v == Stripe(reuse, growth)
           x == SetBytes(d, g, Headroom(s), v)
           c == RouteHbf(b, s, reuse, growth)
           q == c.rec[s]
           r == b.rec[s]
<1>1. ~d.failed
    BY TrimRuns
<1>2. Typed(d) /\ g \in Group /\ Good(d)
    BY <1>1, TrimGood
<1>3. v \in Counts /\ g \in Places /\ Headroom(s) \in Owner /\ Holder(s) \in Owner
    BY <1>2, StripeType, OwnerFacts DEF Places
<1>4. c = IF ~CanSet(d, g, Headroom(s), v) THEN Abandon(d, s) ELSE [x EXCEPT !.rec[s].state = "hbf_active"]
    BY DEF RouteHbf
<1> HIDE DEF d, v, c
<1>5. CASE ~CanSet(d, g, Headroom(s), v)
    BY <1>1, <1>2, <1>4, <1>5, AbandonRuns, AbandonGood, Typing, AbandonedType DEF c
<1>6. CASE CanSet(d, g, Headroom(s), v)
  <2>1. c = [x EXCEPT !.rec[s].state = "hbf_active"]
      BY <1>4, <1>6
  <2>2. x = [d EXCEPT !.lpddr[Headroom(s)] = Entry(g, v)]
      BY <1>6 DEF SetBytes
  <2>3. Typed(x)
      BY <1>2, <1>3, SetTyped
  <2> HIDE DEF x
  <2>6. ~c.failed /\ Holds(c.lpddr, g)
      BY <1>1, <1>2, <1>6, <2>1, <2>2, <2>3, Typing DEF CanSet
  <2> SUFFICES ASSUME q.state = "hbf_active" PROVE ~Submit(c, s).failed
      BY <2>6 DEF c
  <2>10. q.group = g
      BY <2>1, <2>2, <1>2, <2>3, Typing
  <2> HIDE DEF g
  <2> QED
      BY <1>3, <2>6, <2>10, SetSame, GoodFacts, RouteHbfGood DEF Submit, Taken, Resting,
         GivenUp, c
<1> QED
    BY <1>5, <1>6

(* The ends of jobs.                                                       *)
LEMMA FinishJobRuns ==
    ASSUME setup \in Setups, NEW b, Good(b), ~b.failed, NEW j \in b.jobs, NEW s, s = j.session,
           NEW w \in Nat, b.rec[s].lpddr <= w,
           Held(b, Holder(s)) = Stripe(b.rec[s].committed, w),
           Holds(b.lpddr, b.lpddr[Holder(s)].group)
    PROVE  ~FinishJob(b, j).failed
<1> DEFINE r == b.rec[s]
           e == Ends(b, j)
           o == Holder(s)
           g == b.lpddr[o].group
           v == JobBytes(j)
<1>1. /\ Typed(e) /\ ~e.failed /\ e.rec = b.rec /\ e.reserved = b.reserved /\ e.lpddr = b.lpddr
      /\ j \in JobType /\ s \in Session
    BY EndsFacts DEF Good
<1>2. /\ Typed(b) /\ Exact(b) /\ r \in RecordType /\ Lineage(Of(b.jobs, s), r) /\ o \in Owner
      /\ Of(b.jobs, s) \in SUBSET JobType /\ IsFiniteSet(Of(b.jobs, s))
    BY <1>1, GoodFacts, OwnerFacts
<1>3. /\ j.group \in Group /\ j.start \in Nat /\ j.count \in Nat /\ v \in Counts
      /\ j.kind \in {"migration", "append"} /\ r.lpddr \in Nat /\ r.committed \in Nat
    BY <1>1, <1>2, JobTyping, RecordTyping
<1>4. ~Free(e, j.group, v).failed
    BY <1>1, <1>2, <1>3, JobReserved, ReserveRuns
<1>5. CASE j.kind = "migration"
  <2> DEFINE c == Drop(e, o)
             m == [c EXCEPT !.rec[s] = [@ EXCEPT !.state = "hbf_ready", !.source = "none",
                                                 !.committed = j.count, !.lpddr = 0]]
  <2>1. FinishJob(b, j) = IF IsCurrent(b, j) THEN m ELSE Free(e, j.group, v)
      BY <1>5 DEF FinishJob, FinishMigration, Ends
  <2>2. Typed(c) /\ ~c.failed
      BY <1>1, <1>2, DropRuns
  <2> HIDE DEF c
  <2>3. ~m.failed
      BY <2>2, Typing
  <2> QED
      BY <1>4, <2>1, <2>3
<1>6. CASE j.kind = "append"
  <2> DEFINE c == Shrink(e, o, v)
             m == [c EXCEPT !.rec[s] = [r EXCEPT !.committed = @ + j.count, !.lpddr = @ - j.count]]
  <2> SUFFICES ASSUME IsNext(b, j) PROVE ~(j.count > r.lpddr) /\ ~m.failed
      BY <1>4, <1>6 DEF FinishJob, FinishAppend, Ends
  <2>2. j.generation = r.generation /\ j.start = r.committed
      BY DEF IsNext
  <2>3. j.count <= r.lpddr
    <3> DEFINE J == Now(Of(b.jobs, s), r, "append")
    <3>1. j \in J /\ Tokens(J) <= r.lpddr
        BY <1>2, <1>6, <2>2 DEF Now, Of, Lineage, Appending
    <3>2. J \in SUBSET JobType /\ IsFiniteSet(J)
        BY <1>2, NowFacts
    <3> HIDE DEF J
    <3>3. Tokens(J) = Tokens(J \ {j}) + j.count /\ Tokens(J \ {j}) \in Nat
        BY <3>1, <3>2, TokensRemove
    <3> QED
        BY <1>3, <3>1, <3>3
  <2>4. Stripe(r.committed, w) \in Counts /\ v = Stripe(r.committed, j.count)
      BY <1>3, <2>2, StripeType DEF JobBytes
  <2>5. Held(e, o) = Stripe(r.committed, w)
      BY <1>1 DEF Held
  <2>6. j.count <= w
      BY <1>3, <2>3
  <2>7. Within(v, Held(e, o))
    <3>1. \A k \in Card : Stripe(r.committed, j.count)[k] <= Stripe(r.committed, w)[k]
        BY <1>3, <2>6, StripeWithin
    <3> QED
        BY <2>4, <2>5, <3>1 DEF Within
  <2> DEFINE z == Minus(Held(e, o), v)
  <2>8. z \in Counts /\ \A k \in Card : z[k] = Held(e, o)[k] - v[k]
      BY <1>3, <2>4, <2>5, <2>7, PlusMinus
  <2>9. \A k \in Card : z[k] <= Occupied(e.lpddr, o, g, k)
    <3> SUFFICES ASSUME NEW k \in Card PROVE z[k] <= Occupied(e.lpddr, o, g, k)
        OBVIOUS
    <3> QED
        BY <1>1, <1>3, <2>4, <2>5, <2>8 DEF Occupied, Held, Counts
  <2>10. g \in Places
      BY <1>2, Typing
  <2>11. c = SetBytes(e, g, o, z)
      BY <1>1, <2>7 DEF Shrink
  <2>12. Holds(e.lpddr, g)
      BY <1>1
  <2> HIDE DEF z, g
  <2>13. ~SetBytes(e, g, o, z).failed
      BY <1>1, <1>2, <2>8, <2>9, <2>10, <2>12, SetLess
  <2>14. Typed(c)
      BY <1>1, <1>2, <1>3, <2>8, <2>10, <2>11, SetTyped
  <2> HIDE DEF c
  <2>15. ~m.failed
      BY <2>11, <2>13, <2>14, Typing
  <2> QED
      BY <1>3, <2>3, <2>15
<1> QED
    BY <1>3, <1>5, <1>6

(* The order of access: no operation forgets a session.                    *)
Ordered(b, c) == "lru" \in DOMAIN b => "lru" \in DOMAIN c /\ c.lru = b.lru

LEMMA StepsOrdered ==
    ASSUME NEW b, NEW g, NEW v, NEW o
    PROVE  /\ Ordered(b, Raise(b)) /\ Ordered(b, Free(b, g, v)) /\ Ordered(b, Reserve(b, g, v))
           /\ Ordered(b, SetBytes(b, g, o, v)) /\ Ordered(b, Drop(b, o))
           /\ Ordered(b, EnsureCapacity(b, g, v)) /\ Ordered(b, Shrink(b, o, v))
<1>2. \A w : Ordered(b, Free(b, g, w)) /\ Ordered(b, Reserve(b, g, w))
    BY DEF Ordered, Raise, Free, Reserve
<1>5. Ordered(b, EnsureCapacity(b, g, v))
  <2> DEFINE c == Free(b, g, SumOf([s \in Victims(b, g, v) |-> Committed(b.rec[s])]))
             x == [s \in Session |-> IF s \in Victims(b, g, v) THEN Evicted(c.rec[s]) ELSE c.rec[s]]
             y == [q \in Owner |-> IF q \in {Holder(s) : s \in Victims(b, g, v)} THEN Nobody
                                   ELSE c.lpddr[q]]
  <2>1. EnsureCapacity(b, g, v) = [c EXCEPT !.rec = x, !.lpddr = y]
      BY DEF EnsureCapacity
  <2>2. Ordered(b, c)
      BY <1>2
  <2> HIDE DEF c, x, y
  <2> QED
      BY <2>1, <2>2 DEF Ordered
<1> QED
    BY <1>2, <1>5 DEF Shrink, Ordered, Raise, Drop, SetBytes

LEMMA HandlersOrdered ==
    ASSUME NEW b, NEW s
    PROVE  /\ Ordered(b, End(b, s)) /\ Ordered(b, Abandon(b, s)) /\ Ordered(b, Submit(b, s))
           /\ \A x, y : /\ Ordered(b, Migrate(b, s, x, y)) /\ Ordered(b, StartAppend(b, s, x, y))
                       /\ Ordered(b, RouteHbf(b, s, x, y))
           /\ \A x : Ordered(b, TrimHbf(b, s, x)) /\ Ordered(b, RouteGpu(b, s, x))
           /\ \A j : Ordered(b, FinishJob(b, j))
<1>1. Ordered(b, End(b, s))
  <2> DEFINE r == b.rec[s]
             x == Drop(b, Headroom(s))
             c == Drop(x, Holder(s))
             d == IF r.group = NoGroup THEN c ELSE Free(c, r.group, Committed(r))
  <2>1. Ordered(b, x) /\ Ordered(x, c) /\ Ordered(c, Free(c, r.group, Committed(r)))
      BY StepsOrdered
  <2>2. End(b, s) = [d EXCEPT !.rec[s] = [Without(r) EXCEPT !.state = "ended", !.source = "none"]]
      BY DEF End
  <2> HIDE DEF x, c
  <2>3. Ordered(b, d)
      BY <2>1 DEF Ordered
  <2> HIDE DEF d
  <2> QED
      BY <2>2, <2>3 DEF Ordered
<1>2. ASSUME NEW z, NEW y PROVE Ordered(b, Migrate(b, s, z, y))
  <2> DEFINE v == Stripe(0, b.rec[s].total)
             gs == {g \in Group : Fits(b, g, v, IF y THEN Evictable(b, g) ELSE {})}
             g == Roomiest(b, v, gs)
             e == EnsureCapacity(b, g, v)
             d == Reserve(e, g, v)
             m == [b.rec[s] EXCEPT !.state = "migrating", !.generation = @ + 1, !.group = g,
                                   !.source = z]
             n == IF z = "gpu" THEN "gpu_ready" ELSE "ssd_ready"
             j == Job("migration", s, m, 0, b.rec[s].total)
  <2>1. Ordered(b, e) /\ Ordered(e, d)
      BY StepsOrdered
  <2>2. Migrate(b, s, z, y) = IF gs = {} THEN [b EXCEPT !.rec[s].state = n]
                              ELSE [d EXCEPT !.rec[s] = m, !.jobs = @ \cup {j}]
      BY DEF Migrate
  <2> HIDE DEF gs, e, d, m, n, j
  <2> QED
      BY <2>1, <2>2 DEF Ordered
<1>3. ASSUME NEW x, NEW y PROVE Ordered(b, StartAppend(b, s, x, y))
  <2> DEFINE g == b.rec[s].group
             e == EnsureCapacity(b, g, Stripe(x, y))
             d == Reserve(e, g, Stripe(x, y))
             j == Job("append", s, b.rec[s], x, y)
  <2>1. Ordered(b, e) /\ Ordered(e, d)
      BY StepsOrdered
  <2>2. StartAppend(b, s, x, y) \in {[d EXCEPT !.jobs = @ \cup {j}], e}
      BY DEF StartAppend
  <2> HIDE DEF e, d, j
  <2> QED
      BY <2>1, <2>2 DEF Ordered
<1>4. ASSUME NEW x PROVE Ordered(b, TrimHbf(b, s, x))
  <2> DEFINE r == b.rec[s]
             k == Min({x, r.committed})
             c == Free(b, r.group, Minus(Committed(r), Stripe(0, k)))
             d == SetBytes(c, r.group, Holder(s), Stripe(k, x - k))
             t == Trimmed(r, x, k)
  <2>1. Ordered(b, c) /\ Ordered(c, d)
      BY StepsOrdered
  <2>2. TrimHbf(b, s, x) \in {[d EXCEPT !.rec[s] = t], b}
      BY Zenon DEF TrimHbf, Trimmed
  <2> HIDE DEF c, d, t
  <2> QED
      BY <2>1, <2>2 DEF Ordered
<1>5. \A e : Ordered(e, Abandon(e, s))
  <2> TAKE e
  <2> DEFINE r == e.rec[s]
             c == Free(e, r.group, Committed(r))
             d == Drop(c, Holder(s))
             f == Drop(d, Headroom(s))
             q == Abandoned(r)
  <2>1. Ordered(e, c) /\ Ordered(c, d) /\ Ordered(d, f)
      BY StepsOrdered
  <2>2. Abandon(e, s) = [f EXCEPT !.rec[s] = q]
      BY DEF Abandon, Abandoned
  <2> HIDE DEF c, d, f, q
  <2> QED
      BY <2>1, <2>2 DEF Ordered
<1>6. ASSUME NEW x, NEW y PROVE Ordered(b, RouteHbf(b, s, x, y))
  <2> DEFINE c == TrimHbf(b, s, x)
             g == c.rec[s].group
             d == SetBytes(c, g, Headroom(s), Stripe(x, y))
  <2>1. Ordered(b, c) /\ Ordered(c, d) /\ Ordered(c, Abandon(c, s))
      BY <1>4, <1>5, StepsOrdered
  <2>2. RouteHbf(b, s, x, y) \in {[d EXCEPT !.rec[s].state = "hbf_active"], Abandon(c, s)}
      BY DEF RouteHbf
  <2> HIDE DEF c, d
  <2> QED
      BY <2>1, <2>2 DEF Ordered
<1>7. Ordered(b, Submit(b, s)) /\ \A x : Ordered(b, RouteGpu(b, s, x))
    BY StepsOrdered DEF Submit, RouteGpu, Ordered
<1>8. ASSUME NEW j PROVE Ordered(b, FinishJob(b, j))
  <2> DEFINE x == j.session
             r == b.rec[x]
             e == Ends(b, j)
             c == Drop(e, Holder(x))
             d == Shrink(e, Holder(x), JobBytes(j))
             f == Free(e, j.group, JobBytes(j))
             q == [c.rec[x] EXCEPT !.state = "hbf_ready", !.source = "none",
                                   !.committed = j.count, !.lpddr = 0]
             p == Appended(r, j.count)
  <2>1. /\ Ordered(e, c) /\ Ordered(e, d) /\ Ordered(e, f) /\ Ordered(e, Raise(e))
      BY StepsOrdered
  <2>2. Ordered(b, e)
      BY DEF Ordered, Ends
  <2>3. FinishMigration(b, j) \in {[c EXCEPT !.rec[x] = q], f}
      BY DEF FinishMigration, Ends
  <2>4. FinishAppend(b, j) \in {[d EXCEPT !.rec[x] = p], f, Raise(e)}
      BY DEF FinishAppend, Ends, Appended
  <2> HIDE DEF e, c, d, f, q, p
  <2> QED
      BY <2>1, <2>2, <2>3, <2>4 DEF Ordered, FinishJob
<1> QED
    BY <1>1, <1>2, <1>3, <1>4, <1>5, <1>6, <1>7, <1>8

Keeps(b, c) == \A t \in Session : Enlisted(b.lru, t) => Enlisted(c.lru, t)

LEMMA TouchKeeps ==
    ASSUME NEW b, Typed(b), NEW s \in Session, NEW c, Ordered(b, c)
    PROVE  /\ \A d : Ordered(c, d) => Keeps(b, d)
           /\ \A d : Ordered(Touch(c, s), d) => Keeps(b, d) /\ Enlisted(d.lru, s)
<1> QED
    BY TouchLists, Typing DEF Ordered, Keeps, Touch

LEMMA TurnsKeep ==
    ASSUME NEW b, Typed(b), NEW s \in Session, NEW n, NEW x, NEW y
    PROVE  /\ Keeps(b, CompleteGpuTurn(b, s, n, x, y)) /\ Keeps(b, CompleteHbfTurn(b, s, n, x))
           /\ Keeps(b, Drain(b, s, n))
<1> DEFINE r == b.rec[s]
<1>1. Ordered(b, b) /\ Ordered(b, Raise(b))
    BY StepsOrdered DEF Ordered
<1>2. Keeps(b, CompleteGpuTurn(b, s, n, x, y))
  <2> DEFINE t == Touch(b, s)
             c == [t EXCEPT !.rec[s] = Published(r, n)]
             d == [c EXCEPT !.rec[s] = [@ EXCEPT !.state = "gpu_ready", !.group = NoGroup]]
  <2>1. CompleteGpuTurn(b, s, n, x, y) \in {End(c, s), Migrate(c, s, "gpu", TRUE), d}
      BY DEF CompleteGpuTurn, Published
  <2>2. Ordered(c, End(c, s)) /\ Ordered(c, Migrate(c, s, "gpu", TRUE))
      BY HandlersOrdered
  <2>3. Ordered(t, c) /\ Ordered(c, d)
      BY DEF Ordered
  <2> HIDE DEF c, d
  <2> QED
      BY <1>1, <2>1, <2>2, <2>3, TouchKeeps DEF Ordered
<1>3. Keeps(b, CompleteHbfTurn(b, s, n, x))
  <2> DEFINE l == r.lpddr + n - r.total
             k == Drop(b, Headroom(s))
             c == IF x THEN SetBytes(k, r.group, Holder(s), Stripe(r.committed, l)) ELSE k
             t == Touch(c, s)
             d == [t EXCEPT !.rec[s] = Renewed(r, n)]
             e == [d EXCEPT !.rec[s] = [@ EXCEPT !.state = "hbf_ready", !.lpddr = l]]
             z == CompleteHbfTurn(b, s, n, x)
  <2>1. z \in {Raise(b), End(d, s), e, StartAppend(e, s, r.committed + InFlight(b, s), l - InFlight(b, s))}
      BY DEF CompleteHbfTurn, Renewed
  <2>2. Ordered(b, k) /\ Ordered(k, SetBytes(k, r.group, Holder(s), Stripe(r.committed, l)))
      BY StepsOrdered
  <2> HIDE DEF k, l, z
  <2>3. Ordered(b, c)
      BY <2>2 DEF Ordered
  <2> HIDE DEF c
  <2>4. Ordered(t, d) /\ Ordered(d, e)
      BY DEF Ordered
  <2> HIDE DEF t, d, e
  <2>5. Ordered(d, End(d, s)) /\ \A a, i : Ordered(e, StartAppend(e, s, a, i))
      BY HandlersOrdered
  <2>7. Keeps(b, z)
      BY <1>1, <2>1, <2>3, <2>4, <2>5, TouchKeeps DEF t, Ordered
  <2> QED
      BY <2>7 DEF z
<1>4. Keeps(b, Drain(b, s, n))
  <2> DEFINE l == r.lpddr + n - r.total
             t == Touch(b, s)
             c == [t EXCEPT !.rec[s] = Adopted(r, n, l)]
             z == Drain(b, s, n)
             k == l - Min({setup.tail, l})
  <2>1. z \in {Raise(b), c, StartAppend(c, s, r.committed, k)}
      BY DEF Drain, Adopted
  <2>2. Ordered(t, c)
      BY DEF Ordered
  <2> HIDE DEF c, z, k
  <2>5. \A a, i : Ordered(c, StartAppend(c, s, a, i))
      BY HandlersOrdered
  <2>4. Keeps(b, z)
      BY <1>1, <2>1, <2>2, <2>5, TouchKeeps DEF Ordered
  <2> QED
      BY <2>4 DEF z
<1> QED
    BY <1>2, <1>3, <1>4

Known == \A s \in Session : offered[s] > 0 => Enlisted(hbf.lru, s)

LEMMA KnownListed ==
    ASSUME Sound, ~hbf.failed, Known
    PROVE  Listed(hbf)
<1> SUFFICES ASSUME NEW s \in Session, hbf.rec[s].state = "hbf_ready"
             PROVE  Enlisted(hbf.lru, s)
    BY DEF Listed
<1>1. offered[s] \in Nat /\ Fitting(s, turn[s], offered[s], hbf.rec[s])
    BY SessionFacts
<1>2. offered[s] # 0
    BY <1>1 DEF Fitting
<1> QED
    BY <1>1, <1>2 DEF Known

LEMMA KnownKept ==
    ASSUME Known, Keeps(hbf, hbf'), offered' = offered
    PROVE  Known'
    BY DEF Known, Keeps

(* The actions.                                                            *)
LEMMA CompleteGpuGoes ==
    ASSUME Sound, ~hbf.failed, Known, NEW s \in Session, CompleteGpu(s)
    PROVE  ~(hbf').failed /\ Known'
<1>1. /\ setup \in Setups /\ Good(hbf) /\ Typed(hbf) /\ turn[s].stage = "gpu"
      /\ hbf.rec[s].state = "gpu_active" /\ offered' = offered
    BY SessionFacts DEF CompleteGpu, Fitting, Good
<1>2. FinalTokens(s) \in Nat /\ HasSuccessor(s) \in BOOLEAN
    BY <1>1, LiveFacts DEF Live, HasSuccessor
<1>3. PICK start \in BOOLEAN :
        hbf' = CompleteGpuTurn(hbf, s, FinalTokens(s), HasSuccessor(s), start)
    BY DEF StartsNow, CompleteGpu
<1>4. Listed(hbf)
    BY KnownListed
<1>5. ~(hbf').failed
  <2> DEFINE x == HasSuccessor(s)
  <2>1. x \in BOOLEAN
      BY <1>2
  <2> HIDE DEF x
  <2> QED
      BY <1>1, <1>2, <1>3, <1>4, <2>1, CompleteGpuRuns DEF x
<1>6. Keeps(hbf, hbf')
    BY <1>1, <1>3, TurnsKeep
<1> QED
    BY <1>1, <1>5, <1>6, KnownKept

LEMMA CompleteHbfGoes ==
    ASSUME Sound, ~hbf.failed, Booked, Known, NEW s \in Session, CompleteHbf(s)
    PROVE  ~(hbf').failed /\ Known'
<1> DEFINE r == hbf.rec[s]
           t == turn[s]
           m == Middle(t, r)
           f == Last(s, offered[s], r)
           x == HasSuccessor(s)
           n == r.lpddr + FinalTokens(s) - r.total
           z == CompleteHbfTurn(hbf, s, FinalTokens(s), x)
<1>1. /\ setup \in Setups /\ Good(hbf) /\ Typed(hbf) /\ t.stage = "complete" /\ t.stage \in OnHbf
      /\ hbf' = z /\ offered' = offered /\ t \in TurnType
    BY SessionFacts DEF CompleteHbf, OnHbf, Good
<1>2. /\ FinalTokens(s) \in Nat /\ FinalTokens(s) = Call(s).input + Call(s).output - 1
      /\ Call(s).input \in Nat /\ Call(s).output \in Nat \ {0}
      /\ r.state = "hbf_active" /\ r.total <= FinalTokens(s) /\ Progressed(t, Call(s))
      /\ Call(s) = setup.script[s][offered[s]] /\ x \in BOOLEAN
    BY <1>1, LiveFacts, SessionFacts, RecordTyping DEF Live, HasSuccessor
<1>3. /\ r \in RecordType /\ Place(r) /\ Stored(s, r, m, f, hbf.lpddr) /\ m \in Nat /\ f \in Nat
      /\ r.committed <= m
    BY RestFacts
<1>4. m = FinalTokens(s) /\ f = FinalTokens(s)
    BY <1>1, <1>2, MaterializedType, TurnTyping DEF Progressed, Middle, Last
<1>5. /\ r.group \in Group /\ r.group \in Places /\ r.committed \in Nat /\ n = m - r.committed
      /\ n \in Nat
    BY <1>2, <1>3, <1>4, RecordTyping DEF Place, Media, Places
<1>6. hbf.lpddr[Headroom(s)] = Nobody
    BY <1>3, <1>4, StripeNone DEF Stored, Entry
<1>7. hbf.lpddr[Holder(s)] = Entry(r.group, Stripe(r.committed, n))
    BY <1>3, <1>5 DEF Stored
<1>8. Holds(hbf.lpddr, r.group)
    BY <1>5 DEF Booked
<1>9. ~z.failed
  <2>1. n = r.lpddr + FinalTokens(s) - r.total
      OBVIOUS
  <2> HIDE DEF n, x
  <2> QED
      BY <1>1, <1>2, <1>6, <1>7, <1>8, <2>1, CompleteHbfRuns
<1>10. Keeps(hbf, z)
    BY <1>1, TurnsKeep
<1> HIDE DEF z
<1> QED
    BY <1>1, <1>9, <1>10, KnownKept

\* A drained prompt is all there.
LEMMA GatedDrains ==
    ASSUME Sound, ~hbf.failed, NEW s \in Session, turn[s].stage \in Gated, NEW b, Good(b), ~b.failed,
           b.rec[s].state = "hbf_active", b.rec[s].total <= Call(s).input,
           Rests(b, turn[s], offered[s], s)
    PROVE  ~Drain(b, s, Call(s).input).failed
<1> DEFINE r == b.rec[s]
           t == turn[s]
           k == Call(s).input
<1>1. setup \in Setups /\ t.stage \in OnHbf /\ t \in TurnType /\ Live(s)
    BY SessionFacts DEF Gated, OnHbf, Live
<1>2. k \in Nat /\ Progressed(t, Call(s))
    BY <1>1, LiveFacts
<1>3. t.generated = 1 /\ t.reused + t.done = k /\ setup.tail >= 0
    BY <1>2 DEF Progressed, Gated
<1>4. Materialized(t) = k
    BY <1>1, <1>2, <1>3, MaterializedType, TurnTyping
<1>9. Held(b, Holder(s)) = Stripe(r.committed, r.lpddr + k - r.total)
    BY <1>2, <1>4, StripeType, EntryFacts, RecordTyping, GoodFacts DEF Held, Rests, Stored,
       Middle, Place, Media
<1> HIDE DEF k
<1> QED
    BY <1>1, <1>2, <1>3, <1>9, DrainRuns DEF k

LEMMA StartDrainGoes ==
    ASSUME Sound, ~hbf.failed, Booked, Known, NEW s \in Session, StartDrain(s)
    PROVE  ~(hbf').failed /\ Known'
<1>1. /\ Good(hbf) /\ Typed(hbf) /\ turn[s].stage \in Gated /\ turn[s].stage \in OnHbf /\ Live(s)
      /\ hbf' = Drain(hbf, s, Call(s).input) /\ offered' = offered
    BY SessionFacts DEF StartDrain, Gated, OnHbf, Live, Good
<1>3. ~(hbf').failed
    BY <1>1, GatedDrains, LiveFacts DEF Booked
<1>4. Keeps(hbf, hbf')
    BY <1>1, TurnsKeep
<1> QED
    BY <1>1, <1>3, <1>4, KnownKept

\* Nothing is held outside the groups.
LEMMA HoldsNowhere ==
    ASSUME Sound, ~hbf.failed, Booked
    PROVE  Holds(hbf.lpddr, NoGroup)
<1> DEFINE l == hbf.lpddr
<1>1. ASSUME NEW o \in Owner, NEW k \in Card PROVE Occupied(l, o, NoGroup, k) = 0
  <2>1. PICK s \in Session : o = Holder(s) \/ o = Headroom(s)
      BY DEF Owner, Holder, Headroom
  <2> DEFINE r == hbf.rec[s]
             m == Middle(turn[s], r)
             f == Last(s, offered[s], r)
  <2>2. /\ setup \in Setups /\ r \in RecordType /\ Place(r) /\ Stored(s, r, m, f, l)
        /\ r.state \notin Media => l[Holder(s)] = Nobody /\ l[Headroom(s)] = Nobody
      BY RestFacts
  <2> HIDE DEF m, f
  <2>4. NoGroup \notin Group /\ Zero[k] = 0
      BY <2>2, SetupFacts, ZeroFacts
  <2> HIDE DEF l, r
  <2> QED
      BY <2>1, <2>2, <2>4 DEF Occupied, Entry, Nobody, Stored, Place
<1>2. l \in Ledgers /\ setup.lpddrCap \in Nat
    BY SetupFacts, Typing DEF Sound, Good, Ledgers
<1> SUFFICES ASSUME NEW k \in Card PROVE Used(l, NoGroup)[k] <= setup.lpddrCap
    BY DEF Holds
<1> DEFINE h == [o \in Owner |-> Occupied(l, o, NoGroup, k)]
<1>3. Used(l, NoGroup)[k] = SumFunctionOnSet(h, Owner) /\ \A o \in Owner : h[o] = 0
    BY <1>1, <1>2, UsedSum
<1> HIDE DEF h
<1> QED
    BY <1>2, <1>3, OwnersFinite, SumZero

\* The pool agrees with the records and the ledger.
LEMMA LaunchGoes ==
    ASSUME Sound, ~hbf.failed, Booked, Known, NEW g \in Group, Launch(g)
    PROVE  ~(hbf').failed /\ Known'
<1>1. PICK S \in SUBSET Runnable(g) \ {{}} :
        hbf' = IF \E s \in S : Disagrees(s) THEN Raise(hbf) ELSE hbf
    BY Zenon DEF Launch
<1>2. offered' = offered
    BY DEF Launch
<1>3. ASSUME NEW s \in S PROVE ~Disagrees(s)
  <2> DEFINE r == hbf.rec[s]
             t == turn[s]
             m == Middle(t, r)
             f == Last(s, offered[s], r)
  <2>1. s \in Session /\ t.stage \in OnHbf
      BY <1>1 DEF Runnable, OnHbf
  <2>2. /\ Fitting(s, t, offered[s], r) /\ r \in RecordType /\ Place(r)
        /\ m \in Nat /\ r.committed <= m /\ Stored(s, r, m, f, hbf.lpddr)
      BY <2>1, SessionFacts, RestFacts
  <2>3. r.state = "hbf_active" /\ t.published = r.total
      BY <2>1, <2>2 DEF Fitting, Placed
  <2>4. ~Misread(hbf, s)
      BY <2>2, <2>3 DEF Misread, Place, Media
  <2>5. m = Materialized(t)
      BY <2>3 DEF Middle
  <2> HIDE DEF m
  <2> QED
      BY <2>1, <2>2, <2>4, <2>5, HeldFacts, RecordTyping DEF Disagrees, Stored
<1>4. hbf' = hbf
    BY <1>1, <1>3
<1> QED
    BY <1>2, <1>4 DEF Known

\* A callback finds what the pool has published, and a gated prompt whole.
LEMMA JobGoes ==
    ASSUME Sound, ~hbf.failed, Booked, NEW j \in hbf.jobs
    PROVE  ~FinishJob(hbf, j).failed
<1> DEFINE s == j.session
           r == hbf.rec[s]
           m == Middle(turn[s], r)
           f == Last(s, offered[s], r)
           w == m - r.committed
           o == hbf.lpddr[Holder(s)]
<1>1. setup \in Setups /\ Good(hbf) /\ s \in Session
    BY JobTyping, Typing DEF Sound, Good
<1>2. /\ r \in RecordType /\ Place(r) /\ m \in Nat /\ r.committed <= m
      /\ Stored(s, r, m, f, hbf.lpddr) /\ r.committed + r.lpddr <= m
    BY <1>1, RestFacts, SessionFacts, SpanFacts
<1>3. /\ r.committed \in Nat /\ r.lpddr \in Nat /\ r.group \in Places
      /\ w \in Nat /\ r.lpddr <= w
    BY <1>2, RecordTyping
<1>4. o = Entry(r.group, Stripe(r.committed, w))
    BY <1>2 DEF Stored
<1> HIDE DEF w, m, f, o
<1> QED
    BY <1>1, <1>3, <1>4, FinishJobRuns, HeldFacts, HoldsNowhere DEF o, Entry, Nobody, Booked,
       Places

LEMMA FinishGoes ==
    ASSUME Sound, ~hbf.failed, Booked, Known, NEW j \in hbf.jobs, Finish(j)
    PROVE  ~(hbf').failed /\ Known'
<1> DEFINE s == j.session
           b == FinishJob(hbf, j)
           r == Refreshed(b)
           k == Call(s).input
           d == Drain(b, s, k)
<1>1. setup \in Setups /\ Good(hbf) /\ Typed(hbf) /\ ~b.failed /\ offered' = offered
    BY JobGoes DEF Sound, Good, Finish
<1>2. /\ s \in Session /\ Good(b) /\ Typed(b) /\ Spared(hbf, b, s)
      /\ Rests(b, turn[s], offered[s], s)
    BY <1>1, JobBooked DEF Good
<1>3. ASSUME NEW x \in Session, turn[x].stage \in OnHbf PROVE ~Misread(b, x)
    BY <1>1, <1>2, <1>3, SessionFacts, FinishKeeps, OthersFit DEF Fitting, Placed, Misread,
       Place, Media
<1>4. hbf' = b \/ (ResumesGate(r[s]) /\ hbf' = d)
  <2> HIDE DEF b, r, d, k
  <2> QED
      BY <1>3 DEF d, k, Finish, b, r
<1>5. CASE hbf' = b
  <2>1. Keeps(hbf, b)
    <3>2. Ordered(hbf, b)
        BY HandlersOrdered
    <3> HIDE DEF b
    <3> QED
        BY <1>1, <1>2, <3>2, TouchKeeps DEF Ordered
  <2> HIDE DEF b
  <2> QED
      BY <1>1, <1>5, <2>1, KnownKept
<1>6. CASE ResumesGate(r[s]) /\ hbf' = d
  <2>1. turn[s].stage \in Gated /\ turn[s].stage \in OnHbf /\ Live(s)
      BY <1>2, <1>6, RefreshedType, SessionFacts DEF ResumesGate, Gated, OnHbf, Live
  <2>3. b.rec[s].state = "hbf_active" /\ b.rec[s].total <= k
      BY <1>1, <1>2, <2>1, FinishKeeps, LiveFacts
  <2> HIDE DEF b
  <2>4. ~d.failed
      BY <1>1, <1>2, <2>1, <2>3, GatedDrains
  <2>5. Keeps(hbf, b)
      BY <1>1, <1>2, HandlersOrdered, TouchKeeps DEF Ordered, b
  <2>6. Keeps(b, d)
      BY <1>2, TurnsKeep
  <2> HIDE DEF d
  <2> QED
      BY <1>1, <1>6, <2>4, <2>5, <2>6, KnownKept DEF Keeps
<1> QED
    BY <1>4, <1>5, <1>6

(* A batch: what moves from a request's headroom to its session is there,  *)
(* and a card holds as much as before.                                     *)
LEMMA BatchCommits ==
    ASSUME Sound, ~hbf.failed, Booked, setup.refresh, NEW g \in Group, NEW s \in DOMAIN batch[g]
    PROVE  Commits(s, batch[g][s])
<1> DEFINE r == hbf.rec[s]
           n == batch[g][s]
           t == turn[s]
           m == Materialized(t)
           f == Last(s, offered[s], r)
           c == r.committed
           u == Progress(s, n)
<1>1. /\ s \in Session /\ n \in Grants(s) /\ t.stage \in Running /\ r.state = "hbf_active"
      /\ t.stage \in OnHbf /\ Fitting(s, t, offered[s], r) /\ t \in TurnType
    BY BatchFacts, SessionFacts
<1>2. /\ n \in Nat /\ m \in Nat /\ f \in Nat /\ c \in Nat /\ c <= m /\ m + n <= f
      /\ Middle(u, r) = m + n
      /\ Held(hbf, Headroom(s)) = Stripe(m, f - m) /\ Held(hbf, Holder(s)) = Stripe(c, m - c)
      /\ Grown(s, n) = Stripe(c, (m + n) - c)
    BY MovedStored, Zenon
<1>3. f - m \in Nat /\ n <= f - m
    BY <1>2
<1>5. Within(Growth(s, n), Held(hbf, Headroom(s)))
    BY <1>2, <1>3, StripeWithin DEF Within, Growth
<1>6. ASSUME u.stage = "complete" PROVE Left(s, n) = Zero
  <2>1. Fitting(s, u, offered[s], r) /\ u \in TurnType
      BY <1>1, <1>2, ProgressFits, ProgressType
  <2>2. LET call == setup.script[s][offered[s]] IN
        /\ u.reused + u.done = call.input /\ u.generated = call.output
        /\ f = call.input + call.output - 1
      BY <1>1, <1>6, <2>1 DEF Fitting, Progressed, OnHbf, Last
  <2>3. Live(s)
      BY <1>1 DEF Live, Running
  <2>4. LET call == setup.script[s][offered[s]] IN call.input \in Nat \ {0} /\ call.output \in Nat \ {0}
      BY <1>1, <2>3, LiveFacts
  <2>5. m + n = f
      BY <1>1, <1>2, <2>1, <2>2, <2>4, MaterializedType, TurnTyping DEF Middle
  <2>6. f - m = n
      BY <1>2, <2>5
  <2>7. Left(s, n) = Minus(Stripe(m, n), Stripe(m, n))
      BY <1>2, <2>6 DEF Left, Growth
  <2> HIDE DEF m, n
  <2> QED
      BY <1>2, <2>7, StripeType, ZeroFacts DEF Minus, Counts
<1> QED
    BY <1>2, <1>5, <1>6 DEF Commits

LEMMA BatchHolds ==
    ASSUME Sound, ~hbf.failed, Booked, setup.refresh, NEW g \in Group
    PROVE  Holds(Moved(g, batch[g]), g)
<1> DEFINE l == hbf.lpddr
           v == Moved(g, batch[g])
           D == DOMAIN batch[g]
           H(T) == [o \in Owner |-> IF o[2] \in T THEN v[o] ELSE l[o]]
           P == {n \in Nat : \A T \in SUBSET D : Cardinality(T) = n => Holds(H(T), g)}
<1>1. /\ setup \in Setups /\ l \in Ledgers /\ setup.lpddrCap \in Nat /\ D \subseteq Session
      /\ IsFiniteSet(D) /\ Holds(l, g)
  <2>1. D \subseteq Session
      BY BatchFacts
  <2> QED
      BY <2>1, SetupFacts, Typing, SessionsAssumption, FS_Subset DEF Sound, Good, Ledgers, Booked
<1>2. ASSUME NEW s \in Session
      PROVE  /\ Holder(s) \in Owner /\ Headroom(s) \in Owner /\ Holder(s)[2] = s /\ Headroom(s)[2] = s
             /\ \A o \in Owner : o[2] = s => o \in {Holder(s), Headroom(s)}
    BY OwnerFacts DEF Owner, Holder, Headroom
<1>4. ASSUME NEW s \in D
      PROVE  /\ \A k \in Card : Weight(v, s, g, k) = Weight(l, s, g, k)
             /\ v[Holder(s)] \in [group : Places, bytes : Counts]
             /\ v[Headroom(s)] \in [group : Places, bytes : Counts]
  <2> DEFINE r == hbf.rec[s]
             n == batch[g][s]
             m == Materialized(turn[s])
             f == Last(s, offered[s], r)
             c == r.committed
             w == m + n
  <2>1. /\ n \in Nat /\ m \in Nat /\ f \in Nat /\ c \in Nat /\ c <= m /\ m + n <= f
        /\ Stored(s, r, m, f, l) /\ Stored(s, r, w, f, v)
      BY MovedStored, Zenon
  <2>2. s \in Session /\ r \in RecordType
      BY <1>1, SessionFacts
  <2>3. w \in Nat /\ c <= w /\ w <= f /\ m <= f /\ w - c \in Nat /\ f - w \in Nat
      BY <2>1
  <2> HIDE DEF v, l, m, n, f, w
  <2>7. /\ v[Holder(s)] \in [group : Places, bytes : Counts]
        /\ v[Headroom(s)] \in [group : Places, bytes : Counts]
      BY <2>1, <2>2, <2>3, EntryFacts, RecordTyping, StripeType DEF Stored
  <2> QED
      BY <1>1, <2>1, <2>2, <2>3, <2>7, StoredWeight
<1>5. ASSUME NEW T \in SUBSET D PROVE H(T) \in Ledgers
  <2> SUFFICES ASSUME NEW o \in Owner, o[2] \in T PROVE v[o] \in [group : Places, bytes : Counts]
      BY <1>1 DEF Ledgers
  <2> QED
      BY <1>2, <1>4 DEF Owner
<1> HIDE DEF v, l
<1>6. 0 \in P
  <2> SUFFICES ASSUME NEW T \in SUBSET D, Cardinality(T) = 0 PROVE Holds(H(T), g)
      OBVIOUS
  <2>1. T = {}
      BY <1>1, FS_Subset, FS_EmptySet
  <2>2. H(T) = l
      BY <1>1, <2>1 DEF Ledgers
  <2> QED
      BY <1>1, <2>2
<1>7. ASSUME NEW n \in Nat, n \in P PROVE n + 1 \in P
  <2> SUFFICES ASSUME NEW T \in SUBSET D, Cardinality(T) = n + 1 PROVE Holds(H(T), g)
      OBVIOUS
  <2>1. IsFiniteSet(T) /\ T # {}
      BY <1>1, FS_Subset, FS_EmptySet
  <2>2. PICK s \in T : TRUE
      BY <2>1
  <2> DEFINE S == T \ {s}
  <2>3. S \in SUBSET D /\ Cardinality(S) = n
    <3>1. Cardinality(S) = Cardinality(T) - 1
        BY <2>1, <2>2, FS_RemoveElement
    <3> QED
        BY <1>7, <3>1
  <2>4. Holds(H(S), g) /\ H(S) \in Ledgers /\ H(T) \in Ledgers
      BY <1>5, <1>7, <2>3
  <2>5. s \in Session /\ s \in D
      BY <1>1, <2>2
  <2>6. ASSUME NEW k \in Card PROVE Weight(H(T), s, g, k) = Weight(l, s, g, k) /\ Weight(H(S), s, g, k) = Weight(l, s, g, k)
    <3>1. /\ H(T)[Holder(s)] = v[Holder(s)] /\ H(T)[Headroom(s)] = v[Headroom(s)]
          /\ H(S)[Holder(s)] = l[Holder(s)] /\ H(S)[Headroom(s)] = l[Headroom(s)]
        BY <1>2, <2>2, <2>5
    <3> HIDE DEF H
    <3> QED
        BY <1>4, <2>5, <3>1 DEF Weight, Occupied
  <2>7. ASSUME NEW o \in Owner \ {Holder(s), Headroom(s)}, NEW k \in Card
        PROVE  Occupied(H(T), o, g, k) = Occupied(H(S), o, g, k)
    <3>1. o[2] # s
        BY <1>2, <2>5
    <3>2. H(T)[o] = H(S)[o]
        BY <3>1
    <3> HIDE DEF H
    <3> QED
        BY <3>2 DEF Occupied
  <2> DEFINE x == H(S)
             y == H(T)
  <2>8. \A o \in Owner, k \in Card : Occupied(x, o, g, k) \in Nat
      BY <2>4, UsedSum
  <2>9. \A o \in Owner \ {Holder(s), Headroom(s)}, k \in Card : Occupied(y, o, g, k) <= Occupied(x, o, g, k)
      BY <2>7, <2>8
  <2>10. \A k \in Card : Weight(y, s, g, k) <= Weight(x, s, g, k)
      BY <1>2, <2>5, <2>6, <2>8 DEF Weight
  <2>11. Holds(x, g) /\ x \in Ledgers /\ y \in Ledgers
      BY <2>4
  <2> HIDE DEF x, y, H
  <2>12. Holds(y, g)
      BY <1>1, <2>5, <2>9, <2>10, <2>11, HoldsLess
  <2> QED
      BY <2>12 DEF y
<1> HIDE DEF P
<1>8. Nat \subseteq P
    BY <1>6, <1>7, SetInduction
<1>9. Cardinality(D) \in Nat
    BY <1>1, FS_CardinalityType
<1>10. Holds(H(D), g)
    BY <1>8, <1>9 DEF P
<1>12. H(D) = v
    BY DEF v, Moved, l
<1> QED
    BY <1>10, <1>12 DEF v

LEMMA FinishBatchGoes ==
    ASSUME Sound, ~hbf.failed, Booked, Known, setup.refresh, NEW g \in Group, FinishBatch(g)
    PROVE  ~(hbf').failed /\ Known'
<1> DEFINE items == batch[g]
           l == Moved(g, items)
<1> HIDE DEF l
<1> QED
    BY Typing, BatchHolds, BatchCommits DEF Known, Commit, Moved, FinishBatch, Sound, Good

LEMMA OfferGoes ==
    ASSUME Sound, ~hbf.failed, Booked, Known, NEW s \in Session, Offer(s)
    PROVE  ~(hbf').failed /\ Known'
<1> DEFINE r      == hbf.rec[s]
           b      == Touch(hbf, s)
           k      == Reuse(s)
           growth == NextCall(s).input - k + NextCall(s).output - 1
           routed == IF r.state = "hbf_ready" THEN RouteHbf(b, s, k, growth) ELSE RouteGpu(b, s, k)
           onHbf  == routed.rec[s].state = "hbf_active"
<1>1. ~Live(s) /\ offered[s] < Len(setup.script[s]) /\ offered' = [offered EXCEPT ![s] = offered[s] + 1]
    BY Zenon DEF Offer
<1>2. hbf' = IF onHbf THEN Submit(routed, s) ELSE routed
    BY Zenon DEF Offer
<1>3. /\ setup \in Setups /\ Typed(hbf) /\ offered \in [Session -> Nat] /\ r \in RecordType
      /\ Place(r) /\ r.state \notin {"gpu_active", "hbf_active"}
    BY <1>1, SessionFacts, IdleFacts DEF Good
<1>4. /\ k \in Nat /\ k <= r.total /\ growth \in Nat
      /\ Good(b) /\ b.rec = hbf.rec /\ b.lpddr = hbf.lpddr /\ ~b.failed
    BY <1>1, OfferFacts
<1>5. Ordered(b, b)
    BY DEF Ordered
<1> HIDE DEF k, growth, b
<1>6. Ordered(b, routed)
    BY <1>5, HandlersOrdered
<1>7. ASSUME r.state # "hbf_ready" PROVE ~(hbf').failed
  <2>1. routed = RouteGpu(b, s, k)
      BY <1>7
  <2> HIDE DEF routed
  <2> QED
      BY <1>2, <1>3, <1>4, <1>7, <2>1, RouteGpuGood DEF Media
<1>8. ASSUME r.state = "hbf_ready" PROVE ~(hbf').failed
  <2>1. routed = RouteHbf(b, s, k, growth)
      BY <1>8
  <2>2. Resting(b, s)
    <3> DEFINE m == Middle(turn[s], r)
               f == Last(s, offered[s], r)
    <3>1. Stored(s, r, m, f, hbf.lpddr)
        BY RestFacts
    <3>2. m = r.total
        BY <1>8 DEF Middle
    <3> HIDE DEF m, f
    <3> QED
        BY <1>3, <1>4, <1>8, <3>1, <3>2, RecordTyping DEF Resting, Stored, Booked, Place, Media
  <2> HIDE DEF routed
  <2> QED
      BY <1>2, <1>3, <1>4, <1>8, <2>1, <2>2, RouteHbfRuns
<1> HIDE DEF routed
<1>9. ~(hbf').failed
    BY <1>7, <1>8
<1>11. Ordered(b, hbf')
    BY <1>2, <1>6, HandlersOrdered DEF Ordered
<1>12. Ordered(hbf, hbf)
    BY DEF Ordered
<1> QED
    BY <1>1, <1>3, <1>9, <1>11, <1>12, TouchKeeps DEF Known, Keeps, b

LEMMA StartMigrationGoes ==
    ASSUME Sound, ~hbf.failed, Known, NEW s \in Session, StartMigration(s)
    PROVE  ~(hbf').failed /\ Known'
<1>1. /\ setup \in Setups /\ Intact(hbf) /\ Typed(hbf) /\ Listed(hbf)
      /\ hbf' = Migrate(hbf, s, "gpu", TRUE) /\ offered' = offered
    BY KnownListed DEF Sound, Good, Intact, StartMigration
<1>2. ~(hbf').failed
    BY <1>1, MigrateRuns
<1>3. Ordered(hbf, hbf) /\ Ordered(hbf, hbf')
  <2>1. Ordered(hbf, hbf)
      BY DEF Ordered
  <2>2. Ordered(hbf, hbf')
      BY <1>1, HandlersOrdered
  <2> QED
      BY <2>1, <2>2
<1>4. Keeps(hbf, hbf')
    BY <1>1, <1>3, TouchKeeps
<1> QED
    BY <1>1, <1>2, <1>4, KnownKept

LEMMA EvictGpuReadyGoes ==
    ASSUME Sound, ~hbf.failed, Known, NEW s \in Session, EvictGpuReady(s)
    PROVE  ~(hbf').failed /\ Known'
<1> QED
    BY Typing DEF Known, Sound, Good, EvictGpuReady, Dropped

(* The hosts the argument is about: they publish the moved boundaries to   *)
(* the pool, and keep no SSD checkpoints, whose publication raises beside  *)
(* a migration that a resume has overtaken.                                *)
Hosted == setup.refresh /\ setup.policy \notin {"direct", "import"}
Runs == Hosted => ~hbf.failed /\ Booked /\ Known

LEMMA StepGoes ==
    ASSUME Sound, Hosted, ~hbf.failed, Booked, Known, Next
    PROVE  ~(hbf').failed /\ Known'
<1>1. setup.refresh /\ setup.policy \notin {"direct", "import"}
    BY DEF Hosted
<1>2. ASSUME NEW s \in Session, StartDrain(s) \/ CompleteHbf(s) \/ CompleteGpu(s)
      PROVE  ~(hbf').failed /\ Known'
    BY <1>2, StartDrainGoes, CompleteHbfGoes, CompleteGpuGoes
<1>3. ASSUME NEW g \in Group, Launch(g) \/ FinishBatch(g) PROVE ~(hbf').failed /\ Known'
    BY <1>1, <1>3, LaunchGoes, FinishBatchGoes
<1>4. ASSUME NEW j \in hbf.jobs, Finish(j) PROVE ~(hbf').failed /\ Known'
    BY <1>4, FinishGoes
<1>5. ASSUME NEW s \in Session, Offer(s) \/ StartMigration(s) \/ EvictGpuReady(s)
      PROVE  ~(hbf').failed /\ Known'
    BY <1>5, OfferGoes, StartMigrationGoes, EvictGpuReadyGoes
<1>6. ASSUME NEW s \in Session PROVE ~PublishCheckpoint(s) /\ ~StartImport(s)
    BY <1>1 DEF PublishCheckpoint, StartImport
<1> QED
    BY <1>2, <1>3, <1>4, <1>5, <1>6 DEF Next, Serve, Decide

LEMMA InitRuns ==
    ASSUME Init
    PROVE  Runs
<1>1. ~hbf.failed /\ Booked
    BY InitBooked DEF Init, HbfInit
<1>2. Known
    BY DEF Init, Known
<1> QED
    BY <1>1, <1>2 DEF Runs

LEMMA NextRuns ==
    ASSUME Sound, Runs, [Next]_vars
    PROVE  Runs'
<1> SUFFICES ASSUME Hosted' PROVE ~(hbf').failed /\ Booked' /\ Known'
    BY DEF Runs
<1>1. setup' = setup
    BY SetupKept
<1>2. Hosted /\ setup.refresh
    BY <1>1 DEF Hosted
<1>3. ~hbf.failed /\ Booked /\ Known
    BY <1>2 DEF Runs
<1>4. ~(hbf').failed /\ Known'
    BY <1>2, <1>3, StepGoes DEF vars, Known
<1>5. Booked'
    BY <1>1, <1>2, <1>3, <1>4, NextBooked DEF Ledgered
<1> QED
    BY <1>4, <1>5

(* No RuntimeError of the lifecycle, the ledger or the pool is reached,    *)
(* for any number of groups, cards and sessions, any capacities and any    *)
(* script, under every policy of a host that publishes the moved           *)
(* boundaries and leaves checkpoints alone: every release finds what it    *)
(* returns, every reservation the room that was counted on, every batch    *)
(* the headroom it was granted, every drain the prompt it moves, and the   *)
(* pool the placement it launched with, in whatever order callbacks,       *)
(* batches and calls come (reserve_groups, release_groups, set_card_bytes, *)
(* _commit_lpddr_growth, _refresh_request_placement).                      *)
THEOREM NothingRaises == Spec => [](Hosted => NeverRaises)
<1>1. Init => Sound /\ Runs
    BY InitSound, InitRuns
<1>2. Sound /\ Runs /\ [Next]_vars => Sound' /\ Runs'
    BY NextSound, NextRuns
<1>3. Runs => (Hosted => NeverRaises)
    BY DEF Runs, NeverRaises
<1> QED
    BY <1>1, <1>2, <1>3, PTL DEF Spec

(* In such a host the earlier theorems hold of every state it reaches: the *)
(* books of both media are exact and jobs stay with their sessions.        *)
THEOREM HostedExact ==
    Spec => [](Hosted => HbfBooksExact /\ LpddrBooksExact /\ JobsFollowSessions)
<1>1. Hosted => setup.refresh
    BY DEF Hosted
<1> QED
    BY <1>1, NothingRaises, BooksStayExact, LpddrStaysExact, JobsStayWithSessions, PTL DEF NeverRaises

(* And it serves its sessions as the abstract session cache does, whatever *)
(* it evicts, trims, migrates and resumes.                                 *)
THEOREM HostedServes == Spec /\ Hosted => ServesSessions
<1>1. Hosted /\ [Next]_vars => Hosted'
    BY SetupKept DEF Hosted
<1> QED
    BY <1>1, NothingRaises, SessionsServed, PTL DEF Spec
=============================================================================
