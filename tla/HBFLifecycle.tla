---------------------------- MODULE HBFLifecycle ----------------------------
(***************************************************************************)
(* FullModelHBFLifecycle and PerGroupCapacityLedger: where the KV cache of *)
(* every session lives once an HBF server stands beside the GPUs, the      *)
(* migrations and appends in flight, and the bytes of HBF and LPDDR they   *)
(* hold on every card of a replica group.                                  *)
(*                                                                         *)
(* The whole state is one record, hbf, and an operation is an operator     *)
(* from a state b to the next one, because the handlers of HBFServing      *)
(* chain several of them in one step. A RuntimeError sets failed, after    *)
(* which the program does nothing more. Token positions are striped over   *)
(* the cards of a group, a token to a card (one byte stands for the KV of  *)
(* a token there), and last_access_ns is the sequence lru, oldest first.   *)
(***************************************************************************)
EXTENDS Integers, Sequences, FiniteSets, FiniteSetsExt, Functions, Queues

CONSTANTS Session,
          Tp,       \* cards of a replica group
          Setups    \* servers considered: groups, capacities, policy, scripts

ASSUME SessionsAssumption == IsFiniteSet(Session)
ASSUME CardsAssumption == Tp \in Nat \ {0}
Policies == {"eager", "deferred", "never", "direct", "import"}
ASSUME SetupsAssumption ==
  \A st \in Setups :
    /\ {st.groups, st.hbfCap, st.lpddrCap, st.chunk} \subseteq Nat \ {0}
    /\ st.tail \in Nat \cup {-1} /\ st.minDrain \in Nat
    /\ st.policy \in Policies
    /\ {st.native, st.recompute, st.refresh, st.pressure} \subseteq BOOLEAN
    /\ st.script \in [Session -> Seq([input : Nat \ {0}, output : Nat \ {0}, reuse : Nat])]

VARIABLES setup,    \* the constructors' arguments, never changed
          hbf       \* [rec, lru, jobs, reserved, lpddr, failed]

NoGroup == 0
Group == 1..setup.groups
Card == 0..(Tp - 1)
Media == {"hbf_ready", "hbf_active"}

(* hbf_kv_range_card_bytes: count tokens from start on, card by card.      *)
Stripe(start, count) ==
  [c \in Card |-> Cardinality({p \in start..(start + count - 1) : p % Tp = c})]
Zero == Stripe(0, 0)
Plus(v, w) == [c \in Card |-> v[c] + w[c]]
Minus(v, w) == [c \in Card |-> v[c] - w[c]]
Within(v, w) == \A c \in Card : v[c] <= w[c]
SumOf(v) == [c \in Card |-> SumFunctionOnSet([x \in DOMAIN v |-> v[x][c]], DOMAIN v)]

Raise(b) == [b EXCEPT !.failed = TRUE]

-----------------------------------------------------------------------------
(* The LPDDR ledger: what a session holds, and the room its live request   *)
(* has reserved for the tokens it will still materialise.                  *)

Owner == {"session", "request"} \X Session
Holder(s) == <<"session", s>>
Headroom(s) == <<"request", s>>
Nobody == [group |-> NoGroup, bytes |-> Zero]
Held(b, o) == b.lpddr[o].bytes

Used(l, g) == SumOf([o \in Owner |-> IF l[o].group = g THEN l[o].bytes ELSE Zero])
Holds(l, g) == \A c \in Card : Used(l, g)[c] <= setup.lpddrCap

Entry(g, v) == IF v = Zero THEN Nobody ELSE [group |-> g, bytes |-> v]
CanSet(b, g, o, v) == Holds([b.lpddr EXCEPT ![o] = Entry(g, v)], g)
SetBytes(b, g, o, v) ==
  IF CanSet(b, g, o, v) THEN [b EXCEPT !.lpddr[o] = Entry(g, v)] ELSE Raise(b)
Drop(b, o) == [b EXCEPT !.lpddr[o] = Nobody]
Shrink(b, o, v) ==
  IF Within(v, Held(b, o)) THEN SetBytes(b, b.lpddr[o].group, o, Minus(Held(b, o), v))
  ELSE Raise(b)

-----------------------------------------------------------------------------
(* HBF reservations, and the idle contexts that may be evicted for one.    *)

Reserve(b, g, v) ==
  IF \A c \in Card : b.reserved[g][c] + v[c] <= setup.hbfCap
  THEN [b EXCEPT !.reserved[g] = Plus(@, v)] ELSE Raise(b)
Free(b, g, v) ==
  IF Within(v, b.reserved[g]) THEN [b EXCEPT !.reserved[g] = Minus(@, v)] ELSE Raise(b)

JobsOf(b, s, kind) == {j \in b.jobs : j.session = s /\ j.kind = kind}
JobBytes(j) == Stripe(j.start, j.count)
Committed(r) == Stripe(0, r.committed)

\* Mutant: a context an append still grows is evicted.
EvictableGrowing(b, g) ==
  {s \in Session : LET r == b.rec[s] IN
                   r.group = g /\ r.state = "hbf_ready" /\ r.committed > 0}

Evictable(b, g) ==
  {s \in Session : LET r == b.rec[s] IN
                   /\ r.group = g /\ r.state = "hbf_ready"
                   /\ r.lpddr = 0 /\ r.committed > 0 /\ JobsOf(b, s, "append") = {}}
Fits(b, g, v, vs) ==
  \A c \in Card : b.reserved[g][c] + v[c]
                    <= setup.hbfCap + SumOf([s \in vs |-> Committed(b.rec[s])])[c]

(* The least recently used contexts that make the room, or all of them     *)
(* when even that is not enough; none for what no group could hold.        *)
Oldest(b, g, n) == Evictable(b, g) \cap {b.lru[k] : k \in 1..n}
Victims(b, g, v) ==
  LET enough == {n \in 0..Len(b.lru) : Fits(b, g, v, Oldest(b, g, n))}
  IN  IF \E c \in Card : v[c] > setup.hbfCap THEN {}
      ELSE Oldest(b, g, IF enough = {} THEN Len(b.lru) ELSE Min(enough))

Without(r) ==
  [r EXCEPT !.group = NoGroup, !.committed = 0, !.lpddr = 0, !.generation = @ + 1]
Evicted(r) == [Without(r) EXCEPT !.state = "evicted"]
EnsureCapacity(b, g, v) ==
  LET vs == Victims(b, g, v)
      c  == Free(b, g, SumOf([s \in vs |-> Committed(b.rec[s])]))
  IN  [c EXCEPT !.rec = [s \in Session |-> IF s \in vs THEN Evicted(@[s]) ELSE @[s]],
                !.lpddr = [o \in Owner |-> IF o \in {Holder(s) : s \in vs} THEN Nobody ELSE @[o]]]

(* The feasible group that is least full on its fullest card.              *)
Peak(b, g, v) == Max({b.reserved[g][c] + v[c] : c \in Card})
Roomiest(b, v, gs) ==
  CHOOSE g \in gs : \A h \in gs : \/ Peak(b, g, v) < Peak(b, h, v)
                                  \/ Peak(b, g, v) = Peak(b, h, v) /\ g <= h

Touch(b, s) == [b EXCEPT !.lru = Append(Only(@, Session \ {s}), s)]

-----------------------------------------------------------------------------
(* Jobs: a migration writes a whole context to HBF, an append moves tokens *)
(* from LPDDR to the end of the committed prefix.                          *)

Job(kind, s, r, start, count) ==
  [kind |-> kind, session |-> s, generation |-> r.generation, version |-> r.version,
   group |-> r.group, start |-> start, count |-> count]

(* _start_migration: without room the source stays what it was. An import  *)
(* from the SSD evicts nobody.                                             *)
Migrate(b, s, source, evicts) ==
  LET r  == b.rec[s]
      v  == Stripe(0, r.total)
      gs == {g \in Group : Fits(b, g, v, IF evicts THEN Evictable(b, g) ELSE {})}
      g  == Roomiest(b, v, gs)
      m  == [r EXCEPT !.state = "migrating", !.generation = @ + 1, !.group = g, !.source = source]
  IN  IF gs = {} THEN [b EXCEPT !.rec[s].state = IF source = "gpu" THEN "gpu_ready" ELSE "ssd_ready"]
      ELSE [Reserve(EnsureCapacity(b, g, v), g, v) EXCEPT
              !.rec[s] = m, !.jobs = @ \cup {Job("migration", s, m, 0, r.total)}]

\* Mutant: a migration the session has overtaken is published.
IsCurrentStale(b, j) ==
  LET r == b.rec[j.session] IN r.state = "migrating" /\ r.group = j.group

(* A resume, or a later migration, makes an earlier one stale.             *)
IsCurrent(b, j) ==
  LET r == b.rec[j.session]
  IN  /\ r.state = "migrating" /\ r.group = j.group
      /\ r.generation = j.generation /\ r.version = j.version
FinishMigration(b, j) ==
  LET c == [b EXCEPT !.jobs = @ \ {j}]
  IN  IF IsCurrent(b, j)
      THEN [Drop(c, Holder(j.session)) EXCEPT
              !.rec[j.session] = [@ EXCEPT !.state = "hbf_ready", !.source = "none",
                                           !.committed = j.count, !.lpddr = 0]]
      ELSE Free(c, j.group, JobBytes(j))

(* Without HBF room the tokens stay in LPDDR, the evicted contexts do not  *)
(* come back.                                                              *)
StartAppend(b, s, start, count) ==
  LET r == b.rec[s]
      v == Stripe(start, count)
      c == EnsureCapacity(b, r.group, v)
  IN  IF Fits(c, r.group, v, {})
      THEN [Reserve(c, r.group, v) EXCEPT !.jobs = @ \cup {Job("append", s, r, start, count)}]
      ELSE c

\* Mutant: an append that completes out of order is published.
IsNextAny(b, j) == b.rec[j.session].generation = j.generation

(* An append is published if it continues the committed prefix of the      *)
(* lineage it was started for; its tokens are in LPDDR all the while.      *)
IsNext(b, j) ==
  LET r == b.rec[j.session]
  IN  /\ r.state # "ended" /\ r.group = j.group
      /\ r.generation = j.generation /\ j.version <= r.version
      /\ j.start = r.committed
FinishAppend(b, j) ==
  LET s == j.session
      r == b.rec[s]
      c == [b EXCEPT !.jobs = @ \ {j}]
  IN  IF ~IsNext(b, j) THEN Free(c, j.group, JobBytes(j))
      ELSE IF j.count > r.lpddr THEN Raise(c)
      ELSE [Shrink(c, Holder(s), JobBytes(j)) EXCEPT
              !.rec[s] = [r EXCEPT !.committed = @ + j.count, !.lpddr = @ - j.count]]

FinishJob(b, j) == IF j.kind = "migration" THEN FinishMigration(b, j) ELSE FinishAppend(b, j)

-----------------------------------------------------------------------------
(* The turns of a session.                                                 *)

End(b, s) ==
  LET r == b.rec[s]
      c == Drop(Drop(b, Headroom(s)), Holder(s))
      d == IF r.group = NoGroup THEN c ELSE Free(c, r.group, Committed(r))
  IN  [d EXCEPT !.rec[s] = [Without(r) EXCEPT !.state = "ended", !.source = "none"]]

CompleteGpuTurn(b, s, final, successor, start) ==
  LET r == b.rec[s]
      c == [Touch(b, s) EXCEPT !.rec[s] = [r EXCEPT !.version = @ + 1, !.total = final,
                                                    !.source = "none"]]
  IN  IF ~successor THEN End(c, s)
      ELSE IF start THEN Migrate(c, s, "gpu", TRUE)
      ELSE [c EXCEPT !.rec[s] = [@ EXCEPT !.state = "gpu_ready", !.group = NoGroup]]

\* Mutant: tokens of appends in flight are appended again.
InFlightNone(b, s) == 0

InFlight(b, s) ==
  LET js == {j \in JobsOf(b, s, "append") : j.generation = b.rec[s].generation}
  IN  SumFunctionOnSet([j \in js |-> j.count], js)

(* complete_hbf_turn: what the turn added stays in LPDDR until an append   *)
(* has moved it behind the appends still in flight.                        *)
CompleteHbfTurn(b, s, final, successor) ==
  LET r      == b.rec[s]
      lpddr  == r.lpddr + final - r.total
      target == Stripe(r.committed, lpddr)
      kept   == Drop(b, Headroom(s))
      c      == IF successor THEN SetBytes(kept, r.group, Holder(s), target) ELSE kept
      d      == [Touch(c, s) EXCEPT !.rec[s] = [r EXCEPT !.version = @ + 1, !.total = final]]
      e      == [d EXCEPT !.rec[s] = [@ EXCEPT !.state = "hbf_ready", !.lpddr = lpddr]]
      count  == lpddr - InFlight(b, s)
  IN  IF /\ Held(b, Headroom(s)) # Zero
         /\ Plus(Held(b, Holder(s)), Held(b, Headroom(s))) # target
      THEN Raise(b)
      ELSE IF ~successor THEN End(d, s)
      ELSE IF count <= 0 THEN e
      ELSE StartAppend(e, s, r.committed + InFlight(b, s), count)

(* start_active_prefill_drain: adopts the prompt the live request has      *)
(* materialised and moves all but a tail of its LPDDR tokens to HBF.       *)
Drain(b, s, total) ==
  LET r     == b.rec[s]
      lpddr == r.lpddr + total - r.total
      c     == [Touch(b, s) EXCEPT !.rec[s] = [r EXCEPT !.version = @ + 1, !.total = total,
                                                        !.lpddr = lpddr]]
      count == lpddr - Min({setup.tail, lpddr})
  IN  IF Held(b, Holder(s)) # Stripe(r.committed, lpddr) THEN Raise(b)
      ELSE IF JobsOf(b, s, "append") # {} \/ count = 0 THEN c
      ELSE StartAppend(c, s, r.committed, count)

(* _trim_hbf_lineage: what the next call does not reuse is given back, and *)
(* every append started for the longer context becomes stale.              *)
TrimHbf(b, s, reuse) ==
  LET r    == b.rec[s]
      kept == Min({reuse, r.committed})
      t    == [r EXCEPT !.generation = @ + 1, !.version = @ + 1, !.total = reuse,
                        !.committed = kept, !.lpddr = reuse - kept]
      c    == Free(b, r.group, Minus(Committed(r), Stripe(0, kept)))
  IN  IF reuse = r.committed + r.lpddr THEN b
      ELSE [SetBytes(c, r.group, Holder(s), Stripe(kept, reuse - kept)) EXCEPT !.rec[s] = t]

(* _route_hbf_lpddr_fallback: no LPDDR room for the turn, the HBF copy is  *)
(* abandoned and the call recomputes on the GPUs.                          *)
Abandon(b, s) ==
  LET r == b.rec[s]
      c == Drop(Drop(Free(b, r.group, Committed(r)), Holder(s)), Headroom(s))
  IN  [c EXCEPT !.rec[s] = [Without(r) EXCEPT !.state = "gpu_active", !.version = @ + 1]]

RouteHbf(b, s, reuse, growth) ==
  LET c == TrimHbf(b, s, reuse)
      g == c.rec[s].group
      v == Stripe(reuse, growth)
  IN  IF ~CanSet(c, g, Headroom(s), v) THEN Abandon(c, s)
      ELSE [SetBytes(c, g, Headroom(s), v) EXCEPT !.rec[s].state = "hbf_active"]

(* Whether a resume on the GPUs moves the generation of the session.       *)
Overtakes(r, reuse) == r.state \in {"migrating", "ssd_ready"} \/ reuse # r.total
RouteGpu(b, s, reuse) ==
  LET r == b.rec[s]
  IN  [b EXCEPT !.rec[s] =
         [r EXCEPT !.state = "gpu_active", !.group = NoGroup, !.source = "none", !.total = reuse,
                   !.version = @ + (IF reuse # r.total THEN 1 ELSE 0),
                   !.generation = @ + (IF Overtakes(r, reuse) THEN 1 ELSE 0)]]

(* The record of a session before register_session.                        *)
Unknown == [state |-> "none", generation |-> 0, version |-> 0, total |-> 0, committed |-> 0,
            lpddr |-> 0, group |-> NoGroup, source |-> "none"]
HbfInit ==
  /\ setup \in Setups
  /\ hbf = [rec |-> [s \in Session |-> Unknown], lru |-> <<>>, jobs |-> {},
            reserved |-> [g \in Group |-> Zero], lpddr |-> [o \in Owner |-> Nobody],
            failed |-> FALSE]
=============================================================================
