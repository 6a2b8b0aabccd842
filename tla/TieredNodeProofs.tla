-------------------------- MODULE TieredNodeProofs --------------------------
(***************************************************************************)
(* Proofs about TierLifecycle, for every set of sessions, every capacity   *)
(* and policy, and any number of calls and transfers, and about the node   *)
(* of TieredNode that drives it.  First the copies: no transfer reads a    *)
(* copy that is gone, no copy outlives its readers, a session has one      *)
(* authoritative context.  Then the bytes: each ledger holds exactly the   *)
(* copies, the reservations and the transfers that there are, and never    *)
(* more than its capacity.  Then the refinement: seen through KV, every    *)
(* operation is a step of the abstract cache SessionKV, or none.  Last the *)
(* node: it drives the lifecycle only by its operations, so all of this    *)
(* holds of every node.                                                    *)
(***************************************************************************)
EXTENDS TieredNode, LedgerProofs

(* What the invariants of the runs rest on: a transfer belongs to the      *)
(* session of the copy it reads, an idle context in HBM or CPU memory is   *)
(* read by nobody, a session that is being demoted has not changed since   *)
(* the demotion started, and a ticket agrees with the state of its         *)
(* session.                                                                *)
TicketMatches(s) ==
  LET t == tickets[s]
  IN  /\ t.hit < t.final
      /\ ~t.restored <=> rec[s].state = "preparing"
      /\ ~t.restored /\ t.copy # NoCopy => copies[t.copy].session = s
      /\ t.base # NoCopy => rec[s].primary = t.base /\ copies[t.base].tier = "d"

Links ==
  /\ \A c \in DOMAIN moves : moves[c].session = copies[c].session
  /\ \A c \in DOMAIN exports : exports[c].session = copies[c].session
  /\ \A s \in Session : rec[s].state \in {"d_ready", "cpu_ready"}
       => Pins(copies[rec[s].primary]) = 0
  /\ \A s \in Session : rec[s].state \in Demoting
       => /\ moves[rec[s].primary].version = rec[s].version
          /\ moves[rec[s].primary].generation = rec[s].generation
  /\ \A s \in Session : tickets[s] # NoTicket => TicketMatches(s)

TierInv ==
  TierTypeOK /\ SourcesPinned /\ RetiredIsRead /\ OneAuthority /\ HitsAreCurrent /\ Links
-----------------------------------------------------------------------------
(* The helpers.                                                            *)

(* Facts of a copy that retiring it, or pinning it, leaves alone.          *)
SameData(x, y) ==
  /\ x.session = y.session /\ x.tier = y.tier /\ x.version = y.version
  /\ x.generation = y.generation /\ x.tokens = y.tokens /\ x.bytes = y.bytes
SamePins(x, y) ==
  x.demotion = y.demotion /\ x.foreground = y.foreground /\ x.export = y.export

CopyTable(cs) == DOMAIN cs \subseteq CopyId /\ \A i \in DOMAIN cs : cs[i] \in CopyRecords

(* Retiring removes the copies nobody reads and marks the others.          *)
LEMMA RetireFacts ==
    ASSUME NEW cs, NEW gone, CopyTable(cs)
    PROVE  LET r == Retire(cs, gone)
           IN  /\ CopyTable(r)
               /\ DOMAIN r = {i \in DOMAIN cs : i \in gone => Pins(cs[i]) # 0}
               /\ \A i \in DOMAIN r :
                    /\ SameData(r[i], cs[i]) /\ SamePins(r[i], cs[i])
                    /\ r[i].retired <=> (cs[i].retired \/ i \in gone)
                    /\ r[i].shadow <=> (cs[i].shadow /\ i \notin gone)
<1> DEFINE r == Retire(cs, gone)
<1>1. DOMAIN r = {i \in DOMAIN cs : i \in gone => Pins(cs[i]) # 0}
    BY DEF Retire, Dying
<1>2. ASSUME NEW i \in DOMAIN r
      PROVE  /\ r[i] \in CopyRecords
             /\ SameData(r[i], cs[i]) /\ SamePins(r[i], cs[i])
             /\ r[i].retired <=> (cs[i].retired \/ i \in gone)
             /\ r[i].shadow <=> (cs[i].shadow /\ i \notin gone)
  <2>1. cs[i] \in CopyRecords
      BY <1>1 DEF CopyTable
  <2>2. CASE i \in gone
    <3>1. r[i] = [cs[i] EXCEPT !.retired = TRUE, !.shadow = FALSE]
        BY <1>1, <2>2 DEF Retire, Dying
    <3> QED
        BY <2>1, <2>2, <3>1 DEF CopyRecords, SameData, SamePins
  <2>3. CASE i \notin gone
    <3>1. r[i] = cs[i]
        BY <1>1, <2>3 DEF Retire, Dying
    <3> QED
        BY <2>1, <2>3, <3>1 DEF SameData, SamePins
  <2> QED
      BY <2>2, <2>3
<1> QED
    BY <1>1, <1>2 DEF CopyTable

LEMMA DivNat ==
    ASSUME NEW x \in Nat, NEW n \in Nat \ {0}
    PROVE  x \div n \in Nat
OBVIOUS

LEMMA BytesOnNat ==
    ASSUME NEW tier, NEW tokens \in Nat
    PROVE  BytesOn(tier, tokens) \in Nat
<1> DEFINE q == (tokens + Block - 1) \div Block
           f == IF tier \in {"p", "d"} THEN 1 ELSE Tp
<1>1. tokens + Block - 1 \in Nat /\ Block \in Nat \ {0}
    BY SizesAssumption
<1>2. q \in Nat
    BY <1>1, DivNat
<1>3. f \in Nat
    BY SizesAssumption
<1>4. BytesOn(tier, tokens) = q * f
    BY DEF BytesOn
<1> HIDE DEF q, f
<1>5. \A x, y \in Nat : x * y \in Nat
    OBVIOUS
<1> QED
    BY <1>2, <1>3, <1>4, <1>5

Fresh(n, s, tier, version, tokens) ==
  /\ n \in CopyRecords
  /\ n.session = s /\ n.tier = tier /\ n.version = version /\ n.tokens = tokens
  /\ n.retired = FALSE /\ n.shadow = FALSE
  /\ n.demotion = 0 /\ n.foreground = 0 /\ n.export = 0 /\ Pins(n) = 0

LEMMA NewCopyFacts ==
    ASSUME NEW s \in Session, NEW tier \in Tiers, NEW version \in Nat,
           NEW generation \in Nat, NEW tokens \in Nat
    PROVE  Fresh(NewCopy(s, tier, version, generation, tokens), s, tier, version, tokens)
    BY BytesOnNat DEF Fresh, NewCopy, CopyRecords, Pins

(* The library's Max and Min of the small sets the model takes them of.    *)
LEMMA MaxOfTwo ==
    ASSUME NEW x \in Int
    PROVE  Max({0, x}) \in Nat /\ Max({0, x}) >= x
<1> DEFINE m == IF x >= 0 THEN x ELSE 0
<1>1. m \in {0, x} /\ \A y \in {0, x} : m >= y
    OBVIOUS
<1>2. Max({0, x}) \in {0, x} /\ \A y \in {0, x} : Max({0, x}) >= y
    BY <1>1 DEF Max
<1> QED
    BY <1>2

LEMMA MinOfTwo ==
    ASSUME NEW x \in Nat, NEW y \in Nat
    PROVE  Min({x, y}) \in Nat /\ Min({x, y}) <= x /\ Min({x, y}) <= y
<1> DEFINE m == IF x <= y THEN x ELSE y
<1>1. m \in {x, y} /\ \A z \in {x, y} : m <= z
    OBVIOUS
<1>2. Min({x, y}) \in {x, y} /\ \A z \in {x, y} : Min({x, y}) <= z
    BY <1>1 DEF Min
<1> QED
    BY <1>2

LEMMA HitBounds ==
    ASSUME NEW c \in CallRecords, NEW held \in Nat
    PROVE  /\ Hit(c, held) \in Nat
           /\ Hit(c, held) <= held /\ Hit(c, held) < c.input
<1> DEFINE S == {c.reuse, held, c.input - 1}
           m == IF c.reuse <= held /\ c.reuse <= c.input - 1 THEN c.reuse
                ELSE IF held <= c.input - 1 THEN held ELSE c.input - 1
<1>0. c.reuse \in Nat /\ c.input \in Nat /\ c.input - 1 \in Nat
    BY DEF CallRecords
<1>1. m \in S /\ \A z \in S : m <= z
    BY <1>0
<1>2. Min(S) \in S /\ \A z \in S : Min(S) <= z
    BY <1>1 DEF Min
<1>3. Hit(c, held) = Min(S)
    BY DEF Hit
<1> QED
    BY <1>0, <1>2, <1>3

-----------------------------------------------------------------------------
(* Every operation preserves the invariant.                                *)

LEMMA CopiesTable ==
    ASSUME TierTypeOK
    PROVE  CopyTable(copies)
BY DEF TierTypeOK, CopyTable

LEMMA NowFacts ==
    ASSUME NEW r \in SessionRecords, NEW st \in States, NEW p \in CopyId \cup {NoCopy},
           NEW n \in Nat
    PROVE  LET m == Now(r, st, p, n)
           IN  /\ m \in SessionRecords
               /\ m.state = st /\ m.primary = p /\ m.tokens = n
               /\ m.version = r.version /\ m.generation = r.generation
<1>1. [r EXCEPT !.state = st, !.primary = p, !.tokens = n] \in SessionRecords
    BY DEF SessionRecords
<1> QED
    BY <1>1 DEF Now, SessionRecords

LEMMA OvertakenFacts ==
    ASSUME NEW r \in SessionRecords
    PROVE  LET m == Overtaken(r)
           IN  /\ m \in SessionRecords
               /\ m.state = r.state /\ m.primary = r.primary /\ m.tokens = r.tokens
               /\ m.version = r.version /\ m.generation = r.generation + 1
BY DEF Overtaken, SessionRecords

LEMMA LeavingFacts ==
    ASSUME NEW r \in SessionRecords, NEW st \in States, NEW p \in CopyId \cup {NoCopy},
           NEW n \in Nat
    PROVE  LET m == Overtaken(Now(r, st, p, n))
           IN  /\ m \in SessionRecords
               /\ m.state = st /\ m.primary = p /\ m.tokens = n
               /\ m.version = r.version /\ m.generation = r.generation + 1
<1> DEFINE q == Now(r, st, p, n)
<1>1. q \in SessionRecords /\ q.state = st /\ q.primary = p /\ q.tokens = n
      /\ q.version = r.version /\ q.generation = r.generation
    BY NowFacts
<1> HIDE DEF q
<1>2. LET m == Overtaken(q)
      IN  /\ m \in SessionRecords
          /\ m.state = q.state /\ m.primary = q.primary /\ m.tokens = q.tokens
          /\ m.version = q.version /\ m.generation = q.generation + 1
    BY <1>1, OvertakenFacts
<1> QED
    BY <1>1, <1>2 DEF q

\* A session that leaves, with or without a new generation.
LEMMA GoneFacts ==
    ASSUME NEW q \in SessionRecords, NEW st \in {"lost", "ended"},
           NEW r, r = Now(q, st, NoCopy, 0) \/ r = Overtaken(Now(q, st, NoCopy, 0))
    PROVE  /\ r \in SessionRecords
           /\ r.state = st /\ r.primary = NoCopy /\ r.version = q.version
<1>1. st \in States /\ NoCopy \in CopyId \cup {NoCopy} /\ 0 \in Nat
    BY DEF States
<1>2. CASE r = Now(q, st, NoCopy, 0)
    BY <1>1, <1>2, NowFacts
<1>3. CASE r = Overtaken(Now(q, st, NoCopy, 0))
    BY <1>1, <1>3, LeavingFacts
<1> QED
    BY <1>2, <1>3

LEMMA RecUpdate ==
    ASSUME rec \in [Session -> SessionRecords], NEW s \in Session, NEW r \in SessionRecords,
           rec' = [rec EXCEPT ![s] = r]
    PROVE  /\ rec' \in [Session -> SessionRecords]
           /\ rec'[s] = r
           /\ \A x \in Session \ {s} : rec'[x] = rec[x]
OBVIOUS

\* What TierTypeOK says, in pieces.
LEMMA Typed ==
    ASSUME TierTypeOK
    PROVE  /\ rec \in [Session -> SessionRecords]
           /\ \A s \in Session : rec[s] \in SessionRecords
           /\ \A i \in DOMAIN copies : copies[i].session \in Session
           /\ CopyTable(copies)
BY DEF TierTypeOK, CopyRecords, CopyTable

LEMMA ReleasePKeeps ==
    ASSUME TierInv, NEW s \in Session, ReleaseP(s)
    PROVE  TierInv'
<1> USE DEF TierInv
<1> DEFINE t == [tickets[s] EXCEPT !.pReleased = TRUE]
<1>1. tickets[s] \in TicketRecords /\ tickets[s] # NoTicket
    BY NamesAssumption DEF ReleaseP, TierTypeOK, OneAuthority, Busy
<1>2. /\ tickets' = [tickets EXCEPT ![s] = t]
      /\ UNCHANGED <<setup, rec, copies, moves, exports>>
    BY DEF ReleaseP
<1>3. /\ t \in TicketRecords
      /\ t.hit = tickets[s].hit /\ t.final = tickets[s].final
      /\ t.copy = tickets[s].copy /\ t.base = tickets[s].base
      /\ t.restored = tickets[s].restored
    BY <1>1 DEF TicketRecords
<1> HIDE DEF t
<1>4. /\ tickets' \in [Session -> TicketRecords \cup {NoTicket}]
      /\ tickets'[s] = t /\ t # NoTicket
      /\ \A x \in Session \ {s} : tickets'[x] = tickets[x]
    BY <1>2, <1>3, NamesAssumption DEF TierTypeOK
<1>5. \A i \in DOMAIN copies : Reading(i)' <=> Reading(i)
    BY <1>1, <1>2, <1>3, <1>4, Typed DEF Reading
<1>6. TierTypeOK'
    BY <1>2, <1>4 DEF TierTypeOK
<1>7. SourcesPinned'
    BY <1>1, <1>2, <1>3, <1>4, <1>5 DEF SourcesPinned
<1>8. RetiredIsRead' /\ OneAuthority'
    BY <1>1, <1>2, <1>4 DEF RetiredIsRead, OneAuthority
<1>9. HitsAreCurrent'
    BY <1>2, <1>3, <1>4, <1>5, Typed DEF HitsAreCurrent
<1>10. Links'
    BY <1>1, <1>2, <1>3, <1>4 DEF Links, TicketMatches
<1> QED
    BY <1>6, <1>7, <1>8, <1>9, <1>10

LEMMA RestartEndedKeeps ==
    ASSUME TierInv, NEW s \in Session, RestartEnded(s)
    PROVE  TierInv'
<1> USE DEF TierInv
<1> DEFINE r == Overtaken(Now(rec[s], "lost", NoCopy, 0))
<1>1. /\ rec[s].state = "ended"
      /\ rec' = [rec EXCEPT ![s] = r]
      /\ UNCHANGED <<setup, copies, moves, tickets, exports>>
    BY DEF RestartEnded, Drained
<1>2. /\ r \in SessionRecords
      /\ r.state = "lost" /\ r.primary = NoCopy /\ r.version = rec[s].version
  <2>1. "lost" \in States /\ rec[s] \in SessionRecords
      BY Typed DEF States
  <2> QED
      BY <2>1, LeavingFacts
<1> HIDE DEF r
<1>3. /\ rec' \in [Session -> SessionRecords] /\ rec'[s] = r
      /\ \A x \in Session \ {s} : rec'[x] = rec[x]
    BY <1>1, <1>2, Typed
<1>4. rec[s].primary = NoCopy /\ tickets[s] = NoTicket
    BY <1>1 DEF OneAuthority, Busy
<1>5. TierTypeOK'
    BY <1>1, <1>3 DEF TierTypeOK
<1>6. \A i \in DOMAIN copies : Reading(i)' <=> Reading(i)
    BY <1>1 DEF Reading
<1>7. SourcesPinned' /\ RetiredIsRead'
    BY <1>1, <1>6 DEF SourcesPinned, RetiredIsRead
<1>8. OneAuthority'
    BY <1>1, <1>2, <1>3, <1>4, Typed, NamesAssumption
       DEF OneAuthority, ReadyIn, Tiers, Demoting, Busy
<1>9. HitsAreCurrent'
    BY <1>1, <1>2, <1>3, <1>6, Typed DEF HitsAreCurrent
<1>10. Links'
    BY <1>1, <1>2, <1>3, <1>4 DEF Links, TicketMatches, Demoting
<1> QED
    BY <1>5, <1>7, <1>8, <1>9, <1>10

\* A session that leaves (evicted, finished, ended, exported): the transfers
\* that still read a copy of it keep that copy, retired.
LEMMA LeavingKeeps ==
    ASSUME TierInv, NEW s \in Session, NEW cs, NEW gone, NEW r \in SessionRecords,
           CopyTable(cs), DOMAIN cs = DOMAIN copies,
           \A i \in DOMAIN cs :
             /\ SameData(cs[i], copies[i])
             /\ cs[i].retired = copies[i].retired /\ cs[i].shadow = copies[i].shadow
             /\ cs[i].demotion = copies[i].demotion /\ cs[i].foreground = copies[i].foreground
             /\ cs[i].export = IF i \in DOMAIN exports' THEN 1 ELSE 0,
           DOMAIN exports' \subseteq DOMAIN exports,
           \A i \in DOMAIN exports' : exports'[i] = exports[i],
           DOMAIN exports \ DOMAIN exports' \subseteq gone,
           gone \subseteq CopiesOf(s),
           \A i \in CopiesOf(s) \ gone : copies[i].retired /\ ~copies[i].shadow,
           r.state \in {"lost", "ended"}, r.primary = NoCopy, r.version = rec[s].version,
           tickets[s] = NoTicket \/ tickets[s].restored,
           copies' = Retire(cs, gone),
           rec' = [rec EXCEPT ![s] = r],
           tickets' = [tickets EXCEPT ![s] = NoTicket],
           moves' = moves
    PROVE  TierInv'
<1> USE DEF TierInv
<1>1. /\ CopyTable(copies')
      /\ DOMAIN copies' = {i \in DOMAIN copies : i \in gone => Pins(cs[i]) # 0}
      /\ \A i \in DOMAIN copies' :
           /\ SameData(copies'[i], cs[i]) /\ SamePins(copies'[i], cs[i])
           /\ copies'[i].retired <=> (cs[i].retired \/ i \in gone)
           /\ copies'[i].shadow <=> (cs[i].shadow /\ i \notin gone)
  <2> DEFINE q == Retire(cs, gone)
  <2>1. /\ CopyTable(q)
        /\ DOMAIN q = {i \in DOMAIN cs : i \in gone => Pins(cs[i]) # 0}
        /\ \A i \in DOMAIN q :
             /\ SameData(q[i], cs[i]) /\ SamePins(q[i], cs[i])
             /\ q[i].retired <=> (cs[i].retired \/ i \in gone)
             /\ q[i].shadow <=> (cs[i].shadow /\ i \notin gone)
      BY RetireFacts
  <2>2. copies' = q
      OBVIOUS
  <2> HIDE DEF q
  <2> QED
      BY <2>1, <2>2
<1>2. /\ rec' \in [Session -> SessionRecords] /\ rec'[s] = r
      /\ \A x \in Session \ {s} : rec'[x] = rec[x]
    BY RecUpdate, Typed
<1>3. /\ tickets' \in [Session -> TicketRecords \cup {NoTicket}] /\ tickets'[s] = NoTicket
      /\ \A x \in Session \ {s} : tickets'[x] = tickets[x]
    BY DEF TierTypeOK
<1>4. \A i \in DOMAIN copies' :
        /\ i \in DOMAIN copies /\ SameData(copies'[i], copies[i])
        /\ copies'[i].demotion = copies[i].demotion
        /\ copies'[i].foreground = copies[i].foreground
        /\ copies'[i].export = IF i \in DOMAIN exports' THEN 1 ELSE 0
        /\ copies'[i].retired <=> (copies[i].retired \/ i \in gone)
        /\ copies'[i].shadow <=> (copies[i].shadow /\ i \notin gone)
    BY <1>1 DEF SameData, SamePins
<1>5. \A i \in DOMAIN copies' : Reading(i)' <=> Reading(i)
  <2> SUFFICES ASSUME NEW i \in DOMAIN copies' PROVE Reading(i)' <=> Reading(i)
      OBVIOUS
  <2>1. copies'[i].session = copies[i].session /\ copies[i].session \in Session
      BY <1>4, Typed DEF SameData
  <2> QED
      BY <1>3, <2>1 DEF Reading
<1>6. TierTypeOK'
    BY <1>1, <1>2, <1>3 DEF TierTypeOK, CopyTable
<1>7. SourcesPinned'
  <2>1. DOMAIN moves' \cup DOMAIN exports' \subseteq DOMAIN copies'
    <3>1. ASSUME NEW i \in DOMAIN moves \cup DOMAIN exports' PROVE Pins(cs[i]) # 0
      <4>1. i \in DOMAIN copies /\ cs[i] \in CopyRecords
          BY DEF SourcesPinned, CopyTable
      <4>2. cs[i].demotion = 1 \/ cs[i].export = 1
          BY <3>1, <4>1 DEF SourcesPinned
      <4> QED
          BY <4>1, <4>2 DEF Pins, CopyRecords
    <3> QED
        BY <1>1, <3>1 DEF SourcesPinned
  <2>2. ASSUME NEW x \in Session, tickets'[x] # NoTicket, ~tickets'[x].restored,
               tickets'[x].copy # NoCopy
        PROVE  tickets'[x].copy \in DOMAIN copies'
    <3>1. x # s /\ tickets'[x] = tickets[x]
        BY <1>3, <2>2
    <3>2. copies[tickets[x].copy].session = x /\ tickets[x].copy \in DOMAIN copies
        BY <2>2, <3>1 DEF Links, TicketMatches, SourcesPinned
    <3> QED
        BY <1>1, <2>2, <3>1, <3>2 DEF CopiesOf
  <2> QED
      BY <1>4, <1>5, <2>1, <2>2 DEF SourcesPinned
<1>8. RetiredIsRead'
  <2> SUFFICES ASSUME NEW i \in DOMAIN copies', copies'[i].retired PROVE Pins(copies'[i]) > 0
      BY DEF RetiredIsRead
  <2>1. /\ i \in DOMAIN copies /\ cs[i] \in CopyRecords /\ copies'[i] \in CopyRecords
        /\ SamePins(copies'[i], cs[i])
      BY <1>1 DEF CopyTable
  <2>2. CASE i \in gone
      BY <1>1, <2>1, <2>2 DEF Pins, SamePins, CopyRecords
  <2>3. CASE i \notin gone
    <3>1. copies[i].retired /\ Pins(copies[i]) > 0
        BY <1>4, <2>1, <2>3 DEF RetiredIsRead
    <3>2. copies[i].export = cs[i].export
        BY <2>1, <2>3 DEF SourcesPinned
    <3> QED
        BY <2>1, <3>1, <3>2 DEF Pins, SamePins
  <2> QED
      BY <2>2, <2>3
<1>9. OneAuthority'
  <2>1. ASSUME NEW x \in Session, rec'[x].primary # NoCopy
        PROVE  /\ x # s /\ rec'[x] = rec[x] /\ rec[x].primary \in DOMAIN copies'
               /\ copies[rec[x].primary].session = x /\ rec[x].primary \notin gone
    <3>1. x # s /\ rec'[x] = rec[x]
        BY <1>2, <2>1
    <3>2. rec[x].primary \in DOMAIN copies /\ copies[rec[x].primary].session = x
        BY <2>1, <3>1 DEF OneAuthority
    <3> QED
        BY <1>1, <3>1, <3>2 DEF CopiesOf
  <2>2. \A x \in Session : rec'[x].primary # NoCopy =>
          /\ rec'[x].primary \in DOMAIN copies'
          /\ copies'[rec'[x].primary].session = x
          /\ copies'[rec'[x].primary].version = rec'[x].version
          /\ ~copies'[rec'[x].primary].retired /\ ~copies'[rec'[x].primary].shadow
      BY <1>4, <2>1 DEF OneAuthority, SameData
  <2>3. \A x \in Session : \A tier \in Tiers : rec'[x].state = ReadyIn[tier] =>
          rec'[x].primary # NoCopy /\ copies'[rec'[x].primary].tier = tier
    <3> SUFFICES ASSUME NEW x \in Session, NEW tier \in Tiers, rec'[x].state = ReadyIn[tier]
                 PROVE  rec'[x].primary # NoCopy /\ copies'[rec'[x].primary].tier = tier
        OBVIOUS
    <3>1. x # s /\ rec'[x] = rec[x]
        BY <1>2 DEF ReadyIn, Tiers
    <3>2. rec[x].primary # NoCopy /\ copies[rec[x].primary].tier = tier
        BY <3>1 DEF OneAuthority
    <3> QED
        BY <1>4, <2>1, <3>1, <3>2 DEF SameData
  <2>4. \A x \in Session :
          /\ rec'[x].state \in {"lost", "ended"} => rec'[x].primary = NoCopy
          /\ rec'[x].state \in Demoting => rec'[x].primary \in DOMAIN moves'
          /\ rec'[x].state \in Busy <=> tickets'[x] # NoTicket
      BY <1>2, <1>3 DEF OneAuthority, Demoting, Busy
  <2>5. ASSUME NEW i \in DOMAIN copies'
        PROVE  /\ ~copies'[i].retired /\ ~copies'[i].shadow
                    => rec'[copies'[i].session].primary = i
               /\ copies'[i].shadow => rec'[copies'[i].session].state \in Busy
    <3> DEFINE x == copies[i].session
    <3>1. x \in Session /\ copies'[i].session = x /\ i \in DOMAIN copies
        BY <1>4, Typed DEF SameData
    <3>2. CASE x = s
        BY <1>4, <3>1, <3>2 DEF CopiesOf
    <3>3. CASE x # s
        BY <1>2, <1>4, <3>1, <3>3 DEF OneAuthority, CopiesOf
    <3> QED
        BY <3>2, <3>3
  <2> QED
      BY <2>2, <2>3, <2>4, <2>5 DEF OneAuthority
<1>10. HitsAreCurrent'
  <2> SUFFICES ASSUME NEW i \in DOMAIN copies', Reading(i)'
               PROVE  /\ copies'[i].version = rec'[copies'[i].session].version
                      /\ copies'[i].tokens >= tickets'[copies'[i].session].hit
      BY DEF HitsAreCurrent
  <2> DEFINE x == copies[i].session
  <2>1. x \in Session /\ copies'[i].session = x /\ i \in DOMAIN copies
      BY <1>4, Typed DEF SameData
  <2>2. x # s
      BY <1>3, <2>1 DEF Reading
  <2>3. copies[i].version = rec[x].version /\ copies[i].tokens >= tickets[x].hit
      BY <1>5, <2>1 DEF HitsAreCurrent
  <2> QED
      BY <1>2, <1>3, <1>4, <2>1, <2>2, <2>3 DEF SameData
<1>11. Links'
  <2>1. /\ \A c \in DOMAIN moves' : moves'[c].session = copies'[c].session
        /\ \A c \in DOMAIN exports' : exports'[c].session = copies'[c].session
      BY <1>4, <1>7 DEF SourcesPinned, Links, SameData
  <2>2. ASSUME NEW x \in Session, rec'[x].state \in {"d_ready", "cpu_ready"}
        PROVE  Pins(copies'[rec'[x].primary]) = 0
    <3>1. x # s /\ rec'[x] = rec[x]
        BY <1>2, <2>2
    <3> DEFINE i == rec[x].primary
    <3>2. i \in DOMAIN copies /\ copies[i].session = x
      <4>1. \E tier \in Tiers : rec[x].state = ReadyIn[tier]
          BY <2>2, <3>1 DEF Tiers, ReadyIn
      <4> QED
          BY <4>1 DEF OneAuthority
    <3>3. Pins(copies[i]) = 0 /\ i \notin gone
        BY <2>2, <3>1, <3>2 DEF Links, CopiesOf
    <3>4. /\ i \in DOMAIN copies' /\ copies'[i].demotion = copies[i].demotion
          /\ copies'[i].foreground = copies[i].foreground
          /\ copies'[i].export = copies[i].export
        BY <1>1, <1>4, <3>2, <3>3 DEF SourcesPinned
    <3> QED
        BY <3>1, <3>3, <3>4 DEF Pins
  <2>3. ASSUME NEW x \in Session, tickets'[x] # NoTicket
        PROVE  TicketMatches(x)'
    <3>1. x # s /\ rec'[x] = rec[x] /\ tickets'[x] = tickets[x] /\ TicketMatches(x)
        BY <1>2, <1>3, <2>3 DEF Links
    <3>2. ASSUME tickets[x].base # NoCopy PROVE tickets[x].base \in DOMAIN copies'
      <4>1. rec[x].primary = tickets[x].base
          BY <3>1, <3>2 DEF TicketMatches
      <4> QED
          BY <1>1, <3>1, <3>2, <4>1 DEF OneAuthority, CopiesOf
    <3>3. ~tickets[x].restored /\ tickets[x].copy # NoCopy
            => tickets[x].copy \in DOMAIN copies'
        BY <1>7, <2>3, <3>1 DEF SourcesPinned
    <3> QED
        BY <1>4, <3>1, <3>2, <3>3 DEF TicketMatches, SameData
  <2>5. ASSUME NEW x \in Session, rec'[x].state \in Demoting
        PROVE  /\ moves'[rec'[x].primary].version = rec'[x].version
               /\ moves'[rec'[x].primary].generation = rec'[x].generation
    <3>1. rec'[x] = rec[x]
        BY <1>2, <2>5 DEF Demoting
    <3> QED
        BY <2>5, <3>1 DEF Links
  <2> QED
      BY <2>1, <2>2, <2>3, <2>5 DEF Links
<1> QED
    BY <1>6, <1>7, <1>8, <1>9, <1>10, <1>11

\* What LeavingKeeps asks of the copies when no export ends.
LEMMA SameCopies ==
    ASSUME TierInv
    PROVE  /\ CopyTable(copies)
           /\ \A i \in DOMAIN copies :
                /\ SameData(copies[i], copies[i])
                /\ copies[i].export = IF i \in DOMAIN exports THEN 1 ELSE 0
BY Typed DEF TierInv, SourcesPinned, SameData

\* An idle or ended session has no ticket.
LEMMA IdleHasNoTicket ==
    ASSUME TierInv, NEW s \in Session, rec[s].state \notin Busy
    PROVE  tickets[s] = NoTicket
BY DEF TierInv, OneAuthority

LEMMA NoTicketUpdate ==
    ASSUME TierTypeOK, NEW s \in Session, tickets[s] = NoTicket, UNCHANGED tickets
    PROVE  tickets' = [tickets EXCEPT ![s] = NoTicket]
BY DEF TierTypeOK

LEMMA EndKeeps ==
    ASSUME TierInv, NEW s \in Session, End(s)
    PROVE  TierInv'
<1> DEFINE r == Overtaken(Now(rec[s], "ended", NoCopy, 0))
<1>1. /\ rec[s].state \notin Busy
      /\ copies' = Retire(copies, CopiesOf(s))
      /\ rec' = [rec EXCEPT ![s] = r]
      /\ UNCHANGED <<moves, tickets, exports>>
    BY DEF End
<1>2. rec[s] \in SessionRecords
    BY Typed DEF TierInv
<1>3. r \in SessionRecords /\ r.state = "ended" /\ r.primary = NoCopy /\ r.version = rec[s].version
    BY <1>2, GoneFacts
<1> HIDE DEF r
<1>4. tickets' = [tickets EXCEPT ![s] = NoTicket] /\ tickets[s] = NoTicket
    BY <1>1, IdleHasNoTicket, NoTicketUpdate DEF TierInv
<1> QED
    BY <1>1, <1>3, <1>4, SameCopies, LeavingKeeps

LEMMA FinishKeeps ==
    ASSUME TierInv, NEW s \in Session, Finish(s)
    PROVE  TierInv'
<1> DEFINE r == Now(rec[s], "ended", NoCopy, 0)
<1>1. /\ tickets[s] # NoTicket /\ rec[s].state = "active"
      /\ copies' = Retire(copies, CopiesOf(s))
      /\ rec' = [rec EXCEPT ![s] = r]
      /\ tickets' = [tickets EXCEPT ![s] = NoTicket]
      /\ UNCHANGED <<moves, exports>>
    BY DEF Finish, CommitDue
<1>2. rec[s] \in SessionRecords
    BY Typed DEF TierInv
<1>3. r \in SessionRecords /\ r.state = "ended" /\ r.primary = NoCopy /\ r.version = rec[s].version
    BY <1>2, GoneFacts
<1> HIDE DEF r
<1>4. tickets[s].restored
  <2>1. TicketMatches(s) /\ tickets[s] \in TicketRecords
      BY <1>1 DEF TierInv, Links, TierTypeOK
  <2> QED
      BY <1>1, <2>1 DEF TicketMatches, TicketRecords
<1> QED
    BY <1>1, <1>3, <1>4, SameCopies, LeavingKeeps

\* The copies of an idle session other than its authoritative one are retired.
LEMMA OthersRetired ==
    ASSUME TierInv, NEW s \in Session, rec[s].state \notin Busy,
           NEW i \in CopiesOf(s), i # rec[s].primary
    PROVE  copies[i].retired /\ ~copies[i].shadow
<1>1. i \in DOMAIN copies /\ copies[i].session = s
    BY DEF CopiesOf
<1>2. copies[i] \in CopyRecords
    BY <1>1 DEF TierInv, TierTypeOK
<1>3. ~copies[i].shadow
    BY <1>1 DEF TierInv, OneAuthority
<1>4. ~(~copies[i].retired /\ ~copies[i].shadow)
    BY <1>1 DEF TierInv, OneAuthority
<1> QED
    BY <1>3, <1>4

LEMMA DropKeeps ==
    ASSUME TierInv, NEW s \in Session, Drop(s)
    PROVE  TierInv'
<1> DEFINE r == Overtaken(Now(rec[s], "lost", NoCopy, 0))
           p == rec[s].primary
           gone == {p}
<1>1. /\ rec[s].state = "d_ready"
      /\ copies' = Retire(copies, gone)
      /\ rec' = [rec EXCEPT ![s] = r]
      /\ UNCHANGED <<moves, tickets, exports>>
    BY DEF Drop, Lost
<1>2. rec[s] \in SessionRecords
    BY Typed DEF TierInv
<1>3. r \in SessionRecords /\ r.state = "lost" /\ r.primary = NoCopy /\ r.version = rec[s].version
    BY <1>2, GoneFacts
<1> HIDE DEF r
<1>4. rec[s].state \notin Busy /\ rec[s].state = ReadyIn["d"] /\ "d" \in Tiers
    BY <1>1 DEF Busy, ReadyIn, Tiers
<1>5. tickets' = [tickets EXCEPT ![s] = NoTicket] /\ tickets[s] = NoTicket
    BY <1>1, <1>4, IdleHasNoTicket, NoTicketUpdate DEF TierInv
<1>6. gone \subseteq CopiesOf(s)
    BY <1>4 DEF TierInv, OneAuthority, CopiesOf
<1>7. \A i \in CopiesOf(s) \ gone : copies[i].retired /\ ~copies[i].shadow
    BY <1>4, OthersRetired
<1> HIDE DEF gone
<1> QED
    BY <1>1, <1>3, <1>5, <1>6, <1>7, SameCopies, LeavingKeeps

\* A copy loses the pin of an export.
LEMMA ExportUnpinned ==
    ASSUME TierInv, NEW c \in DOMAIN exports
    PROVE  LET cs == [copies EXCEPT ![c].export = @ - 1]
           IN  /\ CopyTable(cs) /\ DOMAIN cs = DOMAIN copies
               /\ \A i \in DOMAIN cs :
                    /\ SameData(cs[i], copies[i])
                    /\ cs[i].retired = copies[i].retired /\ cs[i].shadow = copies[i].shadow
                    /\ cs[i].demotion = copies[i].demotion
                    /\ cs[i].foreground = copies[i].foreground
                    /\ cs[i].export = IF i \in DOMAIN exports \ {c} THEN 1 ELSE 0
<1> DEFINE q == [copies[c] EXCEPT !.export = @ - 1]
           cs == [copies EXCEPT ![c].export = @ - 1]
<1>1. c \in DOMAIN copies /\ copies[c] \in CopyRecords /\ copies[c].export = 1
    BY DEF TierInv, TierTypeOK, SourcesPinned
<1>2. /\ q \in CopyRecords /\ SameData(q, copies[c]) /\ q.export = 0
      /\ q.retired = copies[c].retired /\ q.shadow = copies[c].shadow
      /\ q.demotion = copies[c].demotion /\ q.foreground = copies[c].foreground
    BY <1>1 DEF CopyRecords, SameData
<1>3. DOMAIN cs = DOMAIN copies /\ cs[c] = q /\ \A i \in DOMAIN copies \ {c} : cs[i] = copies[i]
    BY <1>1
<1> HIDE DEF q, cs
<1>4. CopyTable(cs)
    BY <1>2, <1>3, Typed DEF CopyTable, TierInv
<1>5. ASSUME NEW i \in DOMAIN cs
      PROVE  /\ SameData(cs[i], copies[i])
             /\ cs[i].retired = copies[i].retired /\ cs[i].shadow = copies[i].shadow
             /\ cs[i].demotion = copies[i].demotion
             /\ cs[i].foreground = copies[i].foreground
             /\ cs[i].export = IF i \in DOMAIN exports \ {c} THEN 1 ELSE 0
    BY <1>2, <1>3, <1>5, SameCopies
<1> QED
    BY <1>3, <1>4, <1>5 DEF cs

LEMMA FinishExportKeeps ==
    ASSUME TierInv, NEW c \in CopyId, FinishExport(c)
    PROVE  TierInv'
<1> DEFINE s == exports[c].session
           r == Overtaken(Now(rec[s], "ended", NoCopy, 0))
           cs == [copies EXCEPT ![c].export = @ - 1]
<1>1. /\ c \in DOMAIN exports
      /\ rec[s].state = "ssd_ready"
      /\ copies' = Retire(cs, CopiesOf(s))
      /\ rec' = [rec EXCEPT ![s] = r]
      /\ exports' = [i \in DOMAIN exports \ {c} |-> exports[i]]
      /\ UNCHANGED <<moves, tickets>>
    BY DEF FinishExport, PublicationValid
<1>2. s \in Session /\ c \in CopiesOf(s)
    BY <1>1 DEF TierInv, TierTypeOK, Links, SourcesPinned, CopiesOf
<1>3. rec[s] \in SessionRecords
    BY <1>2, Typed DEF TierInv
<1>4. r \in SessionRecords /\ r.state = "ended" /\ r.primary = NoCopy /\ r.version = rec[s].version
    BY <1>3, GoneFacts
<1>5. tickets' = [tickets EXCEPT ![s] = NoTicket] /\ tickets[s] = NoTicket
    BY <1>1, <1>2, IdleHasNoTicket, NoTicketUpdate DEF TierInv, Busy
<1>6. /\ CopyTable(cs) /\ DOMAIN cs = DOMAIN copies
      /\ \A i \in DOMAIN cs :
           /\ SameData(cs[i], copies[i])
           /\ cs[i].retired = copies[i].retired /\ cs[i].shadow = copies[i].shadow
           /\ cs[i].demotion = copies[i].demotion
           /\ cs[i].foreground = copies[i].foreground
           /\ cs[i].export = IF i \in DOMAIN exports \ {c} THEN 1 ELSE 0
    BY <1>1, ExportUnpinned
<1>7. /\ DOMAIN exports' = DOMAIN exports \ {c}
      /\ \A i \in DOMAIN exports' : exports'[i] = exports[i]
    BY <1>1
<1>8. /\ DOMAIN exports' \subseteq DOMAIN exports
      /\ DOMAIN exports \ DOMAIN exports' \subseteq CopiesOf(s)
      /\ \A i \in DOMAIN cs : cs[i].export = IF i \in DOMAIN exports' THEN 1 ELSE 0
    BY <1>1, <1>2, <1>6, <1>7
<1> HIDE DEF r, cs, s
<1> QED
    BY <1>1, <1>2, <1>4, <1>5, <1>6, <1>7, <1>8, LeavingKeeps

\* Only pins of exports change, and what is retired goes when unread.
LEMMA ReleaseExportKeeps ==
    ASSUME TierInv, NEW c \in DOMAIN exports, ReleaseExport(c)
    PROVE  TierInv'
<1> USE DEF TierInv
<1> DEFINE spent == IF copies[c].retired THEN {c} ELSE {}
           cs == [copies EXCEPT ![c].export = @ - 1]
<1>1. /\ copies' = Retire(cs, spent)
      /\ exports' = [i \in DOMAIN exports \ {c} |-> exports[i]]
      /\ UNCHANGED <<rec, moves, tickets>>
    BY DEF ReleaseExport
<1>0. rec' = rec /\ moves' = moves /\ tickets' = tickets
    BY <1>1
<1>2. /\ CopyTable(cs) /\ DOMAIN cs = DOMAIN copies
      /\ \A i \in DOMAIN cs :
           /\ SameData(cs[i], copies[i])
           /\ cs[i].retired = copies[i].retired /\ cs[i].shadow = copies[i].shadow
           /\ cs[i].demotion = copies[i].demotion
           /\ cs[i].foreground = copies[i].foreground
           /\ cs[i].export = IF i \in DOMAIN exports \ {c} THEN 1 ELSE 0
    BY ExportUnpinned
<1>3. /\ DOMAIN exports' = DOMAIN exports \ {c}
      /\ \A i \in DOMAIN exports' : exports'[i] = exports[i]
    BY <1>1
<1> HIDE DEF cs
<1>4. /\ CopyTable(copies')
      /\ DOMAIN copies' = {i \in DOMAIN cs : i \in spent => Pins(cs[i]) # 0}
      /\ \A i \in DOMAIN copies' :
           /\ SameData(copies'[i], cs[i]) /\ SamePins(copies'[i], cs[i])
           /\ copies'[i].retired <=> (cs[i].retired \/ i \in spent)
           /\ copies'[i].shadow <=> (cs[i].shadow /\ i \notin spent)
  <2> HIDE DEF spent
  <2> DEFINE q == Retire(cs, spent)
  <2>1. /\ CopyTable(q)
        /\ DOMAIN q = {i \in DOMAIN cs : i \in spent => Pins(cs[i]) # 0}
        /\ \A i \in DOMAIN q :
             /\ SameData(q[i], cs[i]) /\ SamePins(q[i], cs[i])
             /\ q[i].retired <=> (cs[i].retired \/ i \in spent)
             /\ q[i].shadow <=> (cs[i].shadow /\ i \notin spent)
      BY <1>2, RetireFacts
  <2>2. copies' = q
      BY <1>1
  <2> HIDE DEF q
  <2> QED
      BY <2>1, <2>2
<1>5. \A i \in DOMAIN copies : copies[i] \in CopyRecords /\ cs[i] \in CopyRecords
    BY <1>2 DEF TierTypeOK, CopyTable
<1>6. \A i \in DOMAIN copies' :
        /\ i \in DOMAIN copies /\ SameData(copies'[i], copies[i])
        /\ copies'[i].demotion = copies[i].demotion
        /\ copies'[i].foreground = copies[i].foreground
        /\ copies'[i].export = IF i \in DOMAIN exports' THEN 1 ELSE 0
        /\ copies'[i].retired <=> copies[i].retired
        /\ copies'[i].shadow => copies[i].shadow
        /\ ~copies[i].retired => (copies'[i].shadow <=> copies[i].shadow)
    BY <1>2, <1>3, <1>4 DEF SameData, SamePins
<1>7. ASSUME NEW i \in DOMAIN copies, ~copies[i].retired \/ Pins(cs[i]) # 0
      PROVE  i \in DOMAIN copies'
    BY <1>2, <1>4, <1>7
<1>8. \A i \in DOMAIN moves \cup DOMAIN exports' : i \in DOMAIN copies'
  <2> SUFFICES ASSUME NEW i \in DOMAIN moves \cup DOMAIN exports' PROVE i \in DOMAIN copies'
      OBVIOUS
  <2>1. i \in DOMAIN copies /\ (copies[i].demotion = 1 \/ cs[i].export = 1)
      BY <1>2, <1>3 DEF SourcesPinned
  <2> QED
      BY <1>2, <1>5, <1>7, <2>1 DEF Pins, CopyRecords
<1>9. \A i \in DOMAIN copies' : Reading(i)' <=> Reading(i)
    BY <1>1, <1>6 DEF Reading, SameData
<1>10. \A i \in DOMAIN copies : copies[i].foreground = 1 => i \in DOMAIN copies'
    BY <1>2, <1>5, <1>7 DEF Pins, CopyRecords
<1>11. ASSUME NEW x \in Session, tickets[x] # NoTicket, ~tickets[x].restored,
              tickets[x].copy # NoCopy
       PROVE  tickets[x].copy \in DOMAIN copies'
  <2>1. tickets[x].copy \in DOMAIN copies /\ copies[tickets[x].copy].session = x
      BY <1>11 DEF SourcesPinned, Links, TicketMatches
  <2>2. copies[tickets[x].copy].foreground = 1
      BY <1>11, <2>1 DEF SourcesPinned, Reading
  <2> QED
      BY <1>10, <2>1, <2>2
<1>12. \A x \in Session : rec[x].primary # NoCopy =>
          /\ rec[x].primary \in DOMAIN copies'
          /\ ~copies'[rec[x].primary].retired /\ ~copies'[rec[x].primary].shadow
    BY <1>6, <1>7 DEF OneAuthority
<1>13. TierTypeOK'
    BY <1>1, <1>3, <1>4 DEF TierTypeOK, CopyTable
<1>14. SourcesPinned'
  <2>1. \A x \in Session : tickets'[x] # NoTicket /\ ~tickets'[x].restored
          => tickets'[x].copy \in DOMAIN copies' \cup {NoCopy}
      BY <1>0, <1>11
  <2>2. \A i \in DOMAIN copies' :
          /\ copies'[i].demotion = (IF i \in DOMAIN moves' THEN 1 ELSE 0)
          /\ copies'[i].foreground = (IF Reading(i)' THEN 1 ELSE 0)
          /\ copies'[i].export = (IF i \in DOMAIN exports' THEN 1 ELSE 0)
      BY <1>0, <1>6, <1>9 DEF SourcesPinned
  <2> QED
      BY <1>0, <1>8, <2>1, <2>2 DEF SourcesPinned
<1>15. RetiredIsRead'
  <2> SUFFICES ASSUME NEW i \in DOMAIN copies', copies'[i].retired PROVE Pins(copies'[i]) > 0
      BY DEF RetiredIsRead
  <2>1. /\ i \in DOMAIN copies /\ cs[i] \in CopyRecords /\ SamePins(copies'[i], cs[i])
        /\ copies[i].retired
      BY <1>2, <1>4, <1>6 DEF CopyTable
  <2>2. CASE i = c
      BY <1>4, <2>1, <2>2 DEF Pins, SamePins, CopyRecords
  <2>3. CASE i # c
    <3>1. Pins(copies[i]) > 0 /\ copies[i].export = cs[i].export
        BY <1>2, <2>1, <2>3 DEF RetiredIsRead, SourcesPinned
    <3> QED
        BY <1>2, <2>1, <3>1 DEF Pins, SamePins
  <2> QED
      BY <2>2, <2>3
<1>16. OneAuthority'
  <2>1. ASSUME NEW x \in Session
        PROVE  /\ rec'[x].primary # NoCopy =>
                    /\ rec'[x].primary \in DOMAIN copies'
                    /\ copies'[rec'[x].primary].session = x
                    /\ copies'[rec'[x].primary].version = rec'[x].version
                    /\ ~copies'[rec'[x].primary].retired /\ ~copies'[rec'[x].primary].shadow
               /\ \A tier \in Tiers : rec'[x].state = ReadyIn[tier] =>
                    rec'[x].primary # NoCopy /\ copies'[rec'[x].primary].tier = tier
               /\ rec'[x].state \in {"lost", "ended"} => rec'[x].primary = NoCopy
               /\ rec'[x].state \in Demoting => rec'[x].primary \in DOMAIN moves'
               /\ rec'[x].state \in Busy <=> tickets'[x] # NoTicket
      BY <1>0, <1>6, <1>12 DEF OneAuthority, SameData
  <2>2. ASSUME NEW i \in DOMAIN copies'
        PROVE  /\ ~copies'[i].retired /\ ~copies'[i].shadow
                    => rec'[copies'[i].session].primary = i
               /\ copies'[i].shadow => rec'[copies'[i].session].state \in Busy
      BY <1>0, <1>6 DEF OneAuthority, SameData
  <2> QED
      BY <2>1, <2>2 DEF OneAuthority
<1>17. HitsAreCurrent'
  <2> SUFFICES ASSUME NEW i \in DOMAIN copies', Reading(i)'
               PROVE  /\ copies'[i].version = rec'[copies'[i].session].version
                      /\ copies'[i].tokens >= tickets'[copies'[i].session].hit
      BY DEF HitsAreCurrent
  <2> QED
      BY <1>0, <1>6, <1>9 DEF HitsAreCurrent, SameData
<1>18. Links'
  <2>1. ASSUME NEW x \in Session, rec[x].state \in {"d_ready", "cpu_ready"}
        PROVE  Pins(copies'[rec[x].primary]) = 0
    <3>1. \E tier \in Tiers : rec[x].state = ReadyIn[tier]
        BY <2>1 DEF Tiers, ReadyIn
    <3>2. rec[x].primary # NoCopy /\ rec[x].primary \in DOMAIN copies'
        BY <1>12, <3>1 DEF OneAuthority
    <3>3. /\ Pins(copies[rec[x].primary]) = 0 /\ rec[x].primary \in DOMAIN copies
          /\ copies[rec[x].primary] \in CopyRecords
        BY <1>5, <1>6, <2>1, <3>2 DEF Links
    <3>4. rec[x].primary \notin DOMAIN exports
        BY <3>3 DEF Pins, CopyRecords, SourcesPinned
    <3> QED
        BY <1>3, <1>6, <3>2, <3>3, <3>4 DEF Pins, SourcesPinned
  <2>2. ASSUME NEW x \in Session, tickets[x] # NoTicket
        PROVE  TicketMatches(x)'
    <3>1. TicketMatches(x)
        BY <2>2 DEF Links
    <3>2. tickets[x].base # NoCopy => tickets[x].base \in DOMAIN copies'
        BY <1>12, <3>1 DEF TicketMatches
    <3> QED
        BY <1>1, <1>6, <1>11, <2>2, <3>1, <3>2 DEF TicketMatches, SameData
  <2>3. /\ \A i \in DOMAIN moves' : moves'[i].session = copies'[i].session
        /\ \A i \in DOMAIN exports' : exports'[i].session = copies'[i].session
    <3>1. ASSUME NEW i \in DOMAIN moves' PROVE moves'[i].session = copies'[i].session
        BY <1>0, <1>6, <1>8, <3>1 DEF Links, SameData
    <3>2. ASSUME NEW i \in DOMAIN exports' PROVE exports'[i].session = copies'[i].session
        BY <1>3, <1>6, <1>8, <3>2 DEF Links, SameData
    <3> QED
        BY <3>1, <3>2
  <2> QED
      BY <1>1, <2>1, <2>2, <2>3 DEF Links
<1> QED
    BY <1>13, <1>14, <1>15, <1>16, <1>17, <1>18

LEMMA StatusKeeps ==
    ASSUME TierInv, NEW c \in DOMAIN exports, NEW st \in {"running", "ready", "abort_pending"},
           exports' = [exports EXCEPT ![c].status = st],
           UNCHANGED <<rec, copies, moves, tickets>>
    PROVE  TierInv'
<1> USE DEF TierInv
<1>0. rec' = rec /\ copies' = copies /\ moves' = moves /\ tickets' = tickets
    OBVIOUS
<1>1. /\ DOMAIN exports' = DOMAIN exports
      /\ \A i \in DOMAIN exports' : exports'[i].session = exports[i].session
      /\ \A i \in DOMAIN exports :
           exports'[i] \in [session : Session, status : {"running", "ready", "abort_pending"},
                            version : Nat, generation : Nat, tokens : Nat, bytes : Nat]
    BY DEF TierTypeOK
<1>2. \A i \in DOMAIN copies : Reading(i)' <=> Reading(i)
    BY <1>0 DEF Reading
<1>3. TierTypeOK' /\ SourcesPinned' /\ RetiredIsRead'
    BY <1>0, <1>1, <1>2 DEF TierTypeOK, SourcesPinned, RetiredIsRead
<1>4. OneAuthority' /\ HitsAreCurrent'
    BY <1>0, <1>2 DEF OneAuthority, HitsAreCurrent
<1>5. Links'
    BY <1>0, <1>1 DEF Links, TicketMatches
<1> QED
    BY <1>3, <1>4, <1>5

LEMMA StageKeeps ==
    ASSUME TierInv, NEW c \in CopyId, Stage(c)
    PROVE  TierInv'
<1>1. CASE CompleteExport(c)
    BY <1>1, StatusKeeps, ReleaseExportKeeps DEF CompleteExport
<1>2. CASE AbortExport(c)
    BY <1>2, StatusKeeps, ReleaseExportKeeps DEF AbortExport
<1>3. CASE FinishExport(c)
    BY <1>3, FinishExportKeeps
<1> QED
    BY <1>1, <1>2, <1>3 DEF Stage

\* An idle session's authoritative copy.
LEMMA IdleCopy ==
    ASSUME TierInv, NEW s \in Session, NEW tier \in Tiers, rec[s].state = ReadyIn[tier]
    PROVE  LET c == rec[s].primary
           IN  /\ c \in DOMAIN copies /\ c \in CopyId /\ c # NoCopy
               /\ copies[c] \in CopyRecords
               /\ copies[c].session = s /\ copies[c].tier = tier
               /\ copies[c].version = rec[s].version
               /\ ~copies[c].retired /\ ~copies[c].shadow
BY DEF TierInv, OneAuthority, TierTypeOK

LEMMA BeginExportKeeps ==
    ASSUME TierInv, NEW s \in Session, BeginExport(s)
    PROVE  TierInv'
<1> USE DEF TierInv
<1> DEFINE c == rec[s].primary
           q == [copies[c] EXCEPT !.export = @ + 1]
           e == [session |-> s, status |-> "running", version |-> rec[s].version,
                 generation |-> rec[s].generation, tokens |-> copies[c].tokens,
                 bytes |-> copies[c].bytes]
<1>1. /\ rec[s].state = "ssd_ready" /\ copies[c].export = 0
      /\ copies' = [copies EXCEPT ![c].export = @ + 1]
      /\ exports' = [i \in DOMAIN exports \cup {c} |-> IF i = c THEN e ELSE exports[i]]
      /\ UNCHANGED <<rec, moves, tickets>>
    BY DEF BeginExport
<1>2. rec[s].state = ReadyIn["ssd"] /\ "ssd" \in Tiers
    BY <1>1 DEF ReadyIn, Tiers
<1>3. /\ c \in DOMAIN copies /\ c \in CopyId /\ copies[c] \in CopyRecords
      /\ copies[c].session = s /\ copies[c].tier = "ssd"
    BY <1>2, IdleCopy
<1>4. /\ q \in CopyRecords /\ SameData(q, copies[c]) /\ q.export = 1
      /\ q.retired = copies[c].retired /\ q.shadow = copies[c].shadow
      /\ q.demotion = copies[c].demotion /\ q.foreground = copies[c].foreground
    BY <1>1, <1>3 DEF CopyRecords, SameData
<1>5. /\ DOMAIN copies' = DOMAIN copies /\ copies'[c] = q
      /\ \A i \in DOMAIN copies \ {c} : copies'[i] = copies[i]
    BY <1>1, <1>3
<1>6. e \in [session : Session, status : {"running", "ready", "abort_pending"},
             version : Nat, generation : Nat, tokens : Nat, bytes : Nat] /\ e.session = s
    BY <1>3, Typed DEF SessionRecords, CopyRecords
<1> HIDE DEF q, e
<1>7. /\ DOMAIN exports' = DOMAIN exports \cup {c} /\ exports'[c] = e
      /\ \A i \in DOMAIN exports \ {c} : exports'[i] = exports[i]
    BY <1>1
<1>8. rec' = rec /\ moves' = moves /\ tickets' = tickets
    BY <1>1
<1> HIDE DEF c
<1>9. \A i \in DOMAIN copies :
        /\ copies'[i] \in CopyRecords /\ SameData(copies'[i], copies[i])
        /\ copies'[i].retired = copies[i].retired /\ copies'[i].shadow = copies[i].shadow
        /\ copies'[i].demotion = copies[i].demotion
        /\ copies'[i].foreground = copies[i].foreground
        /\ copies'[i].export = IF i \in DOMAIN exports' THEN 1 ELSE 0
        /\ copies'[i].export >= copies[i].export
    BY <1>1, <1>3, <1>4, <1>5, <1>7, Typed, SameCopies DEF CopyTable
<1>10. TierTypeOK'
    BY <1>3, <1>5, <1>6, <1>7, <1>8, <1>9 DEF TierTypeOK
<1>11. \A i \in DOMAIN copies : Reading(i)' <=> Reading(i)
    BY <1>8, <1>9 DEF Reading, SameData
<1>12. SourcesPinned'
    BY <1>3, <1>5, <1>7, <1>8, <1>9, <1>11 DEF SourcesPinned
<1>13. RetiredIsRead'
    BY <1>5, <1>9, Typed DEF RetiredIsRead, Pins, CopyTable, CopyRecords
<1>14. OneAuthority'
    BY <1>5, <1>8, <1>9 DEF OneAuthority, SameData
<1>15. HitsAreCurrent'
    BY <1>5, <1>8, <1>9, <1>11 DEF HitsAreCurrent, SameData
<1>16. Links'
  <2>1. ASSUME NEW x \in Session, rec[x].state \in {"d_ready", "cpu_ready"}
        PROVE  Pins(copies'[rec[x].primary]) = 0
    <3>1. PICK tier \in Tiers \ {"ssd"} : rec[x].state = ReadyIn[tier]
        BY <2>1 DEF Tiers, ReadyIn
    <3>2. rec[x].primary \in DOMAIN copies /\ rec[x].primary # c
        BY <1>3, <3>1, IdleCopy
    <3> QED
        BY <1>5, <2>1, <3>2 DEF Links
  <2>2. ASSUME NEW x \in Session, tickets[x] # NoTicket
        PROVE  TicketMatches(x)'
    <3>1. TicketMatches(x)
        BY <2>2 DEF Links
    <3>2. tickets[x].base # NoCopy => tickets[x].base \in DOMAIN copies
        BY <3>1 DEF TicketMatches, OneAuthority
    <3>3. ~tickets[x].restored /\ tickets[x].copy # NoCopy => tickets[x].copy \in DOMAIN copies
        BY <2>2 DEF SourcesPinned
    <3> QED
        BY <1>8, <1>9, <3>1, <3>2, <3>3 DEF TicketMatches, SameData
  <2>3. ASSUME NEW i \in DOMAIN moves' PROVE moves'[i].session = copies'[i].session
      BY <1>8, <1>9, <2>3 DEF Links, SameData, SourcesPinned
  <2>4. ASSUME NEW i \in DOMAIN exports' PROVE exports'[i].session = copies'[i].session
      BY <1>3, <1>6, <1>7, <1>9, <2>4 DEF Links, SameData, SourcesPinned
  <2> QED
      BY <1>8, <2>1, <2>2, <2>3, <2>4 DEF Links
<1> QED
    BY <1>10, <1>12, <1>13, <1>14, <1>15, <1>16

-----------------------------------------------------------------------------
(* Demotions and evictions.                                                *)

Unread(tier, spared, vs) ==
  /\ vs \subseteq Session \ spared
  /\ \A v \in vs : /\ rec[v].state = ReadyIn[tier] /\ rec[v].state \notin Busy
                   /\ rec[v].primary \in DOMAIN copies
                   /\ Pins(copies[rec[v].primary]) = 0
                   /\ tickets[v] = NoTicket
  /\ \A i \in Ousted(vs) :
       /\ i \in DOMAIN copies /\ copies[i].session \in vs
       /\ i = rec[copies[i].session].primary
       /\ Pins(copies[i]) = 0
       /\ i \notin DOMAIN moves /\ i \notin DOMAIN exports
       /\ copies[i].foreground = 0

\* The copies sessions vs lose to an eviction are theirs and nobody reads them.
LEMMA OustedFacts ==
    ASSUME TierInv, NEW tier \in Tiers, NEW spared, NEW vs,
           vs \subseteq Eligible(tier, spared)
    PROVE  Unread(tier, spared, vs)
<1>1. \A v \in vs : /\ v \in Session \ spared /\ rec[v].state = ReadyIn[tier]
                    /\ Pins(copies[rec[v].primary]) = 0
    BY DEF Eligible
<1>2. ReadyIn[tier] \notin Busy
    BY DEF ReadyIn, Busy, Tiers
<1>3. \A v \in vs : /\ rec[v].primary \in DOMAIN copies
                    /\ copies[rec[v].primary].session = v
                    /\ copies[rec[v].primary] \in CopyRecords
    BY <1>1, IdleCopy
<1>4. \A v \in vs : tickets[v] = NoTicket
    BY <1>1, <1>2, IdleHasNoTicket
<1>5. ASSUME NEW i \in Ousted(vs)
      PROVE  /\ i \in DOMAIN copies /\ copies[i].session \in vs
             /\ i = rec[copies[i].session].primary
             /\ Pins(copies[i]) = 0
             /\ i \notin DOMAIN moves /\ i \notin DOMAIN exports
             /\ copies[i].foreground = 0
  <2>1. PICK v \in vs : i = rec[v].primary
      BY DEF Ousted
  <2>2. /\ i \in DOMAIN copies /\ copies[i].session = v /\ copies[i] \in CopyRecords
        /\ Pins(copies[i]) = 0
      BY <1>1, <1>3, <2>1
  <2>3. copies[i].demotion = 0 /\ copies[i].export = 0 /\ copies[i].foreground = 0
      BY <2>2 DEF Pins, CopyRecords
  <2> QED
      BY <2>1, <2>2, <2>3 DEF TierInv, SourcesPinned
<1> QED
    BY <1>1, <1>2, <1>3, <1>4, <1>5 DEF Unread

LEMMA WithoutFacts ==
    ASSUME TierTypeOK, NEW vs \in SUBSET Session
    PROVE  LET w == WithoutSessions(vs)
           IN  /\ w \in [Session -> SessionRecords]
               /\ \A x \in Session \ vs : w[x] = rec[x]
               /\ \A x \in vs : w[x].state = "lost" /\ w[x].primary = NoCopy
                                /\ w[x].version = rec[x].version
<1>1. ASSUME NEW x \in Session
      PROVE  /\ Lost(rec[x]) \in SessionRecords
             /\ Lost(rec[x]).state = "lost" /\ Lost(rec[x]).primary = NoCopy
             /\ Lost(rec[x]).version = rec[x].version
    BY GoneFacts, Typed DEF Lost
<1> QED
    BY <1>1, Typed DEF WithoutSessions

LEMMA StartMoveKeeps ==
    ASSUME TierInv, NEW s \in Session, NEW dest \in Tiers, NEW bounce \in Nat,
           NEW state \in Demoting, NEW spared, s \in spared,
           NEW vs, vs \subseteq Eligible("ssd", spared),
           rec[s].state \in {"d_ready", "cpu_ready"},
           Aggregate(s) \in Nat,
           StartMove(s, dest, bounce, state, vs)
    PROVE  TierInv'
<1> USE DEF TierInv
<1> DEFINE c == rec[s].primary
           kept == [i \in DOMAIN copies \ Ousted(vs) |-> copies[i]]
           q == [copies[c] EXCEPT !.demotion = @ + 1]
           m == [session |-> s, dest |-> dest, bytes |-> Aggregate(s), bounce |-> bounce,
                 version |-> rec[s].version, generation |-> rec[s].generation]
           r == Now(rec[s], state, c, rec[s].tokens)
           w == WithoutSessions(vs)
<1>1. /\ copies' = [kept EXCEPT ![c].demotion = @ + 1]
      /\ rec' = [w EXCEPT ![s] = r]
      /\ moves' = [i \in DOMAIN moves \cup {c} |-> IF i = c THEN m ELSE moves[i]]
      /\ UNCHANGED <<tickets, exports>>
    BY DEF StartMove
<1>2. PICK tier \in {"d", "cpu"} : rec[s].state = ReadyIn[tier]
    BY DEF ReadyIn, Tiers
<1>3. /\ c \in DOMAIN copies /\ c \in CopyId /\ copies[c] \in CopyRecords
      /\ copies[c].session = s /\ copies[c].version = rec[s].version
      /\ ~copies[c].retired /\ ~copies[c].shadow
    BY <1>2, IdleCopy DEF Tiers
<1>4. Pins(copies[c]) = 0 /\ copies[c].demotion = 0 /\ copies[c].foreground = 0
      /\ copies[c].export = 0
    BY <1>3 DEF Links, Pins, CopyRecords
<1>5. c \notin DOMAIN moves /\ c \notin DOMAIN exports
    BY <1>3, <1>4 DEF SourcesPinned
<1>6. /\ vs \subseteq Session \ spared
      /\ \A v \in vs : /\ rec[v].state \notin Busy /\ tickets[v] = NoTicket
                       /\ rec[v].primary \in DOMAIN copies
      /\ \A i \in Ousted(vs) :
           /\ i \in DOMAIN copies /\ copies[i].session \in vs
           /\ i = rec[copies[i].session].primary
           /\ i \notin DOMAIN moves /\ i \notin DOMAIN exports
           /\ copies[i].foreground = 0
  <2>1. "ssd" \in Tiers
      BY DEF Tiers
  <2>2. Unread("ssd", spared, vs)
      BY <2>1, OustedFacts
  <2> QED
      BY <2>2 DEF Unread
<1>7. s \notin vs /\ c \notin Ousted(vs) /\ c \in DOMAIN kept
    BY <1>3, <1>6
<1>8. /\ q \in CopyRecords /\ SameData(q, copies[c]) /\ q.demotion = 1
      /\ q.retired = copies[c].retired /\ q.shadow = copies[c].shadow
      /\ q.export = copies[c].export /\ q.foreground = copies[c].foreground
    BY <1>3, <1>4 DEF CopyRecords, SameData
<1>9. /\ DOMAIN copies' = DOMAIN copies \ Ousted(vs) /\ copies'[c] = q
      /\ \A i \in DOMAIN copies' \ {c} : copies'[i] = copies[i]
    BY <1>1, <1>7
<1>10. /\ rec[s].state \in States /\ state \in States
       /\ r \in SessionRecords /\ r.state = state /\ r.primary = c /\ r.version = rec[s].version
       /\ r.generation = rec[s].generation
  <2>1. rec[s] \in SessionRecords /\ state \in States
      BY Typed DEF States
  <2>2. rec[s].tokens \in Nat /\ rec[s].state \in States /\ c \in CopyId \cup {NoCopy}
      BY <1>3, <2>1 DEF SessionRecords
  <2> DEFINE n == rec[s].tokens
             old == rec[s]
  <2>3. old \in SessionRecords /\ n \in Nat
      BY <2>1, <2>2
  <2> HIDE DEF TierInv, c, n, old, kept, q, m, w
  <2> DEFINE x == Now(old, state, c, n)
  <2>4. /\ x \in SessionRecords
        /\ x.state = state /\ x.primary = c /\ x.version = old.version
        /\ x.generation = old.generation
    <3> HIDE DEF r
    <3>1. \A y \in SessionRecords, st \in States, p \in CopyId \cup {NoCopy}, k \in Nat :
            /\ Now(y, st, p, k) \in SessionRecords
            /\ Now(y, st, p, k).state = st /\ Now(y, st, p, k).primary = p
            /\ Now(y, st, p, k).version = y.version
            /\ Now(y, st, p, k).generation = y.generation
        BY NowFacts
    <3>2. old \in SessionRecords /\ state \in States /\ c \in CopyId \cup {NoCopy} /\ n \in Nat
        BY <2>1, <2>2, <2>3
    <3> QED
        BY ONLY <3>1, <3>2, SMTT(60)
  <2>5. x = r
      BY DEF n, old, c
  <2> HIDE DEF x, r
  <2>6. old = rec[s]
      BY DEF old
  <2> QED
      BY <2>1, <2>2, <2>4, <2>5, <2>6
<1>11. /\ w \in [Session -> SessionRecords]
       /\ \A x \in Session \ vs : w[x] = rec[x]
       /\ \A x \in vs : w[x].state = "lost" /\ w[x].primary = NoCopy
                        /\ w[x].version = rec[x].version
    BY <1>6, WithoutFacts
<1>12. m \in [session : Session, dest : Tiers, bytes : Nat, bounce : Nat,
              version : Nat, generation : Nat] /\ m.session = s
    BY Typed DEF SessionRecords
<1>13. DOMAIN moves' = DOMAIN moves \cup {c} /\ moves'[c] = m
       /\ \A i \in DOMAIN moves : moves'[i] = moves[i]
    BY <1>1, <1>5
<1> HIDE DEF m, q, kept, r, w
<1>14. /\ rec' \in [Session -> SessionRecords] /\ rec'[s] = r
       /\ \A x \in Session \ (vs \cup {s}) : rec'[x] = rec[x]
       /\ \A x \in vs : rec'[x].state = "lost" /\ rec'[x].primary = NoCopy
                        /\ rec'[x].version = rec[x].version
    BY <1>1, <1>7, <1>10, <1>11
<1>15. tickets' = tickets /\ exports' = exports
    BY <1>1
<1> HIDE DEF c
<1>16. \A i \in DOMAIN copies' :
         /\ i \in DOMAIN copies
         /\ copies'[i] \in CopyRecords /\ SameData(copies'[i], copies[i])
         /\ copies'[i].retired = copies[i].retired /\ copies'[i].shadow = copies[i].shadow
         /\ copies'[i].demotion = IF i \in DOMAIN moves' THEN 1 ELSE 0
         /\ copies'[i].foreground = copies[i].foreground
         /\ copies'[i].export = copies[i].export
         /\ copies'[i].demotion >= copies[i].demotion
  <2>1. ASSUME NEW i \in DOMAIN copies' \ {c}
        PROVE  /\ copies'[i] = copies[i] /\ i \in DOMAIN copies /\ copies[i] \in CopyRecords
               /\ copies[i].demotion = IF i \in DOMAIN moves' THEN 1 ELSE 0
      BY <1>9, <1>13, Typed DEF SourcesPinned, CopyTable
  <2>2. \A n \in {0, 1} : n >= n
      OBVIOUS
  <2> QED
      BY <1>3, <1>4, <1>8, <1>9, <1>13, <2>1, <2>2 DEF SameData, CopyRecords
<1>17. TierTypeOK'
    BY <1>3, <1>9, <1>12, <1>13, <1>14, <1>15, <1>16 DEF TierTypeOK
<1>18. \A i \in DOMAIN copies' : Reading(i)' <=> Reading(i)
    BY <1>15, <1>16 DEF Reading, SameData
<1>19. SourcesPinned'
  <2>1. DOMAIN moves' \cup DOMAIN exports' \subseteq DOMAIN copies'
      BY <1>3, <1>6, <1>7, <1>9, <1>13, <1>15 DEF SourcesPinned
  <2>2. ASSUME NEW x \in Session, tickets[x] # NoTicket, ~tickets[x].restored,
               tickets[x].copy # NoCopy
        PROVE  tickets[x].copy \in DOMAIN copies'
    <3>1. tickets[x].copy \in DOMAIN copies /\ copies[tickets[x].copy].session = x
        BY <2>2 DEF SourcesPinned, Links, TicketMatches
    <3> QED
        BY <1>6, <1>9, <2>2, <3>1
  <2> QED
      BY <1>15, <1>16, <1>18, <2>1, <2>2 DEF SourcesPinned
<1>20. RetiredIsRead'
    BY <1>16, Typed DEF RetiredIsRead, Pins, CopyTable, CopyRecords
<1>21. OneAuthority'
  <2>1. ASSUME NEW x \in Session
        PROVE  /\ rec'[x].primary # NoCopy =>
                    /\ rec'[x].primary \in DOMAIN copies'
                    /\ copies'[rec'[x].primary].session = x
                    /\ copies'[rec'[x].primary].version = rec'[x].version
                    /\ ~copies'[rec'[x].primary].retired /\ ~copies'[rec'[x].primary].shadow
               /\ \A t \in Tiers : rec'[x].state = ReadyIn[t] =>
                    rec'[x].primary # NoCopy /\ copies'[rec'[x].primary].tier = t
               /\ rec'[x].state \in {"lost", "ended"} => rec'[x].primary = NoCopy
               /\ rec'[x].state \in Demoting => rec'[x].primary \in DOMAIN moves'
               /\ rec'[x].state \in Busy <=> tickets'[x] # NoTicket
    <3>1. CASE x = s
      <4>1. rec'[x].primary = c /\ rec'[x].state = state /\ rec'[x].version = rec[s].version
          BY <1>10, <1>14, <3>1
      <4>2. state \notin Busy /\ state \notin {"lost", "ended"} /\ \A t \in Tiers : state # ReadyIn[t]
          BY DEF Demoting, Busy, Tiers, ReadyIn
      <4>3. tickets'[x] = NoTicket
          BY <1>2, <1>15, <3>1, IdleHasNoTicket DEF Busy
      <4> QED
          BY <1>3, <1>7, <1>9, <1>13, <1>16, <3>1, <4>1, <4>2, <4>3 DEF SameData
    <3>2. CASE x \in vs
        BY <1>6, <1>14, <1>15, <3>2 DEF Demoting, Busy, Tiers, ReadyIn
    <3>3. CASE x \in Session \ (vs \cup {s})
      <4>1. rec'[x] = rec[x] /\ tickets'[x] = tickets[x]
          BY <1>14, <1>15, <3>3
      <4>2. rec[x].primary # NoCopy => rec[x].primary \in DOMAIN copies'
        <5> HAVE rec[x].primary # NoCopy
        <5>1. rec[x].primary \in DOMAIN copies /\ copies[rec[x].primary].session = x
            BY DEF OneAuthority
        <5> QED
            BY <1>6, <1>9, <3>3, <5>1
      <4>3. /\ rec[x].primary # NoCopy =>
                 /\ copies[rec[x].primary].session = x
                 /\ copies[rec[x].primary].version = rec[x].version
                 /\ ~copies[rec[x].primary].retired /\ ~copies[rec[x].primary].shadow
            /\ \A t \in Tiers : rec[x].state = ReadyIn[t] =>
                 rec[x].primary # NoCopy /\ copies[rec[x].primary].tier = t
            /\ rec[x].state \in {"lost", "ended"} => rec[x].primary = NoCopy
            /\ rec[x].state \in Demoting => rec[x].primary \in DOMAIN moves
            /\ rec[x].state \in Busy <=> tickets[x] # NoTicket
          BY DEF OneAuthority
      <4> QED
          BY <1>13, <1>16, <4>1, <4>2, <4>3 DEF SameData
    <3> QED
        BY <3>1, <3>2, <3>3
  <2>2. ASSUME NEW i \in DOMAIN copies'
        PROVE  /\ ~copies'[i].retired /\ ~copies'[i].shadow
                    => rec'[copies'[i].session].primary = i
               /\ copies'[i].shadow => rec'[copies'[i].session].state \in Busy
    <3> DEFINE x == copies[i].session
    <3>1. /\ x \in Session /\ copies'[i].session = x /\ i \in DOMAIN copies /\ i \notin Ousted(vs)
          /\ copies'[i].retired = copies[i].retired /\ copies'[i].shadow = copies[i].shadow
        BY <1>9, <1>16, Typed DEF SameData
    <3>2. /\ ~copies[i].retired /\ ~copies[i].shadow => rec[x].primary = i
          /\ copies[i].shadow => rec[x].state \in Busy
        BY <3>1 DEF OneAuthority
    <3>3. CASE x = s
      <4>1. rec[s].state \notin Busy /\ rec[s].primary = c
          BY <1>2 DEF Busy, ReadyIn, c
      <4> QED
          BY <1>10, <1>14, <3>1, <3>2, <3>3, <4>1
    <3>4. CASE x \in vs
        BY <1>6, <3>1, <3>2, <3>4 DEF Ousted
    <3>5. CASE x \in Session \ (vs \cup {s})
        BY <1>14, <3>1, <3>2, <3>5
    <3> QED
        BY <3>1, <3>3, <3>4, <3>5
  <2> QED
      BY <2>1, <2>2 DEF OneAuthority
<1>22. \A x \in Session : tickets[x] # NoTicket => x \notin vs \cup {s} /\ rec'[x] = rec[x]
    BY <1>2, <1>6, <1>14, IdleHasNoTicket DEF Busy
<1>23. HitsAreCurrent'
  <2> SUFFICES ASSUME NEW i \in DOMAIN copies', Reading(i)'
               PROVE  /\ copies'[i].version = rec'[copies'[i].session].version
                      /\ copies'[i].tokens >= tickets'[copies'[i].session].hit
      BY DEF HitsAreCurrent
  <2>1. /\ i \in DOMAIN copies /\ Reading(i) /\ copies[i].session \in Session
        /\ copies'[i].session = copies[i].session
        /\ copies'[i].version = copies[i].version /\ copies'[i].tokens = copies[i].tokens
      BY <1>16, <1>18, Typed DEF SameData
  <2>2. rec'[copies[i].session] = rec[copies[i].session]
      BY <1>22, <2>1 DEF Reading
  <2> QED
      BY <1>15, <2>1, <2>2 DEF HitsAreCurrent
<1>24. Links'
  <2>1. ASSUME NEW x \in Session, rec'[x].state \in {"d_ready", "cpu_ready"}
        PROVE  Pins(copies'[rec'[x].primary]) = 0
    <3>1. x \notin vs /\ x # s /\ rec'[x] = rec[x]
        BY <1>10, <1>14, <2>1 DEF Demoting
    <3>2. \E t \in Tiers : rec[x].state = ReadyIn[t]
        BY <2>1, <3>1 DEF Tiers, ReadyIn
    <3>3. rec[x].primary \in DOMAIN copies /\ copies[rec[x].primary].session = x
        BY <3>2, IdleCopy
    <3>4. rec[x].primary # c /\ rec[x].primary \in DOMAIN copies'
        BY <1>3, <1>6, <1>9, <3>1, <3>3
    <3> QED
        BY <1>9, <2>1, <3>1, <3>4 DEF Links
  <2>2. ASSUME NEW x \in Session, tickets[x] # NoTicket
        PROVE  TicketMatches(x)'
    <3>1. TicketMatches(x) /\ rec'[x] = rec[x] /\ x \notin vs
        BY <1>22, <2>2 DEF Links
    <3>2. ASSUME tickets[x].base # NoCopy PROVE tickets[x].base \in DOMAIN copies'
      <4>1. tickets[x].base \in DOMAIN copies /\ copies[tickets[x].base].session = x
          BY <3>1, <3>2 DEF TicketMatches, OneAuthority
      <4> QED
          BY <1>6, <1>9, <3>1, <4>1
    <3>3. ~tickets[x].restored /\ tickets[x].copy # NoCopy => tickets[x].copy \in DOMAIN copies'
        BY <1>15, <1>19, <2>2 DEF SourcesPinned
    <3> QED
        BY <1>15, <1>16, <3>1, <3>2, <3>3 DEF TicketMatches, SameData
  <2>3. ASSUME NEW i \in DOMAIN moves' PROVE moves'[i].session = copies'[i].session
      BY <1>3, <1>12, <1>13, <1>16, <1>19, <2>3 DEF Links, SameData, SourcesPinned
  <2>4. ASSUME NEW i \in DOMAIN exports' PROVE exports'[i].session = copies'[i].session
      BY <1>15, <1>16, <1>19, <2>4 DEF Links, SameData, SourcesPinned
  <2>5. ASSUME NEW x \in Session, rec'[x].state \in Demoting
        PROVE  /\ moves'[rec'[x].primary].version = rec'[x].version
               /\ moves'[rec'[x].primary].generation = rec'[x].generation
    <3>1. CASE x = s
      <4>1. /\ moves'[rec'[x].primary] = m /\ rec'[x] = r
            /\ r.version = rec[s].version /\ r.generation = rec[s].generation
          BY <1>10, <1>13, <1>14, <3>1
      <4> QED
          BY <4>1 DEF m
    <3>2. CASE x # s
      <4>1. x \notin vs /\ rec'[x] = rec[x] /\ rec[x].state \in Demoting
          BY <1>14, <2>5, <3>2 DEF Demoting
      <4>2. rec[x].primary \in DOMAIN moves
          BY <4>1 DEF OneAuthority
      <4> QED
          BY <1>13, <4>1, <4>2 DEF Links
    <3> QED
        BY <3>1, <3>2
  <2> QED
      BY <1>15, <2>1, <2>2, <2>3, <2>4, <2>5 DEF Links
<1> QED
    BY <1>17, <1>19, <1>20, <1>21, <1>23, <1>24

LEMMA VictimsEligible ==
    ASSUME NEW tier, NEW spared, NEW need
    PROVE  Victims(tier, spared, need) \subseteq Eligible(tier, spared)
BY DEF Victims

LEMMA AggregateNat ==
    ASSUME TierInv, NEW s \in Session, rec[s].state \in {"d_ready", "cpu_ready"}
    PROVE  Aggregate(s) \in Nat
<1>1. PICK tier \in Tiers : rec[s].state = ReadyIn[tier]
    BY DEF ReadyIn, Tiers
<1>2. copies[rec[s].primary].bytes \in Nat
    BY <1>1, IdleCopy DEF CopyRecords
<1>3. \A x, y \in Nat : x * y \in Nat
    OBVIOUS
<1> QED
    BY <1>2, <1>3, SizesAssumption DEF Aggregate

LEMMA SpillKeeps ==
    ASSUME TierInv, NEW v \in Session, NEW spared, Spill(v, spared)
    PROVE  TierInv'
<1> DEFINE among == {v} \cup spared
           vs == Victims("ssd", among, Aggregate(v))
<1>1. rec[v].state = "cpu_ready" /\ StartMove(v, "ssd", 0, "cpu_demoting_ssd", vs)
    BY DEF Spill
<1>2. vs \subseteq Eligible("ssd", among) /\ v \in among
    BY VictimsEligible
<1>3. "ssd" \in Tiers /\ 0 \in Nat /\ "cpu_demoting_ssd" \in Demoting
    BY DEF Tiers, Demoting
<1>4. Aggregate(v) \in Nat
    BY <1>1, AggregateNat
<1> HIDE DEF among, vs
<1> QED
    BY <1>1, <1>2, <1>3, <1>4, StartMoveKeeps

LEMMA DemoteToCpuKeeps ==
    ASSUME TierInv, NEW s \in Session, DemoteToCpu(s)
    PROVE  TierInv'
<1> DEFINE among == {s}
           vs == {}
<1>1. rec[s].state = "d_ready" /\ StartMove(s, "cpu", 0, "d_demoting_cpu", vs)
    BY DEF DemoteToCpu
<1>2. vs \subseteq Eligible("ssd", among) /\ s \in among
    OBVIOUS
<1>3. "cpu" \in Tiers /\ 0 \in Nat /\ "d_demoting_cpu" \in Demoting
    BY DEF Tiers, Demoting
<1>4. Aggregate(s) \in Nat
    BY <1>1, AggregateNat
<1> HIDE DEF among, vs
<1> QED
    BY <1>1, <1>2, <1>3, <1>4, StartMoveKeeps

LEMMA DemoteToSsdKeeps ==
    ASSUME TierInv, NEW s \in Session, DemoteToSsd(s)
    PROVE  TierInv'
<1> DEFINE among == {s}
           vs == Victims("ssd", among, Aggregate(s))
           bounce == Aggregate(s)
<1>1. rec[s].state = "d_ready" /\ StartMove(s, "ssd", bounce, "d_demoting_ssd", vs)
    BY DEF DemoteToSsd
<1>2. vs \subseteq Eligible("ssd", among) /\ s \in among
    BY VictimsEligible
<1>3. "ssd" \in Tiers /\ "d_demoting_ssd" \in Demoting
    BY DEF Tiers, Demoting
<1>4. Aggregate(s) \in Nat /\ bounce \in Nat
    BY <1>1, AggregateNat
<1> HIDE DEF among, vs, bounce
<1> QED
    BY <1>1, <1>2, <1>3, <1>4, StartMoveKeeps

-----------------------------------------------------------------------------
(* Calls and completed demotions change one session and its copies, but    *)
(* for the idle sessions vs they evict.                                    *)

\* What the invariant says of one session, its ticket and its copies.
OwnCopy(s, i) ==
  /\ i \in CopyId /\ copies[i] \in CopyRecords
  /\ copies[i].demotion = (IF i \in DOMAIN moves THEN 1 ELSE 0)
  /\ copies[i].foreground = (IF Reading(i) THEN 1 ELSE 0)
  /\ copies[i].export = (IF i \in DOMAIN exports THEN 1 ELSE 0)
  /\ copies[i].retired => Pins(copies[i]) > 0
  /\ ~copies[i].retired /\ ~copies[i].shadow => rec[s].primary = i
  /\ copies[i].shadow => rec[s].state \in Busy
  /\ Reading(i) => copies[i].version = rec[s].version /\ copies[i].tokens >= tickets[s].hit

OwnSession(s) ==
  /\ rec[s].primary # NoCopy =>
       /\ rec[s].primary \in CopiesOf(s)
       /\ copies[rec[s].primary].version = rec[s].version
       /\ ~copies[rec[s].primary].retired /\ ~copies[rec[s].primary].shadow
  /\ \A tier \in Tiers : rec[s].state = ReadyIn[tier] =>
       rec[s].primary # NoCopy /\ copies[rec[s].primary].tier = tier
  /\ rec[s].state \in {"d_ready", "cpu_ready"} => Pins(copies[rec[s].primary]) = 0
  /\ rec[s].state \in {"lost", "ended"} => rec[s].primary = NoCopy
  /\ rec[s].state \in Demoting =>
       /\ rec[s].primary \in DOMAIN moves
       /\ moves[rec[s].primary].version = rec[s].version
       /\ moves[rec[s].primary].generation = rec[s].generation
  /\ rec[s].state \in Busy <=> tickets[s] # NoTicket

OwnTicket(s) ==
  tickets[s] # NoTicket =>
    /\ TicketMatches(s)
    /\ ~tickets[s].restored => tickets[s].copy \in CopiesOf(s) \cup {NoCopy}

Own(s) == (\A i \in CopiesOf(s) : OwnCopy(s, i)) /\ OwnSession(s) /\ OwnTicket(s)

LEMMA OwnOfInv ==
    ASSUME TierInv, NEW s \in Session
    PROVE  Own(s)
<1> USE DEF TierInv
<1>1. ASSUME NEW i \in CopiesOf(s)
      PROVE  OwnCopy(s, i)
  <2>1. i \in DOMAIN copies /\ copies[i].session = s
      BY DEF CopiesOf
  <2> QED
      BY <2>1 DEF OwnCopy, TierTypeOK, SourcesPinned, RetiredIsRead, OneAuthority, HitsAreCurrent
<1>2. OwnSession(s)
    BY DEF OwnSession, OneAuthority, Links, CopiesOf
<1>3. OwnTicket(s)
    BY DEF OwnTicket, Links, TicketMatches, SourcesPinned, CopiesOf
<1> QED
    BY <1>1, <1>2, <1>3 DEF Own

LEMMA FrameKeeps ==
    ASSUME TierInv, NEW s \in Session, NEW tier \in Tiers, NEW spared, s \in spared,
           NEW vs, vs \subseteq Eligible(tier, spared),
           rec' \in [Session -> SessionRecords],
           \A x \in Session \ (vs \cup {s}) : rec'[x] = rec[x],
           \A x \in vs : rec'[x].state = "lost" /\ rec'[x].primary = NoCopy
                         /\ rec'[x].version = rec[x].version,
           tickets' \in [Session -> TicketRecords \cup {NoTicket}],
           \A x \in Session \ {s} : tickets'[x] = tickets[x],
           DOMAIN moves' \subseteq DOMAIN moves,
           \A i \in DOMAIN moves' : moves'[i] = moves[i],
           \A i \in DOMAIN moves : copies[i].session # s => i \in DOMAIN moves',
           exports' = exports,
           \A i \in DOMAIN copies' :
             copies'[i].session # s
               => i \in DOMAIN copies \ Ousted(vs) /\ copies'[i] = copies[i],
           \A i \in DOMAIN copies \ Ousted(vs) :
             copies[i].session # s => i \in DOMAIN copies' /\ copies'[i] = copies[i],
           \A i \in DOMAIN moves' \cup DOMAIN exports :
             copies[i].session = s => i \in DOMAIN copies' /\ copies'[i].session = s,
           Own(s)'
    PROVE  TierInv'
<1> USE DEF TierInv
<1>1. /\ vs \subseteq Session \ spared
      /\ \A v \in vs : rec[v].state \notin Busy /\ tickets[v] = NoTicket
      /\ \A i \in Ousted(vs) :
           /\ i \in DOMAIN copies /\ copies[i].session \in vs
           /\ i = rec[copies[i].session].primary
           /\ i \notin DOMAIN moves /\ i \notin DOMAIN exports
           /\ copies[i].foreground = 0
  <2>1. Unread(tier, spared, vs)
      BY OustedFacts
  <2> QED
      BY <2>1 DEF Unread
<1>2. \A i \in Ousted(vs) : copies[i].session # s
    BY <1>1
<1>3. ASSUME NEW i \in DOMAIN copies', copies'[i].session # s
      PROVE  /\ i \in DOMAIN copies /\ i \notin Ousted(vs)
             /\ copies'[i] = copies[i] /\ copies[i].session \in Session \ {s}
             /\ i \in CopyId /\ copies[i] \in CopyRecords
             /\ i \in DOMAIN moves' <=> i \in DOMAIN moves
    BY <1>3, Typed DEF CopyTable
<1>4. ASSUME NEW i \in DOMAIN copies', copies'[i].session # s
      PROVE  Reading(i)' <=> Reading(i)
    BY <1>3, <1>4 DEF Reading
<1>5. ASSUME NEW i \in DOMAIN copies', copies'[i].session = s
      PROVE  OwnCopy(s, i)'
    BY <1>5 DEF Own, CopiesOf
<1>6. OwnSession(s)' /\ OwnTicket(s)'
    BY DEF Own
<1>7. TierTypeOK'
  <2>1. ASSUME NEW i \in DOMAIN copies' PROVE i \in CopyId /\ copies'[i] \in CopyRecords
      BY <1>3, <1>5 DEF OwnCopy
  <2> QED
      BY <2>1 DEF TierTypeOK
<1>8. ASSUME NEW i \in DOMAIN moves' \cup DOMAIN exports'
      PROVE  i \in DOMAIN copies' /\ copies'[i].session = copies[i].session
  <2>1. i \in DOMAIN copies /\ i \notin Ousted(vs)
      BY <1>1 DEF SourcesPinned
  <2> QED
      BY <2>1
<1>9. SourcesPinned'
  <2>1. ASSUME NEW x \in Session, tickets'[x] # NoTicket, ~tickets'[x].restored
        PROVE  tickets'[x].copy \in DOMAIN copies' \cup {NoCopy}
    <3>1. CASE x = s
        BY <1>6, <2>1, <3>1 DEF OwnTicket, CopiesOf
    <3>2. CASE x # s /\ tickets[x].copy # NoCopy
      <4>1. tickets'[x] = tickets[x]
          BY <3>2
      <4>2. tickets[x].copy \in DOMAIN copies /\ copies[tickets[x].copy].session = x
          BY <2>1, <3>2, <4>1 DEF SourcesPinned, Links, TicketMatches
      <4>3. x \notin vs
          BY <1>1, <2>1, <4>1
      <4> QED
          BY <1>1, <3>2, <4>1, <4>2, <4>3
    <3> QED
        BY <3>1, <3>2
  <2>2. ASSUME NEW i \in DOMAIN copies'
        PROVE  /\ copies'[i].demotion = (IF i \in DOMAIN moves' THEN 1 ELSE 0)
               /\ copies'[i].foreground = (IF Reading(i)' THEN 1 ELSE 0)
               /\ copies'[i].export = (IF i \in DOMAIN exports' THEN 1 ELSE 0)
    <3>1. CASE copies'[i].session = s
        BY <1>5, <3>1 DEF OwnCopy
    <3>2. CASE copies'[i].session # s
        BY <1>3, <1>4, <3>2 DEF SourcesPinned
    <3> QED
        BY <3>1, <3>2
  <2> QED
      BY <1>8, <2>1, <2>2 DEF SourcesPinned
<1>10. RetiredIsRead'
    BY <1>3, <1>5 DEF RetiredIsRead, OwnCopy
<1>11. OneAuthority'
  <2>1. ASSUME NEW x \in Session \ {s}
        PROVE  /\ rec'[x].primary # NoCopy =>
                    /\ rec'[x].primary \in DOMAIN copies'
                    /\ copies'[rec'[x].primary].session = x
                    /\ copies'[rec'[x].primary].version = rec'[x].version
                    /\ ~copies'[rec'[x].primary].retired /\ ~copies'[rec'[x].primary].shadow
               /\ \A t \in Tiers : rec'[x].state = ReadyIn[t] =>
                    rec'[x].primary # NoCopy /\ copies'[rec'[x].primary].tier = t
               /\ rec'[x].state \in {"lost", "ended"} => rec'[x].primary = NoCopy
               /\ rec'[x].state \in Demoting => rec'[x].primary \in DOMAIN moves'
               /\ rec'[x].state \in Busy <=> tickets'[x] # NoTicket
    <3>1. CASE x \in vs
        BY <1>1, <3>1 DEF Demoting, Busy, Tiers, ReadyIn
    <3>2. CASE x \notin vs
      <4>1. rec'[x] = rec[x] /\ tickets'[x] = tickets[x]
          BY <3>2
      <4>2. /\ rec[x].primary # NoCopy =>
                 /\ rec[x].primary \in DOMAIN copies
                 /\ copies[rec[x].primary].session = x
                 /\ copies[rec[x].primary].version = rec[x].version
                 /\ ~copies[rec[x].primary].retired /\ ~copies[rec[x].primary].shadow
            /\ \A t \in Tiers : rec[x].state = ReadyIn[t] =>
                 rec[x].primary # NoCopy /\ copies[rec[x].primary].tier = t
            /\ rec[x].state \in {"lost", "ended"} => rec[x].primary = NoCopy
            /\ rec[x].state \in Demoting => rec[x].primary \in DOMAIN moves
            /\ rec[x].state \in Busy <=> tickets[x] # NoTicket
          BY DEF OneAuthority
      <4>3. rec[x].primary # NoCopy =>
              rec[x].primary \in DOMAIN copies' /\ copies'[rec[x].primary] = copies[rec[x].primary]
          BY <1>1, <3>2, <4>2
      <4>4. rec[x].state \in Demoting => rec[x].primary # NoCopy
          BY <4>2, NamesAssumption DEF SourcesPinned, TierTypeOK
      <4> QED
          BY <4>1, <4>2, <4>3, <4>4
    <3> QED
        BY <3>1, <3>2
  <2>2. ASSUME NEW i \in DOMAIN copies'
        PROVE  /\ ~copies'[i].retired /\ ~copies'[i].shadow
                    => rec'[copies'[i].session].primary = i
               /\ copies'[i].shadow => rec'[copies'[i].session].state \in Busy
    <3>1. CASE copies'[i].session = s
        BY <1>5, <3>1 DEF OwnCopy
    <3>2. CASE copies'[i].session # s
      <4> DEFINE x == copies[i].session
      <4>1. /\ ~copies[i].retired /\ ~copies[i].shadow => rec[x].primary = i
            /\ copies[i].shadow => rec[x].state \in Busy
          BY <1>3, <3>2 DEF OneAuthority
      <4>2. x \in vs => copies[i].retired
        <5> HAVE x \in vs
        <5>1. i # rec[x].primary
            BY <1>3, <3>2 DEF Ousted
        <5> QED
            BY <1>1, <1>3, <3>2, <4>1, <5>1
      <4>3. x \in vs => ~copies[i].shadow
          BY <1>1, <4>1
      <4> QED
          BY <1>3, <3>2, <4>1, <4>2, <4>3
    <3> QED
        BY <3>1, <3>2
  <2> QED
      BY <1>6, <2>1, <2>2 DEF OneAuthority, OwnSession, CopiesOf
<1>12. HitsAreCurrent'
  <2> SUFFICES ASSUME NEW i \in DOMAIN copies', Reading(i)'
               PROVE  /\ copies'[i].version = rec'[copies'[i].session].version
                      /\ copies'[i].tokens >= tickets'[copies'[i].session].hit
      BY DEF HitsAreCurrent
  <2>1. CASE copies'[i].session = s
      BY <1>5, <2>1 DEF OwnCopy
  <2>2. CASE copies'[i].session # s
    <3>1. /\ copies[i].version = rec[copies[i].session].version
          /\ copies[i].tokens >= tickets[copies[i].session].hit
          /\ copies[i].session \notin vs
        BY <1>1, <1>3, <1>4, <2>2 DEF HitsAreCurrent, Reading
    <3> QED
        BY <1>3, <2>2, <3>1
  <2> QED
      BY <2>1, <2>2
<1>13. Links'
  <2>1. ASSUME NEW x \in Session, rec'[x].state \in {"d_ready", "cpu_ready"}
        PROVE  Pins(copies'[rec'[x].primary]) = 0
    <3>1. CASE x = s
        BY <1>6, <2>1, <3>1 DEF OwnSession
    <3>2. CASE x # s
      <4>1. x \notin vs /\ rec'[x] = rec[x]
          BY <2>1, <3>2
      <4>2. \E t \in Tiers : rec[x].state = ReadyIn[t]
          BY <2>1, <4>1 DEF Tiers, ReadyIn
      <4>3. rec[x].primary \in DOMAIN copies /\ copies[rec[x].primary].session = x
          BY <4>2, IdleCopy
      <4>4. copies'[rec[x].primary] = copies[rec[x].primary]
          BY <1>1, <3>2, <4>1, <4>3
      <4> QED
          BY <2>1, <4>1, <4>4 DEF Links
    <3> QED
        BY <3>1, <3>2
  <2>2. ASSUME NEW x \in Session, tickets'[x] # NoTicket
        PROVE  TicketMatches(x)'
    <3>1. CASE x = s
        BY <1>6, <2>2, <3>1 DEF OwnTicket
    <3>2. CASE x # s
      <4>1. /\ x \notin vs /\ tickets'[x] = tickets[x] /\ rec'[x] = rec[x]
            /\ TicketMatches(x)
          BY <1>1, <2>2, <3>2 DEF Links
      <4>2. ASSUME NEW i \in DOMAIN copies, copies[i].session = x
            PROVE  copies'[i] = copies[i]
          BY <1>1, <3>2, <4>1, <4>2
      <4>3. tickets[x].base # NoCopy =>
              tickets[x].base \in DOMAIN copies /\ copies[tickets[x].base].session = x
          BY <4>1 DEF TicketMatches, OneAuthority
      <4>4. ~tickets[x].restored /\ tickets[x].copy # NoCopy =>
              tickets[x].copy \in DOMAIN copies /\ copies[tickets[x].copy].session = x
          BY <2>2, <4>1 DEF TicketMatches, SourcesPinned
      <4> QED
          BY <4>1, <4>2, <4>3, <4>4 DEF TicketMatches
    <3> QED
        BY <3>1, <3>2
  <2>3. \A i \in DOMAIN moves' : moves'[i].session = copies'[i].session
      BY <1>8 DEF Links
  <2>4. \A i \in DOMAIN exports' : exports'[i].session = copies'[i].session
      BY <1>8 DEF Links
  <2>5. ASSUME NEW x \in Session, rec'[x].state \in Demoting
        PROVE  /\ moves'[rec'[x].primary].version = rec'[x].version
               /\ moves'[rec'[x].primary].generation = rec'[x].generation
    <3>1. CASE x = s
        BY <1>6, <2>5, <3>1 DEF OwnSession
    <3>2. CASE x # s
      <4>1. x \notin vs /\ rec'[x] = rec[x]
          BY <2>5, <3>2 DEF Demoting
      <4>2. rec[x].primary \in DOMAIN moves /\ rec[x].primary # NoCopy
          BY <2>5, <4>1, NamesAssumption DEF OneAuthority, SourcesPinned, TierTypeOK
      <4>3. copies[rec[x].primary].session # s
          BY <3>2, <4>2 DEF OneAuthority
      <4> QED
          BY <2>5, <4>1, <4>2, <4>3 DEF Links
    <3> QED
        BY <3>1, <3>2
  <2> QED
      BY <2>1, <2>2, <2>3, <2>4, <2>5 DEF Links
<1> QED
    BY <1>7, <1>9, <1>10, <1>11, <1>12, <1>13

\* The same without evictions.
LEMMA OwnStepKeeps ==
    ASSUME TierInv, NEW s \in Session,
           rec' \in [Session -> SessionRecords],
           \A x \in Session \ {s} : rec'[x] = rec[x],
           tickets' \in [Session -> TicketRecords \cup {NoTicket}],
           \A x \in Session \ {s} : tickets'[x] = tickets[x],
           DOMAIN moves' \subseteq DOMAIN moves,
           \A i \in DOMAIN moves' : moves'[i] = moves[i],
           \A i \in DOMAIN moves : copies[i].session # s => i \in DOMAIN moves',
           exports' = exports,
           \A i \in DOMAIN copies' :
             copies'[i].session # s => i \in DOMAIN copies /\ copies'[i] = copies[i],
           \A i \in DOMAIN copies :
             copies[i].session # s => i \in DOMAIN copies' /\ copies'[i] = copies[i],
           \A i \in DOMAIN moves' \cup DOMAIN exports :
             copies[i].session = s => i \in DOMAIN copies' /\ copies'[i].session = s,
           Own(s)'
    PROVE  TierInv'
<1> DEFINE vs == {}
           spared == {s}
           tier == "ssd"
<1>1. tier \in Tiers /\ s \in spared /\ vs \subseteq Eligible(tier, spared)
    BY DEF Tiers
<1>2. /\ vs = {} /\ Ousted(vs) = {}
    BY DEF Ousted
<1>3. /\ \A x \in Session \ (vs \cup {s}) : rec'[x] = rec[x]
      /\ \A x \in vs : rec'[x].state = "lost" /\ rec'[x].primary = NoCopy
                       /\ rec'[x].version = rec[x].version
      /\ \A i \in DOMAIN copies' :
           copies'[i].session # s
             => i \in DOMAIN copies \ Ousted(vs) /\ copies'[i] = copies[i]
      /\ \A i \in DOMAIN copies \ Ousted(vs) :
           copies[i].session # s => i \in DOMAIN copies' /\ copies'[i] = copies[i]
    BY <1>2
<1> HIDE DEF vs, spared, tier
<1> QED
    BY <1>1, <1>3, FrameKeeps

\* Retire, copy by copy: what it keeps unchanged and what it marks.
LEMMA RetireTable ==
    ASSUME NEW cs, NEW gone, CopyTable(cs)
    PROVE  /\ CopyTable(Retire(cs, gone))
           /\ DOMAIN Retire(cs, gone) = {i \in DOMAIN cs : i \in gone => Pins(cs[i]) # 0}
           /\ \A i \in DOMAIN Retire(cs, gone) :
                /\ i \notin gone => Retire(cs, gone)[i] = cs[i]
                /\ SameData(Retire(cs, gone)[i], cs[i])
                /\ SamePins(Retire(cs, gone)[i], cs[i])
                /\ Retire(cs, gone)[i].retired <=> (cs[i].retired \/ i \in gone)
                /\ Retire(cs, gone)[i].shadow <=> (cs[i].shadow /\ i \notin gone)
<1> DEFINE r == Retire(cs, gone)
<1>1. /\ CopyTable(r)
      /\ DOMAIN r = {i \in DOMAIN cs : i \in gone => Pins(cs[i]) # 0}
      /\ \A i \in DOMAIN r :
           /\ SameData(r[i], cs[i]) /\ SamePins(r[i], cs[i])
           /\ r[i].retired <=> (cs[i].retired \/ i \in gone)
           /\ r[i].shadow <=> (cs[i].shadow /\ i \notin gone)
    BY RetireFacts
<1>2. \A i \in DOMAIN r : i \notin gone => r[i] = cs[i]
    BY DEF Retire, Dying
<1> QED
    BY <1>1, <1>2

\* The demotion of copy c ends, and c loses its pin.
LEMMA MoveUnpinned ==
    ASSUME TierInv, NEW c \in DOMAIN moves
    PROVE  LET cs == [copies EXCEPT ![c].demotion = @ - 1]
           IN  /\ CopyTable(cs) /\ DOMAIN cs = DOMAIN copies
               /\ \A i \in DOMAIN cs \ {c} : cs[i] = copies[i]
               /\ SameData(cs[c], copies[c]) /\ cs[c].demotion = 0
               /\ cs[c].foreground = copies[c].foreground /\ cs[c].export = copies[c].export
               /\ cs[c].retired = copies[c].retired /\ cs[c].shadow = copies[c].shadow
<1> DEFINE q == [copies[c] EXCEPT !.demotion = @ - 1]
           cs == [copies EXCEPT ![c].demotion = @ - 1]
<1>1. c \in DOMAIN copies /\ copies[c] \in CopyRecords /\ copies[c].demotion = 1
    BY DEF TierInv, TierTypeOK, SourcesPinned
<1>2. /\ q \in CopyRecords /\ SameData(q, copies[c]) /\ q.demotion = 0
      /\ q.retired = copies[c].retired /\ q.shadow = copies[c].shadow
      /\ q.export = copies[c].export /\ q.foreground = copies[c].foreground
    BY <1>1 DEF CopyRecords, SameData
<1>3. DOMAIN cs = DOMAIN copies /\ cs[c] = q /\ \A i \in DOMAIN copies \ {c} : cs[i] = copies[i]
    BY <1>1
<1> HIDE DEF q, cs
<1>4. CopyTable(cs)
    BY <1>2, <1>3, Typed DEF CopyTable, TierInv
<1> QED
    BY <1>2, <1>3, <1>4 DEF cs

LEMMA CompleteMoveKeeps ==
    ASSUME TierInv, NEW c \in CopyId, NEW id \in FreshCopies, CompleteMove(c, id)
    PROVE  TierInv'
<1>0. PICK s \in Session : s = moves[c].session
    BY DEF CompleteMove, TierInv, TierTypeOK
<1> DEFINE src == copies[c]
           dest == moves[c].dest
           new == NewCopy(s, dest, src.version, src.generation, src.tokens)
           cs == [copies EXCEPT ![c].demotion = @ - 1]
           gone == IF Spent(c) THEN {c} ELSE {}
           left == Retire(cs, gone)
           r == Now(rec[s], ReadyIn[dest], id, src.tokens)
<1>1. /\ c \in DOMAIN moves
      /\ copies' = IF StillWanted(c)
                   THEN [i \in DOMAIN left \cup {id} |-> IF i = id THEN new ELSE left[i]]
                   ELSE left
      /\ rec' = IF StillWanted(c) THEN [rec EXCEPT ![s] = r] ELSE rec
      /\ moves' = [i \in DOMAIN moves \ {c} |-> moves[i]]
      /\ UNCHANGED <<tickets, exports>>
    BY <1>0 DEF CompleteMove
<1>2. /\ c \in DOMAIN copies /\ src \in CopyRecords /\ src.demotion = 1
      /\ src.session = s /\ dest \in Tiers
    BY <1>0, <1>1 DEF TierInv, TierTypeOK, SourcesPinned, Links
<1>3. Own(s) /\ rec[s] \in SessionRecords
    BY <1>2, OwnOfInv, Typed DEF TierInv
<1>4. /\ CopyTable(cs) /\ DOMAIN cs = DOMAIN copies
      /\ \A i \in DOMAIN cs \ {c} : cs[i] = copies[i]
      /\ SameData(cs[c], src) /\ cs[c].demotion = 0
      /\ cs[c].foreground = src.foreground /\ cs[c].export = src.export
      /\ cs[c].retired = src.retired /\ cs[c].shadow = src.shadow
    BY <1>1, MoveUnpinned
<1> HIDE DEF cs
<1>5. /\ CopyTable(left)
      /\ DOMAIN left = {i \in DOMAIN copies : i \in gone => Pins(cs[i]) # 0}
      /\ \A i \in DOMAIN left :
           /\ i # c => left[i] = copies[i]
           /\ SameData(left[i], copies[i])
           /\ left[i].foreground = copies[i].foreground /\ left[i].export = copies[i].export
           /\ left[i].demotion = IF i = c THEN 0 ELSE copies[i].demotion
           /\ Pins(left[i]) = Pins(cs[i])
           /\ left[i].retired <=> (copies[i].retired \/ i \in gone)
           /\ left[i].shadow <=> (copies[i].shadow /\ i \notin gone)
  <2> HIDE DEF gone
  <2>1. /\ CopyTable(left)
        /\ DOMAIN left = {i \in DOMAIN cs : i \in gone => Pins(cs[i]) # 0}
        /\ \A i \in DOMAIN left :
             /\ i \notin gone => left[i] = cs[i]
             /\ SameData(left[i], cs[i]) /\ SamePins(left[i], cs[i])
             /\ left[i].retired <=> (cs[i].retired \/ i \in gone)
             /\ left[i].shadow <=> (cs[i].shadow /\ i \notin gone)
      BY <1>4, RetireTable
  <2>2. gone \subseteq {c}
      BY DEF gone
  <2> HIDE DEF left
  <2> QED
      BY <1>2, <1>4, <2>1, <2>2 DEF SameData, SamePins, Pins
<1>6. id \in CopyId /\ id \notin DOMAIN copies /\ id # c
    BY <1>2 DEF FreshCopies
<1>7. /\ new \in CopyRecords /\ new.session = s /\ new.tier = dest
      /\ new.version = src.version /\ new.tokens = src.tokens
      /\ new.retired = FALSE /\ new.shadow = FALSE
      /\ new.demotion = 0 /\ new.foreground = 0 /\ new.export = 0 /\ Pins(new) = 0
  <2>1. src.version \in Nat /\ src.generation \in Nat /\ src.tokens \in Nat
      BY <1>2 DEF CopyRecords
  <2>2. Fresh(new, s, dest, src.version, src.tokens)
      BY <1>2, <2>1, NewCopyFacts
  <2> HIDE DEF new
  <2> QED
      BY <2>2 DEF Fresh
<1>8. /\ r \in SessionRecords /\ r.state = ReadyIn[dest] /\ r.primary = id
      /\ r.version = rec[s].version
  <2>1. ReadyIn[dest] \in States /\ id \in CopyId \cup {NoCopy} /\ src.tokens \in Nat
      BY <1>2, <1>6 DEF ReadyIn, States, Tiers, CopyRecords
  <2> DEFINE old == rec[s]
             n == src.tokens
             state == ReadyIn[dest]
             x == Now(old, state, id, n)
  <2>2. old \in SessionRecords /\ n \in Nat /\ state \in States
      BY <1>3, <2>1
  <2>3. x = r
      OBVIOUS
  <2> HIDE DEF src, dest, gone, left, new, old, n, state
  <2>4. /\ x \in SessionRecords /\ x.state = state /\ x.primary = id
        /\ x.version = old.version
      BY <2>1, <2>2, NowFacts
  <2> HIDE DEF x, r
  <2> QED
      BY <2>3, <2>4 DEF old, state
<1>9. tickets' = tickets /\ exports' = exports
    BY <1>1
<1>10. /\ DOMAIN moves' = DOMAIN moves \ {c}
       /\ \A i \in DOMAIN moves' : moves'[i] = moves[i]
    BY <1>1
<1> HIDE DEF new, r, left, src, gone
<1>11. /\ \A i \in CopiesOf(s) : OwnCopy(s, i)
       /\ OwnSession(s) /\ OwnTicket(s)
    BY <1>3 DEF Own
<1>12. ASSUME NEW i \in DOMAIN copies, i \in DOMAIN moves' \cup DOMAIN exports
       PROVE  i \in DOMAIN left
  <2>1. CASE i # c
      BY <1>5, <2>1 DEF gone
  <2>2. CASE i = c
    <3>1. copies[c].export = 1 /\ cs[c] \in CopyRecords /\ cs[c].export = 1
        BY <1>4, <1>10, <1>12, <2>2 DEF TierInv, SourcesPinned, CopyTable, src
    <3> QED
        BY <1>5, <2>2, <3>1 DEF Pins, CopyRecords
  <2> QED
      BY <2>1, <2>2
<1>13. CASE StillWanted(c)
  <2>1. /\ rec[s].version = moves[c].version /\ rec[s].primary = c
        /\ rec[s].state \in Demoting
      BY <1>0, <1>13 DEF StillWanted
  <2>2. /\ src.version = rec[s].version /\ ~src.retired /\ ~src.shadow
        /\ tickets[s] = NoTicket
      BY <1>2, <1>11, <2>1, NamesAssumption DEF OwnSession, Demoting, Busy, src
  <2>3. gone = {c}
      BY <1>13 DEF Spent, gone
  <2>4. /\ DOMAIN copies' = DOMAIN left \cup {id} /\ copies'[id] = new
        /\ \A i \in DOMAIN left : copies'[i] = left[i]
      BY <1>1, <1>5, <1>6, <1>13
  <2>5. rec' \in [Session -> SessionRecords] /\ rec'[s] = r
        /\ \A x \in Session \ {s} : rec'[x] = rec[x]
      BY <1>1, <1>2, <1>8, <1>13, RecUpdate, Typed DEF TierInv
  <2>6. ASSUME NEW i \in CopiesOf(s)'
        PROVE  OwnCopy(s, i)'
    <3>1. i \in DOMAIN copies' /\ copies'[i].session = s
        BY DEF CopiesOf
    <3>2. ~Reading(i)'
        BY <1>9, <2>2, <3>1 DEF Reading
    <3>3. CASE i = id
      <4>1. i \notin DOMAIN moves' /\ i \notin DOMAIN exports
          BY <1>6, <1>10, <3>3 DEF TierInv, SourcesPinned
      <4> QED
          BY <1>6, <1>7, <1>8, <1>9, <2>4, <2>5, <3>2, <3>3, <4>1 DEF OwnCopy
    <3>4. CASE i # id
      <4>1. i \in DOMAIN left /\ copies'[i] = left[i] /\ i \in CopiesOf(s)
          BY <1>5, <2>4, <3>1, <3>4 DEF SameData, CopiesOf
      <4>2. OwnCopy(s, i) /\ ~Reading(i)
          BY <1>11, <2>2, <4>1 DEF CopiesOf, Reading
      <4>3. /\ i \in CopyId /\ left[i] \in CopyRecords
            /\ i \in DOMAIN moves' <=> i \in DOMAIN moves /\ i # c
          BY <1>5, <1>10, <4>1 DEF CopyTable
      <4>4. left[i].retired
          BY <1>5, <2>1, <2>2, <2>3, <4>1, <4>2 DEF OwnCopy, Busy, Demoting
      <4>5. Pins(left[i]) > 0
        <5>1. CASE i = c
            BY <1>5, <2>3, <4>1, <4>3, <5>1 DEF Pins, CopyRecords
        <5>2. CASE i # c
            BY <1>5, <2>3, <4>1, <4>2, <4>4, <5>2 DEF OwnCopy
        <5> QED
            BY <5>1, <5>2
      <4>6. ~left[i].shadow
          BY <1>5, <2>1, <2>2, <2>3, <4>1, <4>2 DEF OwnCopy, Busy, Demoting
      <4> QED
          BY <1>5, <1>9, <3>2, <4>1, <4>2, <4>3, <4>4, <4>5, <4>6 DEF OwnCopy
    <3> QED
        BY <3>3, <3>4
  <2>7. OwnSession(s)'
    <3>1. id \in CopiesOf(s)' /\ id # NoCopy
        BY <1>6, <1>7, <2>4, NamesAssumption DEF CopiesOf
    <3>2. ReadyIn[dest] \notin Demoting \cup Busy \cup {"lost", "ended"}
          /\ \A t \in Tiers : ReadyIn[t] = ReadyIn[dest] => t = dest
        BY <1>2 DEF ReadyIn, Tiers, Demoting, Busy
    <3> QED
        BY <1>7, <1>8, <1>9, <2>2, <2>4, <2>5, <3>1, <3>2 DEF OwnSession
  <2>8. OwnTicket(s)'
      BY <1>9, <2>2 DEF OwnTicket
  <2>9. Own(s)'
      BY <2>6, <2>7, <2>8 DEF Own
  <2>10. ASSUME NEW i \in DOMAIN copies', copies'[i].session # s
         PROVE  i \in DOMAIN copies /\ copies'[i] = copies[i]
      BY <1>2, <1>5, <1>7, <2>4, <2>10 DEF SameData, src
  <2>11. ASSUME NEW i \in DOMAIN copies, copies[i].session # s
         PROVE  i \in DOMAIN copies' /\ copies'[i] = copies[i]
      BY <1>2, <1>5, <2>3, <2>4, <2>11 DEF src
  <2>12. ASSUME NEW i \in DOMAIN moves' \cup DOMAIN exports
         PROVE  i \in DOMAIN copies' /\ copies'[i].session = copies[i].session
    <3>1. i \in DOMAIN copies
        BY <1>10 DEF TierInv, SourcesPinned
    <3>2. i \in DOMAIN left
        BY <1>12, <3>1
    <3> QED
        BY <1>5, <2>4, <3>2 DEF SameData
  <2>13. /\ rec' \in [Session -> SessionRecords]
         /\ \A x \in Session \ {s} : rec'[x] = rec[x]
         /\ tickets' \in [Session -> TicketRecords \cup {NoTicket}]
      BY <1>9, <2>5, Typed DEF TierInv, TierTypeOK
  <2>14. \A i \in DOMAIN moves : copies[i].session # s => i \in DOMAIN moves'
      BY <1>2, <1>10 DEF src
  <2> QED
      BY <1>9, <1>10, <2>9, <2>10, <2>11, <2>12, <2>13, <2>14, OwnStepKeeps
<1>14. CASE ~StillWanted(c)
  <2>1. copies' = left /\ rec' = rec
      BY <1>1, <1>14
  <2>2. c \in gone <=> src.retired
      BY <1>14 DEF Spent, gone, src
  <2>3. gone \subseteq {c}
      BY DEF gone
  <2>4. \A i \in DOMAIN left : Reading(i)' <=> Reading(i)
      BY <1>5, <1>9, <2>1 DEF Reading, SameData
  <2>5. ASSUME NEW i \in CopiesOf(s)'
        PROVE  OwnCopy(s, i)'
    <3>1. i \in DOMAIN left /\ copies'[i] = left[i] /\ i \in CopiesOf(s)
        BY <1>5, <2>1 DEF SameData, CopiesOf
    <3>2. OwnCopy(s, i) /\ i \in CopyId /\ left[i] \in CopyRecords
        BY <1>5, <1>11, <3>1 DEF CopyTable
    <3>3. /\ left[i].demotion = (IF i \in DOMAIN moves' THEN 1 ELSE 0)
          /\ left[i].foreground = (IF Reading(i)' THEN 1 ELSE 0)
          /\ left[i].export = (IF i \in DOMAIN exports' THEN 1 ELSE 0)
        BY <1>5, <1>9, <1>10, <2>4, <3>1, <3>2 DEF OwnCopy
    <3>4. left[i].retired <=> copies[i].retired
        BY <1>5, <2>2, <2>3, <3>1 DEF src
    <3>5. left[i].retired => Pins(left[i]) > 0
      <4> HAVE left[i].retired
      <4>1. CASE i = c
          BY <1>5, <2>2, <3>1, <3>2, <3>4, <4>1 DEF Pins, CopyRecords, src
      <4>2. CASE i # c
          BY <1>5, <3>1, <3>2, <3>4, <4>2 DEF OwnCopy
      <4> QED
          BY <4>1, <4>2
    <3>6. left[i].shadow => copies[i].shadow
        BY <1>5, <3>1
    <3>7. ~left[i].retired /\ ~left[i].shadow => ~copies[i].retired /\ ~copies[i].shadow
        BY <1>5, <2>2, <2>3, <3>1, <3>4 DEF src
    <3>8. left[i].version = copies[i].version /\ left[i].tokens = copies[i].tokens
        BY <1>5, <3>1 DEF SameData
    <3> QED
        BY <1>9, <2>1, <2>4, <3>1, <3>2, <3>3, <3>4, <3>5, <3>6, <3>7, <3>8 DEF OwnCopy
  <2>6. ASSUME rec[s].primary # NoCopy
        PROVE  /\ rec[s].primary \in CopiesOf(s) /\ rec[s].primary \in CopiesOf(s)'
               /\ SameData(left[rec[s].primary], copies[rec[s].primary])
               /\ ~left[rec[s].primary].retired /\ ~left[rec[s].primary].shadow
    <3>1. /\ rec[s].primary \in CopiesOf(s) /\ ~copies[rec[s].primary].retired
          /\ ~copies[rec[s].primary].shadow
        BY <1>11, <2>6 DEF OwnSession
    <3>2. rec[s].primary \in DOMAIN left /\ rec[s].primary \notin gone
        BY <1>5, <2>2, <2>3, <3>1 DEF src, CopiesOf
    <3> QED
        BY <1>5, <2>1, <3>1, <3>2 DEF SameData, CopiesOf
  <2>7. OwnSession(s)'
    <3>1. rec[s].state \in Demoting => rec[s].primary # c
      <4> HAVE rec[s].state \in Demoting
      <4> QED
          BY <1>0, <1>11, <1>14 DEF StillWanted, OwnSession
    <3>2. rec[s].state \in {"d_ready", "cpu_ready"} => Pins(left[rec[s].primary]) = 0
      <4> HAVE rec[s].state \in {"d_ready", "cpu_ready"}
      <4>1. Pins(copies[rec[s].primary]) = 0 /\ rec[s].primary # NoCopy
          BY <1>11 DEF OwnSession, Tiers, ReadyIn
      <4>2. rec[s].primary \in CopiesOf(s) /\ copies[rec[s].primary] \in CopyRecords
          BY <1>11, <4>1 DEF OwnSession, OwnCopy
      <4>3. copies[rec[s].primary].demotion = 0
          BY <4>1, <4>2 DEF Pins, CopyRecords
      <4>4. rec[s].primary # c
          BY <1>2, <4>3 DEF src
      <4> QED
          BY <1>5, <2>6, <4>1, <4>2, <4>4 DEF CopiesOf, gone
    <3>3. \A tier \in Tiers : rec[s].state = ReadyIn[tier] =>
            rec[s].primary # NoCopy /\ left[rec[s].primary].tier = tier
        BY <1>11, <2>6 DEF OwnSession, SameData
    <3>4. rec[s].primary # NoCopy => left[rec[s].primary].version = rec[s].version
        BY <1>11, <2>6 DEF OwnSession, SameData
    <3> QED
        BY <1>9, <1>10, <1>11, <2>1, <2>6, <3>1, <3>2, <3>3, <3>4 DEF OwnSession
  <2>8. OwnTicket(s)'
    <3> SUFFICES ASSUME tickets[s] # NoTicket
                 PROVE  /\ TicketMatches(s)'
                        /\ ~tickets[s].restored => tickets[s].copy \in CopiesOf(s)' \cup {NoCopy}
        BY <1>9 DEF OwnTicket
    <3>1. TicketMatches(s) /\ (~tickets[s].restored => tickets[s].copy \in CopiesOf(s) \cup {NoCopy})
        BY <1>11 DEF OwnTicket
    <3>2. ASSUME ~tickets[s].restored, tickets[s].copy # NoCopy
          PROVE  tickets[s].copy \in CopiesOf(s)'
      <4> DEFINE i == tickets[s].copy
      <4>1. i \in CopiesOf(s) /\ Reading(i)
          BY <3>1, <3>2 DEF CopiesOf, Reading
      <4>2. i \in DOMAIN copies /\ i \in CopyId /\ copies[i].foreground = 1
          BY <1>11, <4>1 DEF OwnCopy, CopiesOf
      <4>3. cs[i] \in CopyRecords /\ cs[i].foreground = 1
          BY <1>4, <4>2 DEF CopyTable, src
      <4>4. i \in DOMAIN left
          BY <1>5, <4>2, <4>3 DEF Pins, CopyRecords
      <4> QED
          BY <1>5, <2>1, <4>1, <4>4 DEF CopiesOf, SameData
    <3>3. ASSUME tickets[s].base # NoCopy
          PROVE  copies'[tickets[s].base].tier = "d"
        BY <2>1, <2>6, <3>1, <3>3 DEF TicketMatches, SameData
    <3>4. ASSUME ~tickets[s].restored, tickets[s].copy # NoCopy
          PROVE  copies'[tickets[s].copy].session = s
        BY <3>2, <3>4 DEF CopiesOf
    <3> QED
        BY <1>9, <2>1, <3>1, <3>2, <3>3, <3>4 DEF TicketMatches
  <2>9. Own(s)'
      BY <2>5, <2>7, <2>8 DEF Own
  <2>10. ASSUME NEW i \in DOMAIN copies', copies'[i].session # s
         PROVE  i \in DOMAIN copies /\ copies'[i] = copies[i]
      BY <1>2, <1>5, <2>1, <2>10 DEF SameData, src
  <2>11. ASSUME NEW i \in DOMAIN copies, copies[i].session # s
         PROVE  i \in DOMAIN copies' /\ copies'[i] = copies[i]
      BY <1>2, <1>5, <2>1, <2>3, <2>11 DEF src
  <2>12. ASSUME NEW i \in DOMAIN moves' \cup DOMAIN exports
         PROVE  i \in DOMAIN copies' /\ copies'[i].session = copies[i].session
    <3>1. i \in DOMAIN left
        BY <1>10, <1>12 DEF TierInv, SourcesPinned
    <3> QED
        BY <1>5, <2>1, <3>1 DEF SameData
  <2>13. /\ rec' \in [Session -> SessionRecords]
         /\ \A x \in Session \ {s} : rec'[x] = rec[x]
         /\ tickets' \in [Session -> TicketRecords \cup {NoTicket}]
      BY <1>9, <2>1, Typed DEF TierInv, TierTypeOK
  <2>14. \A i \in DOMAIN moves : copies[i].session # s => i \in DOMAIN moves'
      BY <1>2, <1>10 DEF src
  <2> QED
      BY <1>9, <1>10, <2>9, <2>10, <2>11, <2>12, <2>13, <2>14, OwnStepKeeps
<1> QED
    BY <1>13, <1>14

-----------------------------------------------------------------------------
(* Calls.                                                                  *)

\* What Plan promises: the copy it reads holds the hit, at least one token
\* is computed, and the D copy it builds on is the session's own.
Sound(pl, id) ==
  /\ pl \in TicketRecords /\ ~pl.restored
  /\ pl.hit < pl.final
  /\ pl.tier = "none" <=> pl.copy = NoCopy
  /\ pl.copy # NoCopy =>
       /\ pl.copy = id /\ id \in DOMAIN copies
       /\ pl.tier = copies[id].tier /\ copies[id].tokens >= pl.hit
  /\ pl.base # NoCopy =>
       pl.base = id /\ id \in DOMAIN copies /\ copies[id].tier = "d"

LEMMA PlanFacts ==
    ASSUME TierInv, NEW s \in Session, NEW c \in Calls
    PROVE  Sound(Plan(s, c), rec[s].primary)
<1> DEFINE id == rec[s].primary
           source == IF id = NoCopy THEN 0 ELSE copies[id].tokens
           hit == Hit(c, source)
           tier == IF hit = 0 THEN "none" ELSE copies[id].tier
           final == c.input + c.output - 1
           needsD == c.output > 1 \/ c.successor
           base == Reusable(copies, id)
           target == IF needsD THEN BytesOn("d", final) ELSE 0
           admit == IF setup.reserve = "final_context_upfront" \/ ~needsD THEN target
                    ELSE BytesOn("d", c.input)
           d == IF ~needsD THEN 0
                ELSE IF base THEN Max({0, admit - copies[id].bytes}) ELSE admit
           bounce == IF tier = "ssd" THEN BytesOn("cpu", hit) ELSE 0
           copy == IF hit = 0 THEN NoCopy ELSE id
           from == IF base THEN id ELSE NoCopy
           p == BytesOn("p", c.input)
<1>1. /\ c \in CallRecords /\ c.input \in Nat \ {0} /\ c.output \in Nat \ {0}
      /\ c.successor \in BOOLEAN
    BY CallsAssumption DEF CallRecords
<1>2. id # NoCopy =>
        id \in DOMAIN copies /\ id \in CopyId /\ copies[id] \in CopyRecords
    BY DEF TierInv, TierTypeOK, OneAuthority
<1>3. source \in Nat
    BY <1>2 DEF CopyRecords
<1>4. hit \in Nat /\ hit <= source /\ hit < c.input
    BY <1>1, <1>3, HitBounds
<1>5. final \in Nat /\ hit < final
  <2> HIDE DEF hit
  <2> QED
      BY <1>1, <1>4
<1>6. hit # 0 => id # NoCopy /\ hit <= copies[id].tokens
    BY <1>3, <1>4
<1>7. tier \in Tiers \cup {"none"} /\ copy \in CopyId \cup {NoCopy}
    BY <1>2, <1>6 DEF CopyRecords
<1>8. base => id \in DOMAIN copies /\ copies[id].tier = "d"
    BY DEF Reusable
<1>9. from \in CopyId \cup {NoCopy}
    BY <1>8 DEF TierInv, TierTypeOK
<1>10. target \in Nat /\ p \in Nat
    BY <1>1, <1>5, BytesOnNat
<1> HIDE DEF hit, source, final
<1>11. admit \in Nat /\ bounce \in Nat
    BY <1>1, <1>4, <1>10, BytesOnNat
<1>12. d \in Nat
  <2>1. CASE needsD /\ base
    <3>1. admit - copies[id].bytes \in Int
        BY <1>8, <1>11, <2>1 DEF TierInv, TierTypeOK, CopyRecords
    <3> QED
        BY <2>1, <3>1, MaxOfTwo
  <2>2. CASE ~(needsD /\ base)
      BY <1>11, <2>2
  <2> QED
      BY <2>1, <2>2
<1>13. Plan(s, c) =
         [tier |-> tier, copy |-> copy, hit |-> hit, final |-> final, output |-> c.output,
          successor |-> c.successor, needsD |-> needsD, p |-> p, target |-> target,
          base |-> from, d |-> d, bounce |-> bounce, restored |-> FALSE,
          pReleased |-> FALSE]
    BY DEF Plan, hit, source, final
<1>14. needsD \in BOOLEAN
    BY <1>1
<1>15. /\ tier = "none" <=> copy = NoCopy
       /\ copy # NoCopy => /\ copy = id /\ id \in DOMAIN copies
                           /\ tier = copies[id].tier /\ copies[id].tokens >= hit
       /\ from # NoCopy => from = id /\ id \in DOMAIN copies /\ copies[id].tier = "d"
  <2>1. id # NoCopy => copies[id].tier # "none" /\ copies[id].tokens \in Nat
      BY <1>2 DEF CopyRecords, Tiers
  <2> QED
      BY <1>2, <1>4, <1>6, <1>8, <2>1
<1> HIDE DEF tier, copy, p, target, from, d, bounce, needsD, base, admit
<1>16. Plan(s, c) \in TicketRecords
    BY <1>1, <1>4, <1>5, <1>7, <1>9, <1>10, <1>11, <1>12, <1>13, <1>14 DEF TicketRecords
<1>17. /\ Plan(s, c).restored = FALSE /\ Plan(s, c).hit = hit /\ Plan(s, c).final = final
       /\ Plan(s, c).tier = tier /\ Plan(s, c).copy = copy /\ Plan(s, c).base = from
    BY <1>13
<1> QED
    BY <1>5, <1>15, <1>16, <1>17 DEF Sound

\* The copy a call reads is pinned; one in CPU memory is retired at once, one
\* on the SSD stays as a shadow.
LEMMA ForegroundPinned ==
    ASSUME NEW x \in CopyRecords, x.foreground = 0, NEW tier
    PROVE  LET q == ReadBy(x, tier)
           IN  /\ q \in CopyRecords /\ SameData(q, x)
               /\ q.demotion = x.demotion /\ q.foreground = 1 /\ q.export = x.export
               /\ q.retired <=> (x.retired \/ tier = "cpu")
               /\ q.shadow <=> (x.shadow \/ tier = "ssd")
<1> DEFINE f == x.foreground + 1
           retired == x.retired \/ tier = "cpu"
           shadow == x.shadow \/ tier = "ssd"
           q == [x EXCEPT !.foreground = f, !.retired = retired, !.shadow = shadow]
<1>1. f = 1 /\ retired \in BOOLEAN /\ shadow \in BOOLEAN
    BY DEF CopyRecords
<1>2. retired <=> (x.retired \/ tier = "cpu")
    OBVIOUS
<1>3. shadow <=> (x.shadow \/ tier = "ssd")
    OBVIOUS
<1>4. ReadBy(x, tier) = q
    BY DEF ReadBy
<1> HIDE DEF f, retired, shadow
<1>5. q \in CopyRecords
  <2> DEFINE q1 == [x EXCEPT !.foreground = f]
             q2 == [q1 EXCEPT !.retired = retired]
             q3 == [q2 EXCEPT !.shadow = shadow]
  <2>1. q1 \in CopyRecords
      BY <1>1 DEF CopyRecords
  <2> HIDE DEF q1
  <2>2. q2 \in CopyRecords
      BY <1>1, <2>1 DEF CopyRecords
  <2> HIDE DEF q2
  <2>3. q3 \in CopyRecords
      BY <1>1, <2>2 DEF CopyRecords
  <2>4. q = q3
      BY DEF q1, q2
  <2> QED
      BY <2>3, <2>4
<1>6. /\ SameData(q, x) /\ q.demotion = x.demotion /\ q.export = x.export
      /\ q.foreground = f /\ q.retired = retired /\ q.shadow = shadow
    BY <1>1 DEF CopyRecords, SameData
<1> HIDE DEF q
<1> QED
    BY <1>1, <1>2, <1>3, <1>4, <1>5, <1>6

LEMMA BeginPrepareKeeps ==
    ASSUME TierInv, NEW s \in Session, NEW c \in Calls, BeginPrepare(s, c)
    PROVE  TierInv'
<1> DEFINE pl == Plan(s, c)
           id == rec[s].primary
           below == id # NoCopy /\ copies[id].tier # "d"
           unused == IF below /\ pl.tier = "none" THEN {id} ELSE {}
           read == [i \in DOMAIN copies |->
                      IF i = pl.copy THEN ReadBy(copies[i], pl.tier) ELSE copies[i]]
           next == IF below THEN NoCopy ELSE id
           r == Overtaken(Now(rec[s], "preparing", next, rec[s].tokens))
           left == Retire(read, unused)
<1>1. /\ rec[s].state \notin Busy
      /\ copies' = left
      /\ rec' = [rec EXCEPT ![s] = r]
      /\ tickets' = [tickets EXCEPT ![s] = pl]
      /\ UNCHANGED <<moves, exports>>
    BY DEF BeginPrepare
<1>0. moves' = moves /\ exports' = exports
    BY <1>1
<1>2. /\ Own(s) /\ rec[s] \in SessionRecords /\ tickets[s] = NoTicket
    BY <1>1, OwnOfInv, Typed, IdleHasNoTicket DEF TierInv
<1>3. /\ \A i \in CopiesOf(s) : OwnCopy(s, i) /\ ~Reading(i) /\ ~copies[i].shadow
      /\ OwnSession(s)
    BY <1>1, <1>2 DEF Own, CopiesOf, Reading, OwnCopy
<1>4. Sound(pl, id)
    BY PlanFacts
<1>5. id # NoCopy => id \in CopiesOf(s) /\ ~copies[id].retired /\ ~copies[id].shadow
                     /\ copies[id].version = rec[s].version
    BY <1>3 DEF OwnSession
<1>6. id \in CopyId \cup {NoCopy} /\ rec[s].tokens \in Nat
    BY <1>2 DEF SessionRecords
<1>7. /\ r \in SessionRecords /\ r.state = "preparing" /\ r.primary = next
      /\ r.version = rec[s].version
  <2> DEFINE n == rec[s].tokens
             old == rec[s]
  <2>1. /\ next \in CopyId \cup {NoCopy} /\ "preparing" \in States
        /\ n \in Nat /\ old \in SessionRecords
      BY <1>2, <1>6 DEF States, Busy
  <2> DEFINE q == Overtaken(Now(old, "preparing", next, n))
  <2> HIDE DEF n, old, next
  <2>2. /\ q \in SessionRecords /\ q.state = "preparing" /\ q.primary = next
        /\ q.version = old.version
      BY <2>1, LeavingFacts
  <2>3. r = q
      BY DEF n, old, next
  <2> HIDE DEF q, r
  <2> QED
      BY <2>2, <2>3 DEF old
<1> HIDE DEF r, pl
<1>8. /\ pl.tier = "none" <=> pl.copy = NoCopy
      /\ pl.copy # NoCopy =>
           /\ pl.copy = id /\ id \in DOMAIN copies
           /\ pl.tier = copies[id].tier /\ copies[id].tokens >= pl.hit
      /\ pl.base # NoCopy => pl.base = id /\ id \in DOMAIN copies /\ copies[id].tier = "d"
      /\ pl \in TicketRecords /\ pl # NoTicket /\ ~pl.restored /\ pl.hit < pl.final
    BY <1>4, NamesAssumption DEF Sound
<1>9. /\ CopyTable(read) /\ DOMAIN read = DOMAIN copies
      /\ \A i \in DOMAIN copies : i # pl.copy => read[i] = copies[i]
      /\ pl.copy # NoCopy =>
           /\ SameData(read[id], copies[id]) /\ read[id].foreground = 1
           /\ read[id].demotion = copies[id].demotion /\ read[id].export = copies[id].export
           /\ (read[id].retired <=> pl.tier = "cpu") /\ (read[id].shadow <=> pl.tier = "ssd")
  <2>1. ASSUME pl.copy # NoCopy
        PROVE  /\ read[id] = ReadBy(copies[id], pl.tier)
               /\ copies[id] \in CopyRecords /\ copies[id].foreground = 0
               /\ ~copies[id].retired /\ ~copies[id].shadow
      BY <1>3, <1>5, <1>8, <2>1 DEF OwnCopy
  <2>2. ASSUME pl.copy # NoCopy
        PROVE  /\ read[id] \in CopyRecords /\ SameData(read[id], copies[id])
               /\ read[id].demotion = copies[id].demotion /\ read[id].foreground = 1
               /\ read[id].export = copies[id].export
               /\ read[id].retired <=> pl.tier = "cpu"
               /\ read[id].shadow <=> pl.tier = "ssd"
    <3> DEFINE x == copies[id]
               t == pl.tier
               q == ReadBy(x, t)
    <3>1. x \in CopyRecords /\ x.foreground = 0
        BY <2>1, <2>2
    <3> HIDE DEF x, t
    <3>2. /\ q \in CopyRecords /\ SameData(q, x)
          /\ q.demotion = x.demotion /\ q.foreground = 1 /\ q.export = x.export
          /\ q.retired <=> (x.retired \/ t = "cpu")
          /\ q.shadow <=> (x.shadow \/ t = "ssd")
        BY <3>1, ForegroundPinned
    <3>3. read[id] = q
        BY <2>1, <2>2 DEF x, t
    <3> HIDE DEF q, read
    <3> QED
        BY <2>1, <2>2, <3>2, <3>3 DEF x, t
  <2>3. DOMAIN read = DOMAIN copies /\ \A i \in DOMAIN copies : i # pl.copy => read[i] = copies[i]
      OBVIOUS
  <2>4. pl.copy # NoCopy => pl.copy = id
      BY <1>8
  <2>5. NoCopy \notin DOMAIN copies
      BY NamesAssumption DEF TierInv, TierTypeOK
  <2> HIDE DEF read
  <2>6. CopyTable(read)
      BY <2>2, <2>3, <2>4, <2>5, Typed DEF CopyTable, TierInv
  <2> QED
      BY <2>2, <2>3, <2>6
<1> HIDE DEF read
<1>10. /\ CopyTable(left)
       /\ DOMAIN left = {i \in DOMAIN read : i \in unused => Pins(read[i]) # 0}
       /\ \A i \in DOMAIN left :
            /\ i \notin unused => left[i] = read[i]
            /\ SameData(left[i], read[i]) /\ SamePins(left[i], read[i])
            /\ left[i].retired <=> (read[i].retired \/ i \in unused)
            /\ left[i].shadow <=> (read[i].shadow /\ i \notin unused)
  <2>1. CopyTable(read)
      BY <1>9
  <2>2. left = Retire(read, unused)
      OBVIOUS
  <2> HIDE DEF unused, left
  <2>3. CopyTable(left) /\ DOMAIN left = {i \in DOMAIN read : i \in unused => Pins(read[i]) # 0}
      BY <2>1, <2>2, RetireTable
  <2>4. \A i \in DOMAIN left :
            /\ i \notin unused => left[i] = read[i]
            /\ SameData(left[i], read[i]) /\ SamePins(left[i], read[i])
            /\ left[i].retired <=> (read[i].retired \/ i \in unused)
            /\ left[i].shadow <=> (read[i].shadow /\ i \notin unused)
      BY <2>1, <2>2, RetireTable
  <2> QED
      BY <2>3, <2>4
<1>11. /\ rec' \in [Session -> SessionRecords] /\ rec'[s] = r
       /\ \A x \in Session \ {s} : rec'[x] = rec[x]
    BY <1>1, <1>7, RecUpdate, Typed DEF TierInv
<1>12. /\ tickets' \in [Session -> TicketRecords \cup {NoTicket}] /\ tickets'[s] = pl
       /\ \A x \in Session \ {s} : tickets'[x] = tickets[x]
    BY <1>1, <1>8 DEF TierInv, TierTypeOK
<1> HIDE DEF left
<1>13. ASSUME NEW i \in unused
       PROVE  i = id /\ i # pl.copy /\ i \in CopiesOf(s)
    BY <1>5, <1>8
<1>14. ASSUME NEW i \in DOMAIN copies, copies[i].session # s
       PROVE  i \in DOMAIN copies' /\ copies'[i] = copies[i]
  <2>1. i # id \/ pl.copy = NoCopy
      BY <1>5, <1>8, <1>14 DEF CopiesOf
  <2>2. i \notin unused /\ i # pl.copy
      BY <1>8, <1>13, <1>14, <2>1, NamesAssumption DEF CopiesOf, TierInv, TierTypeOK
  <2> QED
      BY <1>1, <1>9, <1>10, <2>2
<1>15. ASSUME NEW i \in DOMAIN copies'
       PROVE  /\ i \in DOMAIN copies /\ SameData(copies'[i], copies[i])
              /\ copies'[i].session # s => copies'[i] = copies[i]
  <2>1. i \in DOMAIN copies /\ SameData(copies'[i], read[i])
      BY <1>1, <1>9, <1>10
  <2>2. SameData(read[i], copies[i])
    <3>1. CASE i = pl.copy
        BY <1>8, <1>9, <2>1, <3>1, NamesAssumption DEF TierInv, TierTypeOK
    <3>2. CASE i # pl.copy
        BY <1>9, <2>1, <3>2 DEF SameData
    <3> QED
        BY <3>1, <3>2
  <2>3. SameData(copies'[i], copies[i])
      BY <2>1, <2>2 DEF SameData
  <2> QED
      BY <1>14, <2>1, <2>3 DEF SameData
<1>16. ASSUME NEW i \in DOMAIN copies, Pins(read[i]) # 0
       PROVE  i \in DOMAIN copies'
    BY <1>1, <1>9, <1>10, <1>16
<1>17. ASSUME NEW i \in DOMAIN moves' \cup DOMAIN exports
       PROVE  i \in DOMAIN copies' /\ copies'[i].session = copies[i].session
  <2>1. /\ i \in DOMAIN copies /\ read[i] \in CopyRecords
        /\ copies[i].demotion = 1 \/ copies[i].export = 1
      BY <1>0, <1>9 DEF TierInv, SourcesPinned, CopyTable
  <2>2. read[i].demotion = copies[i].demotion /\ read[i].export = copies[i].export
      BY <1>8, <1>9, <2>1, NamesAssumption DEF TierInv, TierTypeOK
  <2>3. Pins(read[i]) # 0
      BY <2>1, <2>2 DEF Pins, CopyRecords
  <2> QED
      BY <1>15, <1>16, <2>1, <2>3 DEF SameData
<1>18. ASSUME pl.copy # NoCopy
       PROVE  /\ id \in CopiesOf(s)' /\ copies'[id] = read[id]
              /\ copies'[id].foreground = 1
  <2>1. id \in DOMAIN copies /\ id \notin unused /\ id \in CopiesOf(s)
      BY <1>5, <1>8, <1>13, <1>18, NamesAssumption DEF TierInv, TierTypeOK
  <2>2. id \in DOMAIN left /\ left[id] = read[id]
      BY <1>9, <1>10, <2>1
  <2> QED
      BY <1>1, <1>9, <1>15, <1>18, <2>1, <2>2 DEF CopiesOf, SameData
<1>19. ASSUME NEW i \in CopiesOf(s)'
       PROVE  Reading(i)' <=> (i = pl.copy)
  <2>1. copies'[i].session = s /\ i \in DOMAIN copies'
      BY DEF CopiesOf
  <2> QED
      BY <1>8, <1>12, <2>1 DEF Reading
<1>20. ASSUME NEW i \in CopiesOf(s)'
       PROVE  OwnCopy(s, i)'
  <2>1. /\ i \in DOMAIN copies' /\ i \in CopiesOf(s) /\ i \in CopyId
        /\ copies'[i] \in CopyRecords /\ copies'[i] = left[i]
        /\ OwnCopy(s, i) /\ ~Reading(i) /\ ~copies[i].shadow
      BY <1>1, <1>3, <1>10, <1>15 DEF CopiesOf, SameData, CopyTable
  <2>2. CASE i = pl.copy
    <3>1. i = id /\ pl.copy # NoCopy
        BY <1>8, <2>1, <2>2, NamesAssumption
    <3>2. /\ copies'[i] = read[i] /\ read[i].foreground = 1
          /\ read[i].demotion = copies[i].demotion /\ read[i].export = copies[i].export
          /\ SameData(read[i], copies[i])
          /\ (read[i].retired <=> pl.tier = "cpu") /\ (read[i].shadow <=> pl.tier = "ssd")
        BY <1>9, <1>18, <3>1
    <3>3. Pins(copies'[i]) > 0
        BY <2>1, <3>2 DEF Pins, CopyRecords
    <3>4. ~read[i].retired /\ ~read[i].shadow => next = i
        BY <1>8, <2>1, <3>1, <3>2 DEF OwnCopy, CopyRecords, Tiers
    <3>5. read[i].version = rec[s].version /\ read[i].tokens >= pl.hit
        BY <1>5, <1>8, <3>1, <3>2 DEF SameData
    <3> QED
        BY <1>0, <1>7, <1>11, <1>12, <1>19, <2>1, <2>2, <3>2, <3>3, <3>4, <3>5
           DEF OwnCopy, Busy
  <2>3. CASE i # pl.copy
    <3>1. read[i] = copies[i] /\ i \in DOMAIN left
        BY <1>1, <1>9, <2>1, <2>3 DEF CopiesOf
    <3>2. /\ copies'[i].demotion = copies[i].demotion
          /\ copies'[i].foreground = copies[i].foreground
          /\ copies'[i].export = copies[i].export
          /\ copies'[i].retired <=> (copies[i].retired \/ i \in unused)
          /\ ~copies'[i].shadow
        BY <1>10, <2>1, <3>1 DEF SamePins
    <3>3. copies'[i].retired => Pins(copies'[i]) > 0
      <4>1. CASE i \in unused
          BY <1>10, <2>1, <3>1, <3>2, <4>1 DEF Pins, CopyRecords, OwnCopy
      <4>2. CASE i \notin unused
          BY <2>1, <3>2, <4>2 DEF Pins, OwnCopy
      <4> QED
          BY <4>1, <4>2
    <3>4. ~copies'[i].retired => next = i
      <4> HAVE ~copies'[i].retired
      <4>1. i = id /\ id # NoCopy
          BY <2>1, <3>2, NamesAssumption DEF OwnCopy
      <4>2. ~below
          BY <1>8, <2>3, <3>2, <4>1
      <4> QED
          BY <4>1, <4>2
    <3> QED
        BY <1>0, <1>7, <1>11, <1>12, <1>19, <2>1, <2>3, <3>2, <3>3, <3>4 DEF OwnCopy, Busy
  <2> QED
      BY <2>2, <2>3
<1>21. ASSUME next # NoCopy
       PROVE  /\ next = id /\ id \in CopiesOf(s)' /\ ~copies'[id].retired
              /\ ~copies'[id].shadow /\ SameData(copies'[id], copies[id])
  <2>1. next = id /\ id # NoCopy /\ id \notin unused /\ id \in DOMAIN copies
      BY <1>5, <1>21 DEF CopiesOf
  <2>2. id \in DOMAIN left /\ left[id] = read[id]
      BY <1>9, <1>10, <2>1
  <2>3. ~read[id].retired /\ ~read[id].shadow
    <3>1. CASE pl.copy = id
        BY <1>8, <1>9, <1>21, <2>1, <3>1
    <3>2. CASE pl.copy # id
        BY <1>5, <1>9, <2>1, <3>2
    <3> QED
        BY <3>1, <3>2
  <2> QED
      BY <1>1, <1>5, <1>15, <2>1, <2>2, <2>3 DEF CopiesOf, SameData
<1>22. OwnSession(s)'
  <2>1. "preparing" \in Busy /\ "preparing" \notin Demoting
        /\ \A t \in Tiers : ReadyIn[t] # "preparing"
      BY DEF Busy, Demoting, Tiers, ReadyIn
  <2>2. next # NoCopy => copies'[next].version = rec[s].version
      BY <1>5, <1>21 DEF SameData
  <2> HIDE DEF next
  <2> QED
      BY <1>7, <1>8, <1>11, <1>12, <1>21, <2>1, <2>2 DEF OwnSession
<1>23. OwnTicket(s)'
  <2>1. pl.base # NoCopy => next = pl.base /\ copies'[pl.base].tier = "d"
    <3> HAVE pl.base # NoCopy
    <3>1. pl.base = id /\ copies[id].tier = "d"
        BY <1>8
    <3>2. next = id /\ id # NoCopy
        BY <3>1
    <3> QED
        BY <1>21, <3>1, <3>2 DEF SameData
  <2>2. pl.copy # NoCopy => pl.copy \in CopiesOf(s)'
      BY <1>8, <1>18
  <2>3. TicketMatches(s)'
      BY <1>7, <1>8, <1>11, <1>12, <2>1, <2>2 DEF TicketMatches, CopiesOf
  <2> QED
      BY <1>12, <2>2, <2>3 DEF OwnTicket
<1>24. Own(s)'
    BY <1>20, <1>22, <1>23 DEF Own
<1>25. /\ DOMAIN moves' \subseteq DOMAIN moves
       /\ \A i \in DOMAIN moves' : moves'[i] = moves[i]
       /\ \A i \in DOMAIN moves : copies[i].session # s => i \in DOMAIN moves'
    BY <1>0
<1> QED
    BY <1>0, <1>11, <1>12, <1>14, <1>15, <1>17, <1>24, <1>25, OwnStepKeeps

\* A ticket once its prefix is in place.
LEMMA TicketRestored ==
    ASSUME NEW t \in TicketRecords, NEW b \in CopyId \cup {NoCopy}
    PROVE  LET q == Restored(t, b)
           IN  /\ q \in TicketRecords
               /\ q.restored /\ q.base = b /\ q.hit = t.hit /\ q.final = t.final
               /\ q.copy = t.copy
<1> DEFINE q1 == [t EXCEPT !.restored = TRUE]
           q2 == [q1 EXCEPT !.base = b]
           q == [t EXCEPT !.restored = TRUE, !.base = b]
<1>1. /\ q1 \in TicketRecords /\ q1.restored = TRUE /\ q1.hit = t.hit
      /\ q1.final = t.final /\ q1.copy = t.copy
    BY DEF TicketRecords
<1>2. q = q2
    OBVIOUS
<1> HIDE DEF q1, q
<1>3. /\ q2 \in TicketRecords /\ q2.restored = TRUE /\ q2.base = b /\ q2.hit = t.hit
      /\ q2.final = t.final /\ q2.copy = t.copy
    BY <1>1 DEF TicketRecords
<1> HIDE DEF q2
<1> QED
    BY <1>2, <1>3 DEF q, Restored

\* A copy that is cut to what the call keeps of it.
LEMMA CutFacts ==
    ASSUME NEW x \in CopyRecords, NEW b \in Nat, NEW n \in Nat
    PROVE  LET q == Trimmed(x, b, n)
           IN  /\ q \in CopyRecords /\ q.tokens = n
               /\ q.session = x.session /\ q.tier = x.tier /\ q.version = x.version
               /\ SamePins(q, x) /\ q.retired = x.retired /\ q.shadow = x.shadow
<1> DEFINE q1 == [x EXCEPT !.bytes = b]
           q2 == [q1 EXCEPT !.tokens = n]
           q == [x EXCEPT !.bytes = b, !.tokens = n]
<1>1. /\ q1 \in CopyRecords
      /\ q1.session = x.session /\ q1.tier = x.tier /\ q1.version = x.version
      /\ SamePins(q1, x) /\ q1.retired = x.retired /\ q1.shadow = x.shadow
    BY DEF CopyRecords, SamePins
<1>2. q = q2
    OBVIOUS
<1> HIDE DEF q1, q
<1>3. /\ q2 \in CopyRecords /\ q2.tokens = n
      /\ q2.session = q1.session /\ q2.tier = q1.tier /\ q2.version = q1.version
      /\ SamePins(q2, q1) /\ q2.retired = q1.retired /\ q2.shadow = q1.shadow
    BY <1>1 DEF CopyRecords, SamePins
<1> HIDE DEF q2
<1> QED
    BY <1>1, <1>2, <1>3 DEF SamePins, q, Trimmed

LEMMA CompletePrepareKeeps ==
    ASSUME TierInv, NEW s \in Session, CompletePrepare(s)
    PROVE  TierInv'
<1> DEFINE t == tickets[s]
           src == t.copy
           base == t.base
           left == ReadOut(t)
           shed == Shed(t, left)
           cut == Shortened(t, left)
           kept == Retire(cut, shed)
           gone == DOMAIN copies \ DOMAIN kept
           held == IF rec[s].primary \in gone THEN NoCopy ELSE rec[s].primary
           size == IF cut # left THEN cut[base].tokens ELSE rec[s].tokens
           r == Now(rec[s], "active", held, size)
           b == IF base \in shed THEN NoCopy ELSE base
           u == Restored(t, b)
<1>1. /\ t # NoTicket /\ rec[s].state = "preparing" /\ ~t.restored
      /\ copies' = kept
      /\ rec' = [rec EXCEPT ![s] = r]
      /\ tickets' = [tickets EXCEPT ![s] = u]
      /\ UNCHANGED <<moves, exports>>
    BY DEF CompletePrepare
<1> HIDE DEF kept, r, u
<1>0. moves' = moves /\ exports' = exports
    BY <1>1
<1>2. /\ Own(s) /\ rec[s] \in SessionRecords /\ t \in TicketRecords
      /\ NoCopy \notin DOMAIN copies
    BY <1>1, OwnOfInv, Typed, NamesAssumption DEF TierInv, TierTypeOK
<1>3. /\ \A i \in CopiesOf(s) : OwnCopy(s, i)
      /\ OwnSession(s) /\ TicketMatches(s)
      /\ src \in CopiesOf(s) \cup {NoCopy}
    BY <1>1, <1>2 DEF Own, OwnTicket
<1>4. \A i \in CopiesOf(s) : Reading(i) <=> i = src
    BY <1>1 DEF CopiesOf, Reading
<1> HIDE DEF held, size, b
<1> DEFINE unpin == [i \in DOMAIN copies |->
                       IF i = src THEN [copies[i] EXCEPT !.foreground = @ - 1]
                       ELSE copies[i]]
           spent == {i \in DOMAIN copies : i = src /\ copies[i].retired}
<1>5. /\ CopyTable(unpin) /\ DOMAIN unpin = DOMAIN copies
      /\ \A i \in DOMAIN copies :
           /\ i # src => unpin[i] = copies[i]
           /\ SameData(unpin[i], copies[i])
           /\ copies[i].session = s => unpin[i].foreground = 0
           /\ unpin[i].demotion = copies[i].demotion /\ unpin[i].export = copies[i].export
           /\ unpin[i].retired = copies[i].retired /\ unpin[i].shadow = copies[i].shadow
  <2>1. ASSUME NEW i \in DOMAIN copies
        PROVE  /\ unpin[i] \in CopyRecords
               /\ i # src => unpin[i] = copies[i]
               /\ SameData(unpin[i], copies[i])
               /\ copies[i].session = s => unpin[i].foreground = 0
               /\ unpin[i].demotion = copies[i].demotion
               /\ unpin[i].export = copies[i].export
               /\ unpin[i].retired = copies[i].retired
               /\ unpin[i].shadow = copies[i].shadow
    <3>1. copies[i] \in CopyRecords
        BY Typed DEF TierInv, CopyTable
    <3>2. CASE i = src
      <4>1. i \in CopiesOf(s) /\ copies[i].foreground = 1
          BY <1>2, <1>3, <1>4, <3>2 DEF OwnCopy
      <4>2. unpin[i] = [copies[i] EXCEPT !.foreground = @ - 1]
          BY <3>2
      <4> QED
          BY <3>1, <3>2, <4>1, <4>2 DEF CopyRecords, SameData
    <3>3. CASE i # src
      <4>1. unpin[i] = copies[i]
          BY <3>3
      <4>2. copies[i].session = s => copies[i].foreground = 0
          BY <1>3, <1>4, <3>3 DEF OwnCopy, CopiesOf
      <4> HIDE DEF unpin
      <4> QED
          BY <3>1, <3>3, <4>1, <4>2 DEF SameData
    <3> QED
        BY <3>2, <3>3
  <2>2. DOMAIN unpin = DOMAIN copies
      OBVIOUS
  <2> HIDE DEF unpin
  <2> QED
      BY <2>1, <2>2, Typed DEF CopyTable, TierInv
<1>6. \A i \in spent : i = src /\ i \in CopiesOf(s) /\ copies[i].retired
    BY <1>2, <1>3
<1>7. /\ CopyTable(left)
      /\ DOMAIN left = {i \in DOMAIN unpin : i \in spent => Pins(unpin[i]) # 0}
      /\ \A i \in DOMAIN left :
           /\ i \notin spent => left[i] = unpin[i]
           /\ SameData(left[i], unpin[i]) /\ SamePins(left[i], unpin[i])
           /\ left[i].retired <=> (unpin[i].retired \/ i \in spent)
           /\ left[i].shadow <=> (unpin[i].shadow /\ i \notin spent)
  <2>1. left = Retire(unpin, spent)
      BY DEF ReadOut
  <2> HIDE DEF unpin, spent, left
  <2> QED
      BY <1>5, <2>1, RetireTable
<1> HIDE DEF left, spent, unpin
<1> DEFINE based == Reusable(left, base)
           room == based /\ t.needsD /\ t.target < left[base].bytes
           short == Trimmed(left[base], t.target, Min({left[base].tokens, t.final}))
<1>8. based => base \in DOMAIN left /\ left[base].tier = "d" /\ Pins(left[base]) = 0
    BY DEF Reusable
<1>9. base # NoCopy =>
        base = rec[s].primary /\ base \in CopiesOf(s) /\ ~copies[base].retired
    BY <1>3 DEF TicketMatches, OwnSession
<1>10. based => base # NoCopy /\ base \in CopiesOf(s)
    BY <1>2, <1>5, <1>7, <1>8, <1>9
<1> HIDE DEF based, cut
<1>11. /\ CopyTable(cut) /\ DOMAIN cut = DOMAIN left
       /\ \A i \in DOMAIN left :
            /\ i # base => cut[i] = left[i]
            /\ cut[i].session = left[i].session /\ cut[i].tier = left[i].tier
            /\ cut[i].version = left[i].version /\ SamePins(cut[i], left[i])
            /\ cut[i].retired = left[i].retired /\ cut[i].shadow = left[i].shadow
       /\ ~based => cut = left
       /\ size \in Nat
  <2>1. rec[s].tokens \in Nat /\ t.target \in Nat /\ t.final \in Nat
      BY <1>2 DEF SessionRecords, TicketRecords
  <2>2. CASE room
    <3>1. base \in DOMAIN left /\ left[base] \in CopyRecords /\ left[base].tokens \in Nat
        BY <1>7, <1>8, <2>2 DEF CopyTable, CopyRecords
    <3>2. Min({left[base].tokens, t.final}) \in Nat
        BY <2>1, <3>1, MinOfTwo
    <3> DEFINE x == left[base]
               n == Min({left[base].tokens, t.final})
               y == t.target
               q == Trimmed(x, y, n)
    <3>3. q = short /\ x = left[base]
        OBVIOUS
    <3>4. x \in CopyRecords /\ n \in Nat /\ y \in Nat
        BY <2>1, <3>1, <3>2
    <3> HIDE DEF x, n, y
    <3>5. /\ q \in CopyRecords /\ q.tokens = n
          /\ q.session = x.session /\ q.tier = x.tier /\ q.version = x.version
          /\ SamePins(q, x) /\ q.retired = x.retired /\ q.shadow = x.shadow
        BY <3>4, CutFacts
    <3> HIDE DEF q, short
    <3>6. /\ DOMAIN cut = DOMAIN left /\ cut[base] = q
          /\ \A i \in DOMAIN left : i # base => cut[i] = left[i]
      <4>1. cut = [left EXCEPT ![base] = short]
          BY <2>2 DEF cut, Shortened, based, short
      <4> QED
          BY <3>1, <3>3, <4>1
    <3> HIDE DEF room
    <3>7. CopyTable(cut)
        BY <1>7, <3>5, <3>6 DEF CopyTable
    <3> QED
        BY <1>7, <2>1, <2>2, <3>3, <3>4, <3>5, <3>6, <3>7 DEF SamePins, room, size
  <2>3. CASE ~room
    <3>1. cut = left
        BY <2>3 DEF cut, Shortened, based
    <3> HIDE DEF room
    <3> QED
        BY <1>7, <2>1, <3>1 DEF SamePins, size
  <2> QED
      BY <2>2, <2>3
<1> HIDE DEF room, short
<1>12. /\ CopyTable(kept)
       /\ DOMAIN kept = {i \in DOMAIN cut : i \in shed => Pins(cut[i]) # 0}
       /\ \A i \in DOMAIN kept :
            /\ i \notin shed => kept[i] = cut[i]
            /\ SameData(kept[i], cut[i]) /\ SamePins(kept[i], cut[i])
            /\ kept[i].retired <=> (cut[i].retired \/ i \in shed)
            /\ kept[i].shadow <=> (cut[i].shadow /\ i \notin shed)
  <2> HIDE DEF shed
  <2> QED
      BY <1>11, RetireTable DEF kept
<1>13. \A i \in shed : i = base /\ i \in DOMAIN left /\ Pins(cut[i]) = 0
                       /\ i = rec[s].primary /\ i \in CopiesOf(s)
    BY <1>8, <1>9, <1>10, <1>11 DEF SamePins, Pins, Shed, based
<1>14. DOMAIN kept = DOMAIN left \ shed
    BY <1>11, <1>12, <1>13
<1>15. ASSUME NEW i \in DOMAIN kept
       PROVE  /\ i \in DOMAIN copies /\ i \notin shed
              /\ i \in CopyId /\ kept[i] \in CopyRecords
              /\ kept[i].session = copies[i].session /\ kept[i].tier = copies[i].tier
              /\ kept[i].version = copies[i].version
              /\ kept[i].demotion = copies[i].demotion /\ kept[i].export = copies[i].export
              /\ copies[i].session = s => kept[i].foreground = 0
              /\ kept[i].retired <=> copies[i].retired
              /\ kept[i].shadow => copies[i].shadow
              /\ ~copies[i].retired => (kept[i].shadow <=> copies[i].shadow)
  <2>1. i \in DOMAIN copies /\ i \in DOMAIN left /\ i \notin shed
      BY <1>5, <1>7, <1>14
  <2>2. kept[i] = cut[i]
      BY <1>12, <2>1
  <2>3. i \in CopyId /\ kept[i] \in CopyRecords
      BY <1>12 DEF CopyTable
  <2> QED
      BY <1>5, <1>6, <1>7, <1>11, <2>1, <2>2, <2>3 DEF SameData, SamePins
<1>16. ASSUME NEW i \in DOMAIN copies, copies[i].session # s
       PROVE  i \in DOMAIN kept /\ kept[i] = copies[i]
  <2>1. i \notin spent /\ i # src /\ i \notin shed /\ i # base
      BY <1>2, <1>3, <1>6, <1>9, <1>13, <1>16 DEF CopiesOf
  <2>2. i \in DOMAIN left /\ left[i] = unpin[i] /\ unpin[i] = copies[i]
      BY <1>5, <1>7, <2>1
  <2>3. i \in DOMAIN kept
      BY <1>14, <2>1, <2>2
  <2>4. kept[i] = cut[i] /\ cut[i] = left[i]
      BY <1>11, <1>12, <2>1, <2>2, <2>3
  <2> QED
      BY <2>2, <2>3, <2>4
<1>17. ASSUME NEW i \in DOMAIN moves \cup DOMAIN exports
       PROVE  i \in DOMAIN kept
  <2>1. /\ i \in DOMAIN copies /\ unpin[i] \in CopyRecords
        /\ unpin[i].demotion = 1 \/ unpin[i].export = 1
      BY <1>5 DEF TierInv, SourcesPinned, CopyTable
  <2>2. Pins(unpin[i]) # 0
      BY <2>1 DEF Pins, CopyRecords
  <2>3. i \in DOMAIN left /\ Pins(left[i]) # 0
      BY <1>5, <1>7, <2>1, <2>2 DEF SamePins, Pins
  <2>4. i \notin shed
      BY <1>11, <1>13, <2>3 DEF SamePins, Pins
  <2> QED
      BY <1>14, <2>3, <2>4
<1>18. ASSUME NEW i \in DOMAIN copies, ~copies[i].retired, i \notin shed
       PROVE  i \in DOMAIN kept
    BY <1>5, <1>6, <1>7, <1>14, <1>18
<1>19. /\ held # NoCopy => held = rec[s].primary /\ held \in DOMAIN kept
       /\ held \in CopyId \cup {NoCopy}
       /\ rec[s].primary \in DOMAIN kept => held = rec[s].primary
  <2>1. rec[s].primary # NoCopy => rec[s].primary \in DOMAIN copies
      BY <1>3 DEF OwnSession, CopiesOf
  <2>2. rec[s].primary \in CopyId \cup {NoCopy}
      BY <1>2 DEF SessionRecords
  <2> QED
      BY <2>1, <2>2 DEF held
<1> HIDE DEF gone
<1>20. /\ r \in SessionRecords /\ r.state = "active" /\ r.primary = held
       /\ r.version = rec[s].version
  <2>1. "active" \in States
      BY DEF States, Busy
  <2> QED
      BY <1>2, <1>11, <1>19, <2>1, NowFacts DEF r
<1>21. b \in CopyId \cup {NoCopy} /\ (b # NoCopy => b = base /\ base \notin shed)
  <2>1. base \in CopyId \cup {NoCopy}
      BY <1>2 DEF TicketRecords
  <2> QED
      BY <2>1 DEF b
<1>22. /\ u \in TicketRecords /\ u.restored /\ u.base = b /\ u.hit = t.hit
       /\ u.final = t.final /\ u.copy = src
  <2> HIDE DEF b, t
  <2> QED
      BY <1>2, <1>21, TicketRestored DEF src, u
<1> HIDE DEF shed
<1>23. /\ rec' \in [Session -> SessionRecords] /\ rec'[s] = r
       /\ \A x \in Session \ {s} : rec'[x] = rec[x]
    BY <1>1, <1>20, RecUpdate, Typed DEF TierInv
<1>24. /\ tickets' \in [Session -> TicketRecords \cup {NoTicket}] /\ tickets'[s] = u
       /\ u # NoTicket
       /\ \A x \in Session \ {s} : tickets'[x] = tickets[x]
    BY <1>1, <1>22, NamesAssumption DEF TierInv, TierTypeOK
<1>25. \A i \in CopiesOf(s)' : ~Reading(i)' /\ i \in CopiesOf(s) /\ i \in DOMAIN kept
    BY <1>1, <1>15, <1>22, <1>24 DEF Reading, CopiesOf
<1>26. ASSUME NEW i \in CopiesOf(s)'
       PROVE  OwnCopy(s, i)'
  <2>1. /\ OwnCopy(s, i) /\ ~Reading(i)' /\ i \in DOMAIN kept /\ copies'[i] = kept[i]
        /\ copies[i].session = s /\ i \in DOMAIN copies
      BY <1>1, <1>3, <1>25 DEF CopiesOf
  <2>2. copies[i].retired => Pins(kept[i]) > 0
    <3> HAVE copies[i].retired
    <3>1. CASE i \in spent
      <4>1. Pins(unpin[i]) # 0 /\ unpin[i] \in CopyRecords
          BY <1>5, <1>7, <1>14, <2>1, <3>1 DEF CopyTable
      <4>2. kept[i].demotion = unpin[i].demotion /\ kept[i].export = unpin[i].export
            /\ kept[i].foreground = unpin[i].foreground
          BY <1>5, <1>15, <2>1
      <4> QED
          BY <4>1, <4>2 DEF Pins, CopyRecords
    <3>2. CASE i \notin spent
      <4>1. i # src /\ copies[i].foreground = 0 /\ Pins(copies[i]) > 0
          BY <1>4, <1>25, <2>1, <3>2 DEF spent, OwnCopy
      <4> QED
          BY <1>15, <2>1, <4>1 DEF Pins
    <3> QED
        BY <3>1, <3>2
  <2>3. ~copies[i].retired /\ ~copies[i].shadow => held = i
      BY <1>19, <2>1 DEF OwnCopy
  <2> QED
      BY <1>0, <1>15, <1>20, <1>23, <2>1, <2>2, <2>3 DEF OwnCopy, Busy
<1>27. OwnSession(s)'
  <2>1. "active" \in Busy /\ "active" \notin Demoting
        /\ \A x \in Tiers : ReadyIn[x] # "active"
      BY DEF Busy, Demoting, Tiers, ReadyIn
  <2>2. ASSUME held # NoCopy
        PROVE  /\ held \in CopiesOf(s)' /\ copies'[held].version = rec[s].version
               /\ ~copies'[held].retired /\ ~copies'[held].shadow
      BY <1>1, <1>3, <1>15, <1>19, <2>2 DEF OwnSession, CopiesOf
  <2> QED
      BY <1>20, <1>23, <1>24, <2>1, <2>2 DEF OwnSession
<1>28. OwnTicket(s)'
  <2>1. ASSUME b # NoCopy
        PROVE  held = b /\ copies'[b].tier = "d"
    <3>1. b = base /\ base \notin shed /\ base = rec[s].primary /\ copies[base].tier = "d"
          /\ base \in DOMAIN copies /\ ~copies[base].retired
        BY <1>3, <1>9, <1>21, <2>1 DEF TicketMatches, CopiesOf
    <3>2. base \in DOMAIN kept
        BY <1>18, <3>1
    <3> QED
        BY <1>1, <1>15, <1>19, <3>1, <3>2
  <2>2. TicketMatches(s)'
      BY <1>3, <1>20, <1>22, <1>23, <1>24, <2>1 DEF TicketMatches
  <2> QED
      BY <1>22, <1>24, <2>2 DEF OwnTicket
<1>29. Own(s)'
    BY <1>26, <1>27, <1>28 DEF Own
<1>30. ASSUME NEW i \in DOMAIN copies', copies'[i].session # s
       PROVE  i \in DOMAIN copies /\ copies'[i] = copies[i]
    BY <1>1, <1>15, <1>16, <1>30
<1>31. ASSUME NEW i \in DOMAIN moves' \cup DOMAIN exports
       PROVE  i \in DOMAIN copies' /\ copies'[i].session = copies[i].session
    BY <1>0, <1>1, <1>15, <1>17
<1>32. /\ DOMAIN moves' \subseteq DOMAIN moves
       /\ \A i \in DOMAIN moves' : moves'[i] = moves[i]
       /\ \A i \in DOMAIN moves : copies[i].session # s => i \in DOMAIN moves'
    BY <1>0
<1> QED
    BY <1>0, <1>1, <1>16, <1>23, <1>24, <1>29, <1>30, <1>31, <1>32, OwnStepKeeps

LEMMA PublishKeeps ==
    ASSUME TierInv, NEW s \in Session, NEW id \in CopyId, Publish(s, id)
    PROVE  TierInv'
<1> DEFINE t == tickets[s]
           vs == Crowded(s)
           spared == {s}
           tier == "d"
           new == NewCopy(s, "d", rec[s].version + 1, rec[s].generation, t.final)
           old == CopiesOf(s) \ {id}
           kept == [i \in DOMAIN copies \ Ousted(vs) |-> copies[i]]
           left == Retire(kept, old)
           now == Now(rec[s], "d_ready", id, t.final)
           r == [now EXCEPT !.version = @ + 1]
           w == WithoutSessions(vs)
<1>1. /\ t # NoTicket /\ rec[s].state = "active"
      /\ IF InPlace(s) THEN id = t.base ELSE id \in FreshCopies
      /\ copies' = [i \in DOMAIN left \cup {id} |-> IF i = id THEN new ELSE left[i]]
      /\ rec' = [w EXCEPT ![s] = r]
      /\ tickets' = [tickets EXCEPT ![s] = NoTicket]
      /\ UNCHANGED <<moves, exports>>
    BY DEF Publish, CommitDue
<1>0. moves' = moves /\ exports' = exports
    BY <1>1
<1>2. /\ Own(s) /\ rec[s] \in SessionRecords /\ t \in TicketRecords
    BY <1>1, OwnOfInv, Typed, NamesAssumption DEF TierInv, TierTypeOK
<1>3. /\ \A i \in CopiesOf(s) : OwnCopy(s, i)
      /\ OwnSession(s) /\ TicketMatches(s)
    BY <1>1, <1>2 DEF Own, OwnTicket
<1>4. t.restored
    BY <1>1, <1>2, <1>3 DEF TicketMatches, TicketRecords
<1>5. \A i \in CopiesOf(s) : ~Reading(i)
    BY <1>4 DEF CopiesOf, Reading
<1>6. id \in DOMAIN copies => id \in CopiesOf(s) /\ Pins(copies[id]) = 0
  <2>1. CASE InPlace(s)
    <3>1. id = t.base /\ id \in DOMAIN copies /\ Pins(copies[id]) = 0
        BY <1>1, <2>1 DEF InPlace, Reusable
    <3>2. id # NoCopy
        BY NamesAssumption
    <3> QED
        BY <1>3, <3>1, <3>2 DEF TicketMatches, OwnSession
  <2>2. CASE ~InPlace(s)
      BY <1>1, <2>2 DEF FreshCopies
  <2> QED
      BY <2>1, <2>2
<1>7. id \notin DOMAIN moves /\ id \notin DOMAIN exports
  <2> SUFFICES ASSUME id \in DOMAIN copies
               PROVE  id \notin DOMAIN moves /\ id \notin DOMAIN exports
      BY DEF TierInv, SourcesPinned
  <2>1. copies[id] \in CopyRecords /\ Pins(copies[id]) = 0
      BY <1>6, Typed DEF TierInv, CopyTable
  <2> QED
      BY <2>1 DEF TierInv, SourcesPinned, Pins, CopyRecords
<1>8. tier \in Tiers /\ s \in spared /\ vs \subseteq Eligible(tier, spared)
    BY VictimsEligible DEF Tiers, Crowded
<1>9. /\ vs \subseteq Session \ {s}
      /\ \A i \in Ousted(vs) :
           /\ i \in DOMAIN copies /\ copies[i].session \in vs
           /\ i \notin DOMAIN moves /\ i \notin DOMAIN exports
  <2> HIDE DEF vs, spared, tier
  <2>1. Unread(tier, spared, vs)
      BY <1>8, OustedFacts
  <2> QED
      BY <2>1 DEF Unread, spared
<1> HIDE DEF vs, tier
<1>10. /\ new \in CopyRecords /\ new.session = s /\ new.tier = "d"
       /\ new.version = rec[s].version + 1 /\ new.retired = FALSE /\ new.shadow = FALSE
       /\ new.demotion = 0 /\ new.foreground = 0 /\ new.export = 0 /\ Pins(new) = 0
  <2> DEFINE v == rec[s].version + 1
  <2>1. /\ v \in Nat /\ rec[s].generation \in Nat /\ t.final \in Nat
        /\ "d" \in Tiers
      BY <1>2 DEF SessionRecords, TicketRecords, Tiers
  <2> HIDE DEF v
  <2>2. Fresh(NewCopy(s, "d", v, rec[s].generation, t.final), s, "d", v, t.final)
      BY <2>1, NewCopyFacts
  <2>3. new = NewCopy(s, "d", v, rec[s].generation, t.final)
      BY DEF v
  <2> HIDE DEF new
  <2> QED
      BY <2>2, <2>3 DEF Fresh, v
<1>11. /\ r \in SessionRecords /\ r.state = "d_ready" /\ r.primary = id
       /\ r.version = rec[s].version + 1
  <2>1. "d_ready" \in States /\ id \in CopyId \cup {NoCopy} /\ t.final \in Nat
      BY <1>2 DEF States, TicketRecords
  <2>2. /\ now \in SessionRecords /\ now.state = "d_ready" /\ now.primary = id
        /\ now.version = rec[s].version
      BY <1>2, <2>1, NowFacts
  <2> HIDE DEF now
  <2> QED
      BY <2>2 DEF SessionRecords
<1>12. /\ w \in [Session -> SessionRecords]
       /\ \A x \in Session \ vs : w[x] = rec[x]
       /\ \A x \in vs : w[x].state = "lost" /\ w[x].primary = NoCopy
                        /\ w[x].version = rec[x].version
    BY <1>9, WithoutFacts DEF TierInv
<1> HIDE DEF new, r, w, now
<1>13. /\ rec' \in [Session -> SessionRecords] /\ rec'[s] = r
       /\ \A x \in Session \ (vs \cup {s}) : rec'[x] = rec[x]
       /\ \A x \in vs : rec'[x].state = "lost" /\ rec'[x].primary = NoCopy
                        /\ rec'[x].version = rec[x].version
    BY <1>1, <1>9, <1>11, <1>12
<1>14. /\ tickets' \in [Session -> TicketRecords \cup {NoTicket}] /\ tickets'[s] = NoTicket
       /\ \A x \in Session \ {s} : tickets'[x] = tickets[x]
    BY <1>1 DEF TierInv, TierTypeOK
<1>15. CopyTable(kept) /\ DOMAIN kept = DOMAIN copies \ Ousted(vs)
       /\ \A i \in DOMAIN kept : kept[i] = copies[i]
  <2>1. CopyTable(copies)
      BY Typed DEF TierInv
  <2>2. DOMAIN kept = DOMAIN copies \ Ousted(vs) /\ \A i \in DOMAIN kept : kept[i] = copies[i]
      OBVIOUS
  <2> HIDE DEF kept
  <2> QED
      BY <2>1, <2>2 DEF CopyTable
<1> HIDE DEF kept
<1>16. /\ CopyTable(left)
       /\ DOMAIN left = {i \in DOMAIN kept : i \in old => Pins(kept[i]) # 0}
       /\ \A i \in DOMAIN left :
            /\ i \notin old => left[i] = kept[i]
            /\ SameData(left[i], kept[i]) /\ SamePins(left[i], kept[i])
            /\ left[i].retired <=> (kept[i].retired \/ i \in old)
            /\ left[i].shadow <=> (kept[i].shadow /\ i \notin old)
  <2> HIDE DEF old
  <2> QED
      BY <1>15, RetireTable
<1> HIDE DEF left
<1>17. /\ DOMAIN copies' = DOMAIN left \cup {id} /\ copies'[id] = new
       /\ \A i \in DOMAIN left \ {id} : copies'[i] = left[i]
    BY <1>1
<1>18. ASSUME NEW i \in DOMAIN copies, i \notin Ousted(vs), copies[i].session # s
       PROVE  i \in DOMAIN copies' /\ copies'[i] = copies[i]
  <2>1. i \notin old /\ i # id /\ i \in DOMAIN kept
      BY <1>6, <1>15, <1>18 DEF CopiesOf
  <2> QED
      BY <1>15, <1>16, <1>17, <2>1
<1>19. ASSUME NEW i \in DOMAIN copies', copies'[i].session # s
       PROVE  i \in DOMAIN copies \ Ousted(vs) /\ copies'[i] = copies[i]
  <2>1. i # id /\ i \in DOMAIN left /\ copies'[i] = left[i] /\ i \in DOMAIN kept
      BY <1>10, <1>16, <1>17, <1>19
  <2>2. copies[i].session # s
      BY <1>15, <1>16, <1>19, <2>1 DEF SameData
  <2> QED
      BY <1>15, <1>18, <2>1, <2>2
<1>20. ASSUME NEW i \in DOMAIN moves' \cup DOMAIN exports, copies[i].session = s
       PROVE  i \in DOMAIN copies' /\ copies'[i].session = s
  <2>1. /\ i \in DOMAIN copies /\ i \notin Ousted(vs) /\ i # id
        /\ copies[i] \in CopyRecords /\ (copies[i].demotion = 1 \/ copies[i].export = 1)
      BY <1>0, <1>7, <1>9, Typed DEF TierInv, SourcesPinned, CopyTable
  <2>2. Pins(copies[i]) # 0
      BY <2>1 DEF Pins, CopyRecords
  <2>3. i \in DOMAIN left
      BY <1>15, <1>16, <2>1, <2>2
  <2> QED
      BY <1>15, <1>16, <1>17, <1>20, <2>1, <2>3 DEF SameData
<1>21. ASSUME NEW i \in CopiesOf(s)'
       PROVE  OwnCopy(s, i)'
  <2>1. i \in DOMAIN copies' /\ copies'[i].session = s /\ ~Reading(i)'
      BY <1>14 DEF CopiesOf, Reading
  <2>2. CASE i = id
      BY <1>0, <1>7, <1>10, <1>11, <1>13, <1>17, <2>1, <2>2 DEF OwnCopy
  <2>3. CASE i # id
    <3>1. i \in DOMAIN left /\ copies'[i] = left[i] /\ i \in DOMAIN kept /\ i \in DOMAIN copies
        BY <1>15, <1>16, <1>17, <2>1, <2>3
    <3>2. i \in CopiesOf(s) /\ i \in old
        BY <1>15, <1>16, <2>1, <2>3, <3>1 DEF CopiesOf, SameData
    <3>3. /\ OwnCopy(s, i) /\ ~Reading(i) /\ left[i] \in CopyRecords
          /\ Pins(copies[i]) # 0 /\ SamePins(left[i], copies[i])
          /\ left[i].retired /\ ~left[i].shadow
        BY <1>3, <1>5, <1>15, <1>16, <3>1, <3>2 DEF CopyTable
    <3>4. Pins(left[i]) > 0
        BY <3>3 DEF Pins, SamePins, CopyRecords
    <3> QED
        BY <1>0, <2>1, <3>1, <3>3, <3>4 DEF OwnCopy, SamePins
  <2> QED
      BY <2>2, <2>3
<1>22. OwnSession(s)'
  <2>1. "d_ready" \notin Busy \cup Demoting \cup {"lost", "ended"}
        /\ \A x \in Tiers : ReadyIn[x] = "d_ready" => x = "d"
      BY DEF Busy, Demoting, Tiers, ReadyIn
  <2>2. id \in CopiesOf(s)' /\ id # NoCopy
      BY <1>10, <1>17, NamesAssumption DEF CopiesOf
  <2> QED
      BY <1>10, <1>11, <1>13, <1>14, <1>17, <2>1, <2>2 DEF OwnSession
<1>23. OwnTicket(s)'
    BY <1>14 DEF OwnTicket
<1>24. Own(s)'
    BY <1>21, <1>22, <1>23 DEF Own
<1>25. /\ DOMAIN moves' \subseteq DOMAIN moves
       /\ \A i \in DOMAIN moves' : moves'[i] = moves[i]
       /\ \A i \in DOMAIN moves : copies[i].session # s => i \in DOMAIN moves'
    BY <1>0
<1>26. \A i \in DOMAIN copies \ Ousted(vs) :
         copies[i].session # s => i \in DOMAIN copies' /\ copies'[i] = copies[i]
    BY <1>18
<1> HIDE DEF spared
<1> QED
    BY <1>0, <1>8, <1>13, <1>14, <1>19, <1>20, <1>24, <1>25, <1>26, FrameKeeps

-----------------------------------------------------------------------------
(* The invariant of every behaviour.                                       *)

\* The session a node is built with is in the state its stored context says.
LEMMA StoredFacts ==
    ASSUME TierInit, NEW s \in Session
    PROVE  \/ /\ Held(s) = {}
              /\ rec[s] = [state |-> "lost", generation |-> 0, version |-> 0, tokens |-> 0,
                           primary |-> NoCopy]
           \/ \E i \in Held(s) :
                /\ Held(s) = {i}
                /\ rec[s] = [state |-> ReadyIn[setup.stored[i].tier], generation |-> 0,
                             version |-> 1, tokens |-> setup.stored[i].tokens, primary |-> i]
<1>1. CASE Held(s) = {}
    BY <1>1 DEF TierInit
<1>2. CASE Held(s) # {}
  <2> DEFINE i == CHOOSE i \in Held(s) : TRUE
  <2>1. i \in Held(s)
      BY <1>2
  <2>2. rec[s] = [state |-> ReadyIn[setup.stored[i].tier], generation |-> 0,
                  version |-> 1, tokens |-> setup.stored[i].tokens, primary |-> i]
      BY <1>2 DEF TierInit
  <2> HIDE DEF i
  <2>3. \A j \in Held(s) : j = i
      BY <2>1, SetupsAssumption DEF TierInit, Held
  <2> QED
      BY <2>1, <2>2, <2>3
<1> QED
    BY <1>1, <1>2

LEMMA InitHolds ==
    ASSUME TierInit
    PROVE  TierInv
<1>1. /\ setup \in Setups
      /\ copies = [i \in DOMAIN setup.stored |->
                     NewCopy(setup.stored[i].session, setup.stored[i].tier, 1, 0,
                             setup.stored[i].tokens)]
      /\ moves = <<>> /\ exports = <<>>
      /\ tickets = [s \in Session |-> NoTicket]
    BY DEF TierInit
<1>2. DOMAIN moves = {} /\ DOMAIN exports = {} /\ \A s \in Session : tickets[s] = NoTicket
    BY <1>1
<1>3. DOMAIN copies = DOMAIN setup.stored /\ DOMAIN copies \subseteq CopyId
    BY <1>1, SetupsAssumption
<1>4. ASSUME NEW i \in DOMAIN copies
      PROVE  /\ copies[i] \in CopyRecords /\ Pins(copies[i]) = 0
             /\ copies[i].session = setup.stored[i].session
             /\ copies[i].tier = setup.stored[i].tier /\ copies[i].version = 1
             /\ copies[i].retired = FALSE /\ copies[i].shadow = FALSE
             /\ copies[i].demotion = 0 /\ copies[i].foreground = 0 /\ copies[i].export = 0
  <2> DEFINE s == setup.stored[i].session
             tier == setup.stored[i].tier
             n == setup.stored[i].tokens
  <2>1. s \in Session /\ tier \in Tiers /\ n \in Nat
      BY <1>1, <1>3, SetupsAssumption
  <2>2. copies[i] = NewCopy(s, tier, 1, 0, n)
      BY <1>1, <1>3
  <2> HIDE DEF s, tier, n
  <2>3. Fresh(NewCopy(s, tier, 1, 0, n), s, tier, 1, n)
      BY <2>1, NewCopyFacts
  <2> QED
      BY <2>2, <2>3 DEF Fresh, s, tier
<1>5. ASSUME NEW s \in Session
      PROVE  /\ rec[s] \in SessionRecords
             /\ rec[s].state \notin Busy /\ rec[s].state \notin Demoting
             /\ rec[s].state # "ended"
             /\ rec[s].primary = NoCopy => rec[s].state = "lost"
             /\ rec[s].state = "lost" => rec[s].primary = NoCopy
             /\ rec[s].primary # NoCopy =>
                  /\ rec[s].primary \in DOMAIN copies
                  /\ copies[rec[s].primary].session = s
                  /\ rec[s].version = 1
                  /\ rec[s].state = ReadyIn[copies[rec[s].primary].tier]
                  /\ copies[rec[s].primary].tier \in Tiers
             /\ \A i \in DOMAIN copies : copies[i].session = s => rec[s].primary = i
  <2>1. \A i \in DOMAIN copies : copies[i].session = s <=> i \in Held(s)
      BY <1>3, <1>4 DEF Held
  <2>2. CASE /\ Held(s) = {}
             /\ rec[s] = [state |-> "lost", generation |-> 0, version |-> 0, tokens |-> 0,
                          primary |-> NoCopy]
      BY <2>1, <2>2, NamesAssumption DEF SessionRecords, States, Busy, Demoting
  <2>3. ASSUME NEW i \in Held(s), Held(s) = {i},
               rec[s] = [state |-> ReadyIn[setup.stored[i].tier], generation |-> 0,
                         version |-> 1, tokens |-> setup.stored[i].tokens, primary |-> i]
        PROVE  <1>5!2
    <3>1. i \in DOMAIN copies /\ i \in CopyId /\ i # NoCopy
        BY <1>3, NamesAssumption DEF Held
    <3>2. setup.stored[i].tier \in Tiers /\ setup.stored[i].tokens \in Nat
        BY <1>1, <1>3, <3>1, SetupsAssumption
    <3>3. /\ ReadyIn[setup.stored[i].tier] \in States \ (Busy \cup Demoting)
          /\ ReadyIn[setup.stored[i].tier] # "ended"
          /\ ReadyIn[setup.stored[i].tier] # "lost"
        BY <3>2 DEF ReadyIn, States, Busy, Demoting, Tiers
    <3>4. rec[s] \in SessionRecords
        BY <2>3, <3>1, <3>2, <3>3 DEF SessionRecords
    <3>5. copies[i].tier = setup.stored[i].tier /\ copies[i].session = s
        BY <1>4, <2>1, <3>1
    <3> QED
        BY <2>1, <2>3, <3>1, <3>2, <3>3, <3>4, <3>5
  <2> QED
      BY <2>2, <2>3, StoredFacts
<1>6. \A i \in DOMAIN copies : copies[i].session \in Session /\ ~Reading(i)
    BY <1>2, <1>4 DEF CopyRecords, Reading
<1>7. TierTypeOK
  <2>1. rec \in [Session -> SessionRecords]
    <3>1. rec = [s \in Session |-> rec[s]]
        BY DEF TierInit
    <3> QED
        BY <1>5, <3>1
  <2> QED
      BY <1>1, <1>2, <1>3, <1>4, <2>1 DEF TierTypeOK
<1>8. SourcesPinned
    BY <1>2, <1>4, <1>6 DEF SourcesPinned
<1>9. RetiredIsRead /\ HitsAreCurrent
    BY <1>4, <1>6 DEF RetiredIsRead, HitsAreCurrent
<1>10. OneAuthority
  <2>1. \A t1, t2 \in Tiers : ReadyIn[t1] = ReadyIn[t2] => t1 = t2
      BY DEF Tiers, ReadyIn
  <2>2. \A tier \in Tiers : ReadyIn[tier] # "lost"
      BY DEF Tiers, ReadyIn
  <2>3. ASSUME NEW s \in Session
        PROVE  /\ rec[s].primary # NoCopy =>
                    /\ rec[s].primary \in DOMAIN copies
                    /\ copies[rec[s].primary].session = s
                    /\ copies[rec[s].primary].version = rec[s].version
                    /\ ~copies[rec[s].primary].retired /\ ~copies[rec[s].primary].shadow
               /\ rec[s].state \in {"lost", "ended"} => rec[s].primary = NoCopy
               /\ rec[s].state \notin Demoting
               /\ rec[s].state \in Busy <=> tickets[s] # NoTicket
      BY <1>2, <1>4, <1>5
  <2>4. ASSUME NEW s \in Session, NEW tier \in Tiers, rec[s].state = ReadyIn[tier]
        PROVE  rec[s].primary # NoCopy /\ copies[rec[s].primary].tier = tier
      BY <1>5, <2>1, <2>2, <2>4
  <2>5. ASSUME NEW i \in DOMAIN copies
        PROVE  rec[copies[i].session].primary = i /\ ~copies[i].shadow
      BY <1>4, <1>5, <1>6
  <2> QED
      BY <2>3, <2>4, <2>5 DEF OneAuthority
<1>11. Links
    BY <1>2, <1>4, <1>5 DEF Links
<1> QED
    BY <1>7, <1>8, <1>9, <1>10, <1>11 DEF TierInv

LEMMA StepKeeps ==
    ASSUME TierInv, TierNext
    PROVE  TierInv'
<1>1. CASE \E s \in Session : Move(s)
  <2>1. PICK s \in Session : Move(s)
      BY <1>1
  <2> QED
      BY <2>1, DropKeeps, DemoteToCpuKeeps, DemoteToSsdKeeps, SpillKeeps,
         CompleteMoveKeeps DEF Move
<1>2. CASE \E s \in Session : Serve(s)
  <2>1. PICK s \in Session : Serve(s)
      BY <1>2
  <2> QED
      BY <2>1, BeginPrepareKeeps, CompletePrepareKeeps, ReleasePKeeps, FinishKeeps,
         PublishKeeps DEF Serve
<1>3. CASE \E s \in Session : Leave(s)
    BY <1>3, EndKeeps, RestartEndedKeeps, BeginExportKeeps DEF Leave
<1>4. CASE \E c \in CopyId : Stage(c)
    BY <1>4, StageKeeps
<1> QED
    BY <1>1, <1>2, <1>3, <1>4 DEF TierNext

LEMMA StutterKeeps ==
    ASSUME TierInv, UNCHANGED tierVars
    PROVE  TierInv'
<1>1. /\ rec' = rec /\ copies' = copies /\ moves' = moves /\ tickets' = tickets
      /\ exports' = exports
    BY DEF tierVars
<1> QED
    BY <1>1 DEF TierInv, TierTypeOK, SourcesPinned, RetiredIsRead, OneAuthority,
                HitsAreCurrent, Links, TicketMatches, Reading

(* Every reachable state satisfies the invariant.                          *)
THEOREM TierInvariant == TierSpec => []TierInv
<1>1. TierInit => TierInv
    BY InitHolds
<1>2. TierInv /\ [TierNext]_tierVars => TierInv'
    BY StepKeeps, StutterKeeps
<1> QED
    BY <1>1, <1>2, PTL DEF TierSpec

(* The variables keep their types; a copy has at most one reader of each   *)
(* kind.                                                                   *)
THEOREM TierTypeCorrect == TierSpec => []TierTypeOK
<1>1. TierInv => TierTypeOK
    BY DEF TierInv
<1> QED
    BY <1>1, TierInvariant, PTL

(* Demotions, restores and exports in flight read copies that are there,   *)
(* whatever drops, ends and resumes happened since they started.           *)
THEOREM SourcesStayPinned == TierSpec => []SourcesPinned
<1>1. TierInv => SourcesPinned
    BY DEF TierInv
<1> QED
    BY <1>1, TierInvariant, PTL

(* No retired copy is leaked: each is read by a transfer that will free it. *)
THEOREM RetiredCopiesAreRead == TierSpec => []RetiredIsRead
<1>1. TierInv => RetiredIsRead
    BY DEF TierInv
<1> QED
    BY <1>1, TierInvariant, PTL

(* A session has one copy that may be resumed from, on the tier its state  *)
(* names.                                                                  *)
THEOREM AuthorityIsUnique == TierSpec => []OneAuthority
<1>1. TierInv => OneAuthority
    BY DEF TierInv
<1> QED
    BY <1>1, TierInvariant, PTL

(* A call reads the current version, and at least the tokens it reuses.    *)
THEOREM HitsStayCurrent == TierSpec => []HitsAreCurrent
<1>1. TierInv => HitsAreCurrent
    BY DEF TierInv
<1> QED
    BY <1>1, TierInvariant, PTL

-----------------------------------------------------------------------------
(* A call owns its session.                                                *)

Undisturbed(s) ==
  /\ rec'[s].version = rec[s].version /\ rec'[s].generation = rec[s].generation
  /\ rec'[s].state \in Busy /\ rec'[s].primary \in {rec[s].primary, NoCopy}

\* A demotion that starts, or evicts, takes only idle sessions.
LEMMA StartMoveSpares ==
    ASSUME TierInv, NEW x \in Session, NEW dest, NEW bounce, NEW state, NEW spared,
           NEW vs, vs \subseteq Eligible("ssd", spared),
           rec[x].state \notin Busy, StartMove(x, dest, bounce, state, vs),
           NEW s \in Session, tickets[s] # NoTicket
    PROVE  rec'[s] = rec[s] /\ tickets'[s] = tickets[s] /\ s \notin vs /\ s # x
<1>1. rec[s].state \in Busy
    BY DEF TierInv, OneAuthority
<1>2. s # x /\ s \notin vs
    BY <1>1 DEF Eligible, ReadyIn, Busy
<1>3. WithoutSessions(vs)[s] = rec[s]
    BY <1>2 DEF WithoutSessions
<1>4. rec' = [WithoutSessions(vs) EXCEPT ![x] = Now(rec[x], state, rec[x].primary, rec[x].tokens)]
      /\ tickets' = tickets
    BY DEF StartMove
<1> QED
    BY <1>2, <1>3, <1>4

LEMMA MoveSpares ==
    ASSUME TierInv, NEW x \in Session, Move(x), NEW s \in Session, tickets[s] # NoTicket
    PROVE  rec'[s] = rec[s] /\ tickets'[s] = tickets[s]
<1>0. rec[s].state \in Busy
    BY DEF TierInv, OneAuthority
<1>1. CASE Drop(x)
    BY <1>0, <1>1 DEF Drop, Busy, TierInv, TierTypeOK
<1>2. CASE DemoteToCpu(x)
  <2> DEFINE vs == {}
             spared == {}
  <2>1. StartMove(x, "cpu", 0, "d_demoting_cpu", vs) /\ rec[x].state \notin Busy
      BY <1>2 DEF DemoteToCpu, Busy
  <2>2. vs \subseteq Eligible("ssd", spared)
      OBVIOUS
  <2> HIDE DEF vs, spared
  <2> QED
      BY <2>1, <2>2, StartMoveSpares
<1>3. CASE DemoteToSsd(x)
  <2> DEFINE vs == Victims("ssd", {x}, Aggregate(x))
             spared == {x}
  <2>1. StartMove(x, "ssd", Aggregate(x), "d_demoting_ssd", vs) /\ rec[x].state \notin Busy
      BY <1>3 DEF DemoteToSsd, Busy
  <2>2. vs \subseteq Eligible("ssd", spared)
      BY VictimsEligible
  <2> HIDE DEF vs, spared
  <2> QED
      BY <2>1, <2>2, StartMoveSpares
<1>4. ASSUME NEW among, Spill(x, among)
      PROVE  rec'[s] = rec[s] /\ tickets'[s] = tickets[s]
  <2> DEFINE spared == {x} \cup among
             vs == Victims("ssd", spared, Aggregate(x))
  <2>1. StartMove(x, "ssd", 0, "cpu_demoting_ssd", vs) /\ rec[x].state \notin Busy
      BY <1>4 DEF Spill, Busy
  <2>2. vs \subseteq Eligible("ssd", spared)
      BY VictimsEligible
  <2> HIDE DEF vs, spared
  <2> QED
      BY <2>1, <2>2, StartMoveSpares
<1>5. ASSUME NEW c \in CopyId, NEW id \in FreshCopies, CompleteMove(c, id)
      PROVE  rec'[s] = rec[s] /\ tickets'[s] = tickets[s]
  <2>1. StillWanted(c) => moves[c].session # s
      BY <1>0 DEF StillWanted, Busy, Demoting
  <2>2. rec' = (IF StillWanted(c)
                THEN [rec EXCEPT ![moves[c].session] =
                        Now(rec[moves[c].session], ReadyIn[moves[c].dest], id,
                            copies[c].tokens)]
                ELSE rec) /\ tickets' = tickets
      BY <1>5 DEF CompleteMove
  <2> QED
      BY <2>1, <2>2 DEF TierInv, TierTypeOK
<1> QED
    BY <1>1, <1>2, <1>3, <1>4, <1>5 DEF Move

LEMMA ServeOwns ==
    ASSUME TierInv, NEW x \in Session, Serve(x), NEW s \in Session, tickets[s] # NoTicket,
           tickets'[s] # NoTicket
    PROVE  Undisturbed(s)
<1>0. rec[s].state \in Busy /\ rec \in [Session -> SessionRecords] /\ rec[s] \in SessionRecords
    BY Typed DEF TierInv, OneAuthority
<1>1. ASSUME NEW c \in Calls, BeginPrepare(x, c)
      PROVE  Undisturbed(s)
  <2>1. x # s
      BY <1>0, <1>1 DEF BeginPrepare
  <2>2. rec'[s] = rec[s]
      BY <1>0, <1>1, <2>1 DEF BeginPrepare
  <2> QED
      BY <1>0, <2>2 DEF Undisturbed
<1>2. CASE CompletePrepare(x)
  <2>1. \E held \in {rec[x].primary, NoCopy} : \E size :
          rec' = [rec EXCEPT ![x] = Now(rec[x], "active", held, size)]
      BY <1>2 DEF CompletePrepare
  <2>2. PICK held \in {rec[x].primary, NoCopy} :
          \E size : rec' = [rec EXCEPT ![x] = Now(rec[x], "active", held, size)]
      BY <2>1
  <2>3. CASE x = s
      BY <1>0, <2>2, <2>3 DEF Undisturbed, Now, Busy, SessionRecords
  <2>4. CASE x # s
      BY <1>0, <2>2, <2>4 DEF Undisturbed
  <2> QED
      BY <2>3, <2>4
<1>3. CASE ReleaseP(x)
    BY <1>0, <1>3 DEF ReleaseP, Undisturbed
<1>4. CASE Finish(x)
  <2>1. x # s
      BY <1>4 DEF Finish, TierInv, TierTypeOK
  <2> QED
      BY <1>0, <1>4, <2>1 DEF Finish, Undisturbed
<1>5. ASSUME NEW id \in CopyId, Publish(x, id)
      PROVE  Undisturbed(s)
  <2> DEFINE vs == Crowded(x)
             r == [Now(rec[x], "d_ready", id, tickets[x].final) EXCEPT !.version = @ + 1]
  <2>1. rec' = [WithoutSessions(vs) EXCEPT ![x] = r] /\ tickets' = [tickets EXCEPT ![x] = NoTicket]
      BY <1>5 DEF Publish
  <2>2. x # s
      BY <2>1 DEF TierInv, TierTypeOK
  <2>3. vs \subseteq Eligible("d", {x})
      BY VictimsEligible DEF Crowded
  <2>4. s \notin vs
      BY <1>0, <2>3 DEF Eligible, ReadyIn, Busy
  <2>5. rec'[s] = rec[s]
      BY <2>1, <2>2, <2>4 DEF WithoutSessions
  <2> QED
      BY <1>0, <2>5 DEF Undisturbed
<1> QED
    BY <1>1, <1>2, <1>3, <1>4, <1>5 DEF Serve

LEMMA LeaveSpares ==
    ASSUME TierInv, NEW x \in Session, Leave(x), NEW s \in Session, tickets[s] # NoTicket
    PROVE  rec'[s] = rec[s] /\ tickets'[s] = tickets[s]
<1>0. rec[s].state \in Busy /\ rec \in [Session -> SessionRecords]
    BY Typed DEF TierInv, OneAuthority
<1>1. CASE End(x)
  <2>1. x # s
      BY <1>0, <1>1 DEF End
  <2> QED
      BY <1>0, <1>1, <2>1 DEF End
<1>2. CASE RestartEnded(x)
  <2>1. x # s
      BY <1>0, <1>2 DEF RestartEnded, Drained, Busy
  <2> QED
      BY <1>0, <1>2, <2>1 DEF RestartEnded
<1>3. CASE BeginExport(x)
    BY <1>3 DEF BeginExport
<1> QED
    BY <1>1, <1>2, <1>3 DEF Leave

LEMMA StageSpares ==
    ASSUME TierInv, NEW c \in CopyId, Stage(c), NEW s \in Session, tickets[s] # NoTicket
    PROVE  rec'[s] = rec[s] /\ tickets'[s] = tickets[s]
<1>0. rec[s].state \in Busy /\ rec \in [Session -> SessionRecords]
    BY Typed DEF TierInv, OneAuthority
<1>1. CASE CompleteExport(c)
    BY <1>1 DEF CompleteExport, ReleaseExport
<1>2. CASE AbortExport(c)
    BY <1>2 DEF AbortExport, ReleaseExport
<1>3. CASE FinishExport(c)
  <2>1. exports[c].session # s
      BY <1>0, <1>3 DEF FinishExport, PublicationValid, Busy
  <2> QED
      BY <1>0, <1>3, <2>1 DEF FinishExport
<1> QED
    BY <1>1, <1>2, <1>3 DEF Stage

(* While a call of a session is served only that call changes the          *)
(* session's context: the generation it moved makes every transfer started *)
(* before stale.                                                           *)
THEOREM CallOwns == TierSpec => CallOwnsSession
<1> DEFINE Owned ==
             \A s \in Session :
               /\ tickets[s] # NoTicket /\ tickets'[s] # NoTicket
               => /\ rec'[s].version = rec[s].version
                  /\ rec'[s].generation = rec[s].generation
                  /\ rec'[s].state \in Busy
                  /\ rec'[s].primary \in {rec[s].primary, NoCopy}
<1>1. TierInv /\ [TierNext]_tierVars => [Owned]_tierVars
  <2> SUFFICES ASSUME TierInv, TierNext, NEW s \in Session, tickets[s] # NoTicket,
                      tickets'[s] # NoTicket
               PROVE  Undisturbed(s)
      BY DEF Undisturbed
  <2>1. rec[s].state \in Busy
      BY DEF TierInv, OneAuthority
  <2>2. rec'[s] = rec[s] => Undisturbed(s)
      BY <2>1 DEF Undisturbed
  <2> QED
      BY <2>2, MoveSpares, ServeOwns, LeaveSpares, StageSpares DEF TierNext
<1> QED
    BY <1>1, TierInvariant, PTL DEF TierSpec, CallOwnsSession

-----------------------------------------------------------------------------
(* The byte ledgers.                                                       *)

(* A copy has the bytes of its tokens, and a demotion has reserved those   *)
(* its result will have.                                                   *)
Sized ==
  /\ \A i \in DOMAIN copies : copies[i].bytes = BytesOn(copies[i].tier, copies[i].tokens)
  /\ \A c \in DOMAIN moves :
       /\ moves[c].dest \in {"cpu", "ssd"}
       /\ moves[c].bytes = BytesOn(moves[c].dest, copies[c].tokens)

(* The D copy a call builds on is read by the call at most; and what the   *)
(* call reserved in D makes it as large as the call was promised.          *)
Covered(t) ==
  /\ t.target = (IF t.needsD THEN BytesOn("d", t.final) ELSE 0)
  /\ t.base # NoCopy => t.base \notin DOMAIN moves \cup DOMAIN exports
  /\ t.successor => t.needsD
  /\ t.needsD /\ setup.reserve = "final_context_upfront" =>
       t.target <= t.d + (IF t.base = NoCopy THEN 0 ELSE copies[t.base].bytes)

(* Every session with a context is in the order of ages.                   *)
KnownAge(s) == rec[s].state \notin {"lost", "ended"} => \E n \in DOMAIN lru : lru[n] = s

LedgerInv ==
  /\ setup \in Setups
  /\ IsFiniteSet(DOMAIN copies)
  /\ lru \in Seq(Session) /\ \A s \in Session : KnownAge(s)
  /\ Sized
  /\ \A s \in Session : tickets[s] # NoTicket => Covered(tickets[s])
  /\ used \in [Ledgers -> Int] /\ LedgersBalance

-----------------------------------------------------------------------------
(* What copies, transfers and tickets add to the ledgers.                  *)

Table(cs) == CopyTable(cs) /\ IsFiniteSet(DOMAIN cs)

CopyBytes(l) == Weight(copies, DOMAIN copies, l)
MoveBytes(l) == SumFunction([i \in DOMAIN moves |-> MoveOwes(moves[i], l)])
ExportBytes(l) == SumFunction([i \in DOMAIN exports |-> IF l = "cpu" THEN exports[i].bytes ELSE 0])
TicketBytes(l) == SumFunction([s \in Session |-> TicketOwes(tickets[s], l)])

\* The column of a ledger: what each copy adds to it.
Bytes(cs, l) == [i \in DOMAIN cs |-> IF cs[i].tier = l THEN cs[i].bytes ELSE 0]

LEMMA ColumnNat ==
    ASSUME NEW cs, CopyTable(cs), NEW l
    PROVE  \A i \in DOMAIN cs : Bytes(cs, l)[i] \in Nat
BY DEF CopyTable, CopyRecords, Bytes

LEMMA WeightParts ==
    ASSUME NEW cs, Table(cs), NEW l, NEW ids \in SUBSET DOMAIN cs
    PROVE  /\ Weight(cs, ids, l) \in Nat /\ Weight(cs, DOMAIN cs, l) \in Nat
           /\ Weight(cs, DOMAIN cs \ ids, l) \in Nat
           /\ Weight(cs, DOMAIN cs, l) = Weight(cs, ids, l) + Weight(cs, DOMAIN cs \ ids, l)
<1>1. \A S : Weight(cs, S, l) = SumFunctionOnSet(Bytes(cs, l), S)
    BY DEF Weight, Bytes
<1>2. IsFiniteSet(DOMAIN cs) /\ \A i \in DOMAIN cs : Bytes(cs, l)[i] \in Nat
    BY ColumnNat DEF Table
<1>3. SumFunctionOnSet(Bytes(cs, l), DOMAIN cs) \in Nat
    BY <1>2, SumType
<1>4. /\ SumFunctionOnSet(Bytes(cs, l), DOMAIN cs)
           = SumFunctionOnSet(Bytes(cs, l), ids) + SumFunctionOnSet(Bytes(cs, l), DOMAIN cs \ ids)
      /\ SumFunctionOnSet(Bytes(cs, l), ids) \in Nat
      /\ SumFunctionOnSet(Bytes(cs, l), DOMAIN cs \ ids) \in Nat
    BY <1>2, SumSplit
<1> QED
    BY <1>1, <1>3, <1>4

\* Copies of the same tier and size weigh the same.
LEMMA WeightSame ==
    ASSUME NEW cs, Table(cs), NEW ds, NEW l, NEW ids \in SUBSET DOMAIN cs,
           ids \subseteq DOMAIN ds,
           \A i \in ids : ds[i].tier = cs[i].tier /\ ds[i].bytes = cs[i].bytes
    PROVE  Weight(ds, ids, l) = Weight(cs, ids, l)
<1>1. /\ Weight(cs, ids, l) = SumFunctionOnSet(Bytes(cs, l), ids)
      /\ Weight(ds, ids, l) = SumFunctionOnSet(Bytes(ds, l), ids)
    BY DEF Weight, Bytes
<1>2. IsFiniteSet(ids)
    BY FS_Subset DEF Table
<1>3. \A i \in ids : Bytes(cs, l)[i] \in Nat /\ Bytes(ds, l)[i] = Bytes(cs, l)[i]
  <2>1. \A i \in ids : Bytes(cs, l)[i] \in Nat
      BY ColumnNat DEF Table
  <2>2. \A i \in ids : Bytes(ds, l)[i] = Bytes(cs, l)[i]
      BY DEF Bytes
  <2> QED
      BY <2>1, <2>2
<1> QED
    BY <1>1, <1>2, <1>3, SumAgree

LEMMA WeightOne ==
    ASSUME NEW cs, CopyTable(cs), NEW l, NEW i \in DOMAIN cs
    PROVE  /\ Weight(cs, {i}, l) = (IF cs[i].tier = l THEN cs[i].bytes ELSE 0)
           /\ cs[i].bytes \in Nat
<1>1. Weight(cs, {i}, l) = SumFunctionOnSet(Bytes(cs, l), {i})
    BY DEF Weight, Bytes
<1>2. Bytes(cs, l)[i] \in Nat /\ Bytes(cs, l)[i] = (IF cs[i].tier = l THEN cs[i].bytes ELSE 0)
    BY ColumnNat DEF Bytes
<1>3. SumFunctionOnSet(Bytes(cs, l), {i}) = Bytes(cs, l)[i]
    BY <1>2, SumOne
<1>4. cs[i].bytes \in Nat
    BY DEF CopyTable, CopyRecords
<1> QED
    BY <1>1, <1>2, <1>3, <1>4

LEMMA WeightNone == \A cs, l : Weight(cs, {}, l) = 0
BY SumEmpty DEF Weight

\* Copies of other tiers weigh nothing.
LEMMA WeightElsewhere ==
    ASSUME NEW cs, Table(cs), NEW l, NEW ids \in SUBSET DOMAIN cs,
           \A i \in ids : cs[i].tier # l
    PROVE  Weight(cs, ids, l) = 0
<1>1. Weight(cs, ids, l) = SumFunctionOnSet(Bytes(cs, l), ids)
    BY DEF Weight, Bytes
<1>2. IsFiniteSet(ids)
    BY FS_Subset DEF Table
<1>3. \A i \in ids : Bytes(cs, l)[i] = 0
    BY DEF Bytes
<1> QED
    BY <1>1, <1>2, <1>3, SumZero

\* A table with the copies of another but for those in gone.
LEMMA WeightWithout ==
    ASSUME NEW cs, Table(cs), NEW ds, NEW gone \in SUBSET DOMAIN cs, NEW l,
           DOMAIN ds = DOMAIN cs \ gone,
           \A i \in DOMAIN ds : ds[i].tier = cs[i].tier /\ ds[i].bytes = cs[i].bytes
    PROVE  /\ Weight(ds, DOMAIN ds, l) = Weight(cs, DOMAIN cs, l) - Weight(cs, gone, l)
           /\ Weight(ds, DOMAIN ds, l) \in Nat /\ Weight(cs, gone, l) \in Nat
           /\ Weight(cs, DOMAIN cs, l) \in Nat
           /\ IsFiniteSet(DOMAIN ds)
<1>1. Weight(ds, DOMAIN ds, l) = Weight(cs, DOMAIN cs \ gone, l)
    BY WeightSame
<1>2. /\ Weight(cs, gone, l) \in Nat /\ Weight(cs, DOMAIN cs, l) \in Nat
      /\ Weight(cs, DOMAIN cs \ gone, l) \in Nat
      /\ Weight(cs, DOMAIN cs, l) = Weight(cs, gone, l) + Weight(cs, DOMAIN cs \ gone, l)
    BY WeightParts
<1>3. IsFiniteSet(DOMAIN ds)
    BY FS_Subset DEF Table
<1> QED
    BY <1>1, <1>2, <1>3

\* A table with the copies of another and one more.
LEMMA WeightWith ==
    ASSUME NEW cs, Table(cs), NEW ds, CopyTable(ds), NEW id, id \notin DOMAIN cs, NEW l,
           DOMAIN ds = DOMAIN cs \cup {id},
           \A i \in DOMAIN cs : ds[i].tier = cs[i].tier /\ ds[i].bytes = cs[i].bytes
    PROVE  /\ Weight(ds, DOMAIN ds, l)
                  = Weight(cs, DOMAIN cs, l) + (IF ds[id].tier = l THEN ds[id].bytes ELSE 0)
           /\ Weight(cs, DOMAIN cs, l) \in Nat
           /\ IsFiniteSet(DOMAIN ds)
<1>1. IsFiniteSet(DOMAIN ds)
    BY FS_AddElement DEF Table
<1>2. Table(ds)
    BY <1>1 DEF Table
<1>3. /\ Weight(ds, DOMAIN ds, l) = Weight(ds, {id}, l) + Weight(ds, DOMAIN ds \ {id}, l)
      /\ Weight(ds, DOMAIN ds \ {id}, l) \in Nat
    BY <1>2, WeightParts
<1>4. DOMAIN ds \ {id} = DOMAIN cs
    OBVIOUS
<1>5. Weight(ds, DOMAIN cs, l) = Weight(cs, DOMAIN cs, l)
    BY WeightSame
<1>6. Weight(ds, {id}, l) = (IF ds[id].tier = l THEN ds[id].bytes ELSE 0) /\ ds[id].bytes \in Nat
    BY WeightOne
<1>7. (IF ds[id].tier = l THEN ds[id].bytes ELSE 0) \in Nat
    BY <1>6
<1> QED
    BY <1>1, <1>3, <1>4, <1>5, <1>6, <1>7

\* One copy of a table is resized.
LEMMA WeightResized ==
    ASSUME NEW cs, Table(cs), NEW ds, CopyTable(ds), NEW id \in DOMAIN cs, NEW l,
           DOMAIN ds = DOMAIN cs, ds[id].tier = cs[id].tier,
           \A i \in DOMAIN cs \ {id} : ds[i].tier = cs[i].tier /\ ds[i].bytes = cs[i].bytes
    PROVE  /\ Weight(ds, DOMAIN ds, l)
                  = Weight(cs, DOMAIN cs, l)
                        + (IF cs[id].tier = l THEN ds[id].bytes - cs[id].bytes ELSE 0)
           /\ Weight(cs, DOMAIN cs, l) \in Nat
<1>1. Table(ds)
    BY DEF Table
<1>2. /\ Weight(ds, DOMAIN ds, l) = Weight(ds, {id}, l) + Weight(ds, DOMAIN ds \ {id}, l)
      /\ Weight(ds, DOMAIN ds \ {id}, l) \in Nat
    BY <1>1, WeightParts
<1>3. /\ Weight(cs, DOMAIN cs, l) = Weight(cs, {id}, l) + Weight(cs, DOMAIN cs \ {id}, l)
      /\ Weight(cs, DOMAIN cs, l) \in Nat
    BY WeightParts
<1>4. Weight(ds, DOMAIN cs \ {id}, l) = Weight(cs, DOMAIN cs \ {id}, l)
    BY WeightSame
<1>5. /\ Weight(ds, {id}, l) = (IF ds[id].tier = l THEN ds[id].bytes ELSE 0)
      /\ ds[id].bytes \in Nat
    BY WeightOne
<1>6. /\ Weight(cs, {id}, l) = (IF cs[id].tier = l THEN cs[id].bytes ELSE 0)
      /\ cs[id].bytes \in Nat
    BY WeightOne DEF Table
<1> DEFINE x == Weight(ds, DOMAIN cs \ {id}, l)
<1>7. x \in Nat /\ Weight(ds, DOMAIN ds, l) = Weight(ds, {id}, l) + x
      /\ Weight(cs, DOMAIN cs, l) = Weight(cs, {id}, l) + x
    BY <1>2, <1>3, <1>4
<1> HIDE DEF x
<1>8. CASE cs[id].tier = l
    BY <1>3, <1>5, <1>6, <1>7, <1>8
<1>9. CASE cs[id].tier # l
    BY <1>3, <1>5, <1>6, <1>7, <1>9
<1> QED
    BY <1>8, <1>9

\* Retiring frees what it removes.
LEMMA WeightRetired ==
    ASSUME NEW cs, Table(cs), NEW gone \in SUBSET DOMAIN cs, NEW l
    PROVE  /\ Weight(Retire(cs, gone), DOMAIN Retire(cs, gone), l)
                  = Weight(cs, DOMAIN cs, l) - Weight(cs, Dying(cs, gone), l)
           /\ Weight(Retire(cs, gone), DOMAIN Retire(cs, gone), l) \in Nat
           /\ Weight(cs, Dying(cs, gone), l) \in Nat /\ Weight(cs, DOMAIN cs, l) \in Nat
           /\ Table(Retire(cs, gone))
           /\ Dying(cs, gone) \in SUBSET DOMAIN cs
<1>0. CopyTable(cs)
    BY DEF Table
<1>1. /\ CopyTable(Retire(cs, gone))
      /\ DOMAIN Retire(cs, gone) = {i \in DOMAIN cs : i \in gone => Pins(cs[i]) # 0}
      /\ \A i \in DOMAIN Retire(cs, gone) : SameData(Retire(cs, gone)[i], cs[i])
  <2>1. /\ CopyTable(Retire(cs, gone))
        /\ DOMAIN Retire(cs, gone) = {i \in DOMAIN cs : i \in gone => Pins(cs[i]) # 0}
        /\ \A i \in DOMAIN Retire(cs, gone) :
             /\ i \notin gone => Retire(cs, gone)[i] = cs[i]
             /\ SameData(Retire(cs, gone)[i], cs[i])
             /\ SamePins(Retire(cs, gone)[i], cs[i])
             /\ Retire(cs, gone)[i].retired <=> (cs[i].retired \/ i \in gone)
             /\ Retire(cs, gone)[i].shadow <=> (cs[i].shadow /\ i \notin gone)
      BY ONLY <1>0, RetireTable, ZenonT(60)
  <2> QED
      BY ONLY <2>1
<1> DEFINE r == Retire(cs, gone)
<1>2. Dying(cs, gone) \in SUBSET DOMAIN cs /\ DOMAIN r = DOMAIN cs \ Dying(cs, gone)
  <2>1. \A i : i \in Dying(cs, gone) <=> i \in gone /\ Pins(cs[i]) = 0
      BY DEF Dying
  <2>2. gone \subseteq DOMAIN cs
      OBVIOUS
  <2>3. DOMAIN r = {i \in DOMAIN cs : i \in gone => Pins(cs[i]) # 0}
      BY <1>1
  <2> HIDE DEF r
  <2>4. Dying(cs, gone) \in SUBSET DOMAIN cs
      BY <2>1, <2>2
  <2>5. \A i : i \in DOMAIN r <=> i \in DOMAIN cs \ Dying(cs, gone)
      BY <2>1, <2>3
  <2> QED
      BY <2>4, <2>5
<1>3. \A i \in DOMAIN r : r[i].tier = cs[i].tier /\ r[i].bytes = cs[i].bytes
    BY <1>1 DEF SameData
<1> HIDE DEF r
<1>4. /\ Weight(r, DOMAIN r, l) = Weight(cs, DOMAIN cs, l) - Weight(cs, Dying(cs, gone), l)
      /\ Weight(r, DOMAIN r, l) \in Nat
      /\ Weight(cs, Dying(cs, gone), l) \in Nat /\ Weight(cs, DOMAIN cs, l) \in Nat
      /\ IsFiniteSet(DOMAIN r)
    BY <1>2, <1>3, WeightWithout
<1> QED
    BY <1>1, <1>2, <1>4 DEF r, Table

-----------------------------------------------------------------------------
(* Sums over the transfers and the tickets.                                *)

\* One more term, one fewer, and one that changes.
LEMMA TermAdded ==
    ASSUME NEW f, IsFiniteSet(DOMAIN f), \A i \in DOMAIN f : f[i] \in Nat,
           NEW x, x \notin DOMAIN f, NEW g, DOMAIN g = DOMAIN f \cup {x}, g[x] \in Nat,
           \A i \in DOMAIN f : g[i] = f[i]
    PROVE  SumFunction(g) = SumFunction(f) + g[x]
<1>1. IsFiniteSet(DOMAIN g)
    BY FS_AddElement
<1>2. \A i \in DOMAIN g : g[i] \in Nat
    OBVIOUS
<1>3. /\ SumFunctionOnSet(g, DOMAIN g) = g[x] + SumFunctionOnSet(g, DOMAIN g \ {x})
      /\ SumFunctionOnSet(g, DOMAIN g \ {x}) \in Nat
    BY <1>1, <1>2, SumRemove
<1>4. DOMAIN g \ {x} = DOMAIN f
    OBVIOUS
<1>5. SumFunctionOnSet(g, DOMAIN f) = SumFunctionOnSet(f, DOMAIN f)
    BY SumAgree
<1> QED
    BY <1>3, <1>4, <1>5 DEF SumFunction

LEMMA TermRemoved ==
    ASSUME NEW f, IsFiniteSet(DOMAIN f), \A i \in DOMAIN f : f[i] \in Nat,
           NEW x \in DOMAIN f, NEW g, DOMAIN g = DOMAIN f \ {x},
           \A i \in DOMAIN g : g[i] = f[i]
    PROVE  SumFunction(g) = SumFunction(f) - f[x] /\ SumFunction(g) \in Nat
<1>1. /\ SumFunctionOnSet(f, DOMAIN f) = f[x] + SumFunctionOnSet(f, DOMAIN f \ {x})
      /\ SumFunctionOnSet(f, DOMAIN f \ {x}) \in Nat
    BY SumRemove
<1>2. SumFunctionOnSet(g, DOMAIN g) = SumFunctionOnSet(f, DOMAIN g)
    BY SumAgree, FS_RemoveElement
<1> QED
    BY <1>1, <1>2 DEF SumFunction

LEMMA TermChanged ==
    ASSUME NEW f, IsFiniteSet(DOMAIN f), \A i \in DOMAIN f : f[i] \in Nat,
           NEW x \in DOMAIN f, NEW g, DOMAIN g = DOMAIN f, g[x] \in Nat,
           \A i \in DOMAIN f \ {x} : g[i] = f[i]
    PROVE  SumFunction(g) = SumFunction(f) - f[x] + g[x]
<1>1. \A i \in DOMAIN f : f[i] \in Nat /\ g[i] \in Nat /\ (i # x => g[i] = f[i])
    OBVIOUS
<1>2. SumFunctionOnSet(g, DOMAIN f) = SumFunctionOnSet(f, DOMAIN f) - f[x] + g[x]
    BY <1>1, SumChange
<1> QED
    BY <1>2 DEF SumFunction

-----------------------------------------------------------------------------
(* What the invariant says of the ledgers, and what a transfer or a ticket *)
(* that comes or goes does to them.                                        *)

LEMMA OwesNat ==
    ASSUME NEW l
    PROVE  /\ TicketOwes(NoTicket, l) = 0
           /\ \A t \in TicketRecords \cup {NoTicket} : TicketOwes(t, l) \in Nat
           /\ \A m : m.bytes \in Nat /\ m.bounce \in Nat => MoveOwes(m, l) \in Nat
<1>1. ASSUME NEW t \in TicketRecords
      PROVE  TicketOwes(t, l) \in Nat
    BY NamesAssumption DEF TicketOwes, TicketRecords
<1>2. TicketOwes(NoTicket, l) = 0
    BY DEF TicketOwes
<1>3. ASSUME NEW m, m.bytes \in Nat, m.bounce \in Nat
      PROVE  MoveOwes(m, l) \in Nat
    BY <1>3 DEF MoveOwes
<1> QED
    BY <1>1, <1>2, <1>3

LEMMA LedgerFacts ==
    ASSUME TierInv, LedgerInv, NEW l \in Ledgers
    PROVE  /\ Table(copies) /\ IsFiniteSet(DOMAIN moves) /\ IsFiniteSet(DOMAIN exports)
           /\ CopyBytes(l) \in Nat /\ MoveBytes(l) \in Nat
           /\ ExportBytes(l) \in Nat /\ TicketBytes(l) \in Nat
           /\ used[l] = CopyBytes(l) + MoveBytes(l) + ExportBytes(l) + TicketBytes(l)
           /\ used[l] \in Nat /\ setup.cap[l] \in Nat /\ used[l] <= setup.cap[l]
<1>1. Table(copies)
    BY CopiesTable DEF Table, TierInv, LedgerInv
<1>2. IsFiniteSet(DOMAIN moves) /\ IsFiniteSet(DOMAIN exports)
  <2>1. DOMAIN moves \in SUBSET DOMAIN copies /\ DOMAIN exports \in SUBSET DOMAIN copies
      BY DEF TierInv, SourcesPinned
  <2> QED
      BY <1>1, <2>1, FS_Subset DEF Table
<1>3. CopyBytes(l) \in Nat
  <2>1. DOMAIN copies \in SUBSET DOMAIN copies
      OBVIOUS
  <2> QED
      BY <1>1, <2>1, WeightParts DEF CopyBytes
<1>4. MoveBytes(l) \in Nat
  <2> DEFINE f == [i \in DOMAIN moves |-> MoveOwes(moves[i], l)]
  <2>1. \A i \in DOMAIN moves : moves[i].bytes \in Nat /\ moves[i].bounce \in Nat
      BY DEF TierInv, TierTypeOK
  <2>2. \A i \in DOMAIN f : f[i] \in Nat
      BY <2>1, OwesNat
  <2> QED
      BY <1>2, <2>2, SumType DEF MoveBytes, SumFunction
<1>5. ExportBytes(l) \in Nat
  <2> DEFINE f == [i \in DOMAIN exports |-> IF l = "cpu" THEN exports[i].bytes ELSE 0]
  <2>1. \A i \in DOMAIN f : f[i] \in Nat
      BY DEF TierInv, TierTypeOK
  <2> QED
      BY <1>2, <2>1, SumType DEF ExportBytes, SumFunction
<1>6. TicketBytes(l) \in Nat
  <2> DEFINE f == [s \in Session |-> TicketOwes(tickets[s], l)]
  <2>1. \A s \in Session : tickets[s] \in TicketRecords \cup {NoTicket}
      BY DEF TierInv, TierTypeOK
  <2>2. \A s \in DOMAIN f : f[s] \in Nat
      BY <2>1, OwesNat
  <2> QED
      BY <2>2, SumType, SizesAssumption DEF TicketBytes, SumFunction
<1>7. used[l] = CopyBytes(l) + MoveBytes(l) + ExportBytes(l) + TicketBytes(l)
      /\ used[l] <= setup.cap[l]
    BY DEF LedgerInv, LedgersBalance, Owed, CopyBytes, MoveBytes, ExportBytes, TicketBytes
<1>8. setup.cap[l] \in Nat
    BY SetupsFit DEF LedgerInv
<1> QED
    BY <1>1, <1>2, <1>3, <1>4, <1>5, <1>6, <1>7, <1>8

\* The shape in which every operation shows that the ledgers still balance.
LEMMA StillBalanced ==
    ASSUME \A l \in Ledgers :
               /\ used'[l] = CopyBytes(l)' + MoveBytes(l)' + ExportBytes(l)' + TicketBytes(l)'
               /\ used'[l] <= setup'.cap[l]
    PROVE  LedgersBalance'
BY DEF LedgersBalance, Owed, CopyBytes, MoveBytes, ExportBytes, TicketBytes

LEMMA MoveStarts ==
    ASSUME TierInv, LedgerInv, NEW l \in Ledgers, NEW c, c \notin DOMAIN moves,
           NEW m, m.bytes \in Nat, m.bounce \in Nat,
           moves' = [i \in DOMAIN moves \cup {c} |-> IF i = c THEN m ELSE moves[i]]
    PROVE  MoveBytes(l)' = MoveBytes(l) + MoveOwes(m, l) /\ MoveOwes(m, l) \in Nat
<1> DEFINE f == [i \in DOMAIN moves |-> MoveOwes(moves[i], l)]
           g == [i \in DOMAIN moves' |-> MoveOwes(moves'[i], l)]
<1>1. IsFiniteSet(DOMAIN f)
    BY LedgerFacts
<1>2. \A i \in DOMAIN moves : moves[i].bytes \in Nat /\ moves[i].bounce \in Nat
    BY DEF TierInv, TierTypeOK
<1>3. (\A i \in DOMAIN f : f[i] \in Nat) /\ MoveOwes(m, l) \in Nat
    BY <1>2, OwesNat
<1>4. /\ DOMAIN g = DOMAIN f \cup {c} /\ g[c] = MoveOwes(m, l) /\ c \notin DOMAIN f
      /\ \A i \in DOMAIN f : g[i] = f[i]
    OBVIOUS
<1> HIDE DEF f, g
<1>5. SumFunction(g) = SumFunction(f) + g[c]
    BY <1>1, <1>3, <1>4, TermAdded
<1> QED
    BY <1>3, <1>4, <1>5 DEF MoveBytes, f, g

LEMMA MoveSettled ==
    ASSUME TierInv, LedgerInv, NEW l \in Ledgers, NEW c \in DOMAIN moves,
           moves' = [i \in DOMAIN moves \ {c} |-> moves[i]]
    PROVE  /\ MoveBytes(l)' = MoveBytes(l) - MoveOwes(moves[c], l)
           /\ MoveOwes(moves[c], l) \in Nat /\ MoveBytes(l)' \in Nat
<1> DEFINE f == [i \in DOMAIN moves |-> MoveOwes(moves[i], l)]
           g == [i \in DOMAIN moves' |-> MoveOwes(moves'[i], l)]
<1>1. IsFiniteSet(DOMAIN f)
    BY LedgerFacts
<1>2. \A i \in DOMAIN moves : moves[i].bytes \in Nat /\ moves[i].bounce \in Nat
    BY DEF TierInv, TierTypeOK
<1>3. (\A i \in DOMAIN f : f[i] \in Nat) /\ MoveOwes(moves[c], l) \in Nat
    BY <1>2, OwesNat
<1>4. /\ DOMAIN g = DOMAIN f \ {c} /\ f[c] = MoveOwes(moves[c], l) /\ c \in DOMAIN f
      /\ \A i \in DOMAIN g : g[i] = f[i]
    OBVIOUS
<1> HIDE DEF f, g
<1>5. SumFunction(g) = SumFunction(f) - f[c] /\ SumFunction(g) \in Nat
    BY <1>1, <1>3, <1>4, TermRemoved
<1> QED
    BY <1>3, <1>4, <1>5 DEF MoveBytes, f, g

LEMMA ExportStarts ==
    ASSUME TierInv, LedgerInv, NEW l \in Ledgers, NEW c, c \notin DOMAIN exports,
           NEW e, e.bytes \in Nat,
           exports' = [i \in DOMAIN exports \cup {c} |-> IF i = c THEN e ELSE exports[i]]
    PROVE  ExportBytes(l)' = ExportBytes(l) + (IF l = "cpu" THEN e.bytes ELSE 0)
<1> DEFINE f == [i \in DOMAIN exports |-> IF l = "cpu" THEN exports[i].bytes ELSE 0]
           g == [i \in DOMAIN exports' |-> IF l = "cpu" THEN exports'[i].bytes ELSE 0]
<1>1. IsFiniteSet(DOMAIN f)
    BY LedgerFacts
<1>2. \A i \in DOMAIN f : f[i] \in Nat
    BY DEF TierInv, TierTypeOK
<1>3. /\ DOMAIN g = DOMAIN f \cup {c} /\ g[c] = (IF l = "cpu" THEN e.bytes ELSE 0)
      /\ c \notin DOMAIN f /\ g[c] \in Nat
      /\ \A i \in DOMAIN f : g[i] = f[i]
    OBVIOUS
<1> HIDE DEF f, g
<1>4. SumFunction(g) = SumFunction(f) + g[c]
    BY <1>1, <1>2, <1>3, TermAdded
<1> QED
    BY <1>3, <1>4 DEF ExportBytes, f, g

LEMMA ExportSettled ==
    ASSUME TierInv, LedgerInv, NEW l \in Ledgers, NEW c \in DOMAIN exports,
           exports' = [i \in DOMAIN exports \ {c} |-> exports[i]]
    PROVE  /\ ExportBytes(l)' = ExportBytes(l) - (IF l = "cpu" THEN exports[c].bytes ELSE 0)
           /\ ExportBytes(l)' \in Nat /\ exports[c].bytes \in Nat
<1> DEFINE f == [i \in DOMAIN exports |-> IF l = "cpu" THEN exports[i].bytes ELSE 0]
           g == [i \in DOMAIN exports' |-> IF l = "cpu" THEN exports'[i].bytes ELSE 0]
<1>1. IsFiniteSet(DOMAIN f)
    BY LedgerFacts
<1>2. (\A i \in DOMAIN f : f[i] \in Nat) /\ exports[c].bytes \in Nat
    BY DEF TierInv, TierTypeOK
<1>3. /\ DOMAIN g = DOMAIN f \ {c} /\ f[c] = (IF l = "cpu" THEN exports[c].bytes ELSE 0)
      /\ c \in DOMAIN f
      /\ \A i \in DOMAIN g : g[i] = f[i]
    OBVIOUS
<1> HIDE DEF f, g
<1>4. SumFunction(g) = SumFunction(f) - f[c] /\ SumFunction(g) \in Nat
    BY <1>1, <1>2, <1>3, TermRemoved
<1> QED
    BY <1>2, <1>3, <1>4 DEF ExportBytes, f, g

\* The status of an export does not count.
LEMMA ExportsCountBytes ==
    ASSUME DOMAIN exports' = DOMAIN exports,
           \A i \in DOMAIN exports : exports'[i].bytes = exports[i].bytes
    PROVE  \A l \in Ledgers : ExportBytes(l)' = ExportBytes(l)
<1> SUFFICES ASSUME NEW l \in Ledgers
             PROVE  ExportBytes(l)' = ExportBytes(l)
    OBVIOUS
<1>1. [i \in DOMAIN exports' |-> IF l = "cpu" THEN exports'[i].bytes ELSE 0]
          = [i \in DOMAIN exports |-> IF l = "cpu" THEN exports[i].bytes ELSE 0]
    OBVIOUS
<1> QED
    BY <1>1 DEF ExportBytes

LEMMA TicketChanges ==
    ASSUME TierInv, LedgerInv, NEW l \in Ledgers, NEW s \in Session,
           NEW t \in TicketRecords \cup {NoTicket}, tickets' = [tickets EXCEPT ![s] = t]
    PROVE  /\ TicketBytes(l)' = TicketBytes(l) - TicketOwes(tickets[s], l) + TicketOwes(t, l)
           /\ TicketOwes(tickets[s], l) \in Nat /\ TicketOwes(t, l) \in Nat
<1> DEFINE f == [x \in Session |-> TicketOwes(tickets[x], l)]
           g == [x \in Session |-> TicketOwes(tickets'[x], l)]
<1>1. tickets \in [Session -> TicketRecords \cup {NoTicket}]
    BY DEF TierInv, TierTypeOK
<1>2. (\A x \in Session : TicketOwes(tickets[x], l) \in Nat) /\ TicketOwes(t, l) \in Nat
    BY <1>1, OwesNat
<1>3. /\ DOMAIN f = Session /\ DOMAIN g = DOMAIN f /\ s \in DOMAIN f
      /\ f[s] = TicketOwes(tickets[s], l) /\ g[s] = TicketOwes(t, l)
      /\ \A x \in DOMAIN f : f[x] \in Nat
      /\ \A x \in DOMAIN f \ {s} : g[x] = f[x]
    BY <1>1, <1>2
<1> HIDE DEF f, g
<1>4. SumFunction(g) = SumFunction(f) - f[s] + g[s]
    BY <1>2, <1>3, TermChanged, SizesAssumption
<1> QED
    BY <1>2, <1>3, <1>4 DEF TicketBytes, f, g

-----------------------------------------------------------------------------
(* The order of ages.                                                      *)

Aged(q) == {q[n] : n \in DOMAIN q}

LEMMA OnlyAged ==
    ASSUME NEW U, NEW q \in Seq(U), NEW K
    PROVE  Only(q, K) \in Seq(U) /\ Aged(Only(q, K)) = Aged(q) \cap K
<1>1. /\ Only(q, K) \in Seq(U)
      /\ \A x : Occurrences(x, Only(q, K)) = IF x \in K THEN Occurrences(x, q) ELSE 0
    BY OnlyFacts
<1>2. ASSUME NEW x
      PROVE  x \in Aged(Only(q, K)) <=> x \in Aged(q) /\ x \in K
  <2>1. x \in Aged(Only(q, K)) <=> Occurrences(x, Only(q, K)) > 0
      BY <1>1, OccMember DEF Aged
  <2>2. x \in Aged(q) <=> Occurrences(x, q) > 0
      BY OccMember DEF Aged
  <2> QED
      BY <1>1, <2>1, <2>2
<1> QED
    BY <1>1, <1>2

LEMMA AppendAged ==
    ASSUME NEW U, NEW q \in Seq(U), NEW x \in U
    PROVE  Append(q, x) \in Seq(U) /\ Aged(Append(q, x)) = Aged(q) \cup {x}
<1>1. Append(q, x) \in Seq(U) /\ DOMAIN Append(q, x) = DOMAIN q \cup {Len(q) + 1}
      /\ Append(q, x)[Len(q) + 1] = x /\ \A n \in DOMAIN q : Append(q, x)[n] = q[n]
    OBVIOUS
<1> QED
    BY <1>1 DEF Aged

LEMMA ConcatAged ==
    ASSUME NEW U, NEW q \in Seq(U), NEW r \in Seq(U)
    PROVE  q \o r \in Seq(U) /\ Aged(q \o r) = Aged(q) \cup Aged(r)
<1>1. q \o r \in Seq(U) /\ Len(q \o r) = Len(q) + Len(r)
    OBVIOUS
<1>2. \A n \in 1..Len(q) : (q \o r)[n] = q[n]
    OBVIOUS
<1>3. \A n \in 1..Len(r) : (q \o r)[Len(q) + n] = r[n]
    OBVIOUS
<1>4. ASSUME NEW x \in Aged(q \o r)
      PROVE  x \in Aged(q) \cup Aged(r)
  <2>1. PICK n \in 1..(Len(q) + Len(r)) : x = (q \o r)[n]
      BY <1>1 DEF Aged
  <2>2. CASE n <= Len(q)
      BY <1>2, <2>1, <2>2 DEF Aged
  <2>3. CASE n > Len(q)
    <3>1. n - Len(q) \in 1..Len(r) /\ n = Len(q) + (n - Len(q))
        BY <2>3
    <3> QED
        BY <1>3, <2>1, <3>1 DEF Aged
  <2> QED
      BY <2>2, <2>3
<1>5. ASSUME NEW x \in Aged(q) \cup Aged(r)
      PROVE  x \in Aged(q \o r)
  <2>1. CASE x \in Aged(q)
    <3>1. PICK n \in 1..Len(q) : x = q[n]
        BY <2>1 DEF Aged
    <3> QED
        BY <1>1, <1>2, <3>1 DEF Aged
  <2>2. CASE x \in Aged(r)
    <3>1. PICK n \in 1..Len(r) : x = r[n]
        BY <2>2 DEF Aged
    <3>2. Len(q) + n \in 1..(Len(q) + Len(r))
        BY <3>1
    <3> QED
        BY <1>1, <1>3, <3>1, <3>2 DEF Aged
  <2> QED
      BY <2>1, <2>2
<1> QED
    BY <1>1, <1>4, <1>5

\* Touching a session adds it; touching the sessions vs only moves them.
LEMMA TouchedAged ==
    ASSUME lru \in Seq(Session), NEW s \in Session, NEW vs
    PROVE  /\ Touch(s) \in Seq(Session) /\ Aged(Touch(s)) = Aged(lru) \cup {s}
           /\ TouchAll(vs) \in Seq(Session) /\ Aged(TouchAll(vs)) = Aged(lru)
<1>1. Aged(lru) \subseteq Session
    BY DEF Aged
<1>2. Touch(s) \in Seq(Session) /\ Aged(Touch(s)) = Aged(lru) \cup {s}
  <2>1. Only(lru, Session \ {s}) \in Seq(Session)
        /\ Aged(Only(lru, Session \ {s})) = Aged(lru) \cap (Session \ {s})
      BY OnlyAged
  <2>2. Append(Only(lru, Session \ {s}), s) \in Seq(Session)
        /\ Aged(Append(Only(lru, Session \ {s}), s)) = Aged(Only(lru, Session \ {s})) \cup {s}
      BY <2>1, AppendAged, ZenonT(30)
  <2> QED
      BY <1>1, <2>1, <2>2 DEF Touch
<1>3. TouchAll(vs) \in Seq(Session) /\ Aged(TouchAll(vs)) = Aged(lru)
  <2> DEFINE q == Only(lru, Session \ vs)
             r == Only(lru, vs)
  <2>1. /\ q \in Seq(Session) /\ Aged(q) = Aged(lru) \cap (Session \ vs)
        /\ r \in Seq(Session) /\ Aged(r) = Aged(lru) \cap vs
      BY OnlyAged
  <2> HIDE DEF q, r
  <2>2. q \o r \in Seq(Session) /\ Aged(q \o r) = Aged(q) \cup Aged(r)
      BY <2>1, ConcatAged
  <2> QED
      BY <1>1, <2>1, <2>2 DEF TouchAll, q, r
<1> QED
    BY <1>2, <1>3

\* Ages stay known when no session is forgotten and a session that comes back
\* is touched.
LEMMA AgesKept ==
    ASSUME \A s \in Session : KnownAge(s), lru' \in Seq(Session), Aged(lru) \subseteq Aged(lru'),
           \A x \in Session : \/ rec'[x].state \in {"lost", "ended"}
                              \/ rec[x].state \notin {"lost", "ended"}
                              \/ x \in Aged(lru')
    PROVE  lru' \in Seq(Session) /\ \A x \in Session : KnownAge(x)'
<1>1. ASSUME NEW x \in Session
      PROVE  KnownAge(x)'
  <2>1. rec[x].state \notin {"lost", "ended"} => x \in Aged(lru)
      BY DEF KnownAge, Aged
  <2>2. rec'[x].state \notin {"lost", "ended"} => x \in Aged(lru')
      BY <2>1
  <2> QED
      BY <2>2 DEF KnownAge, Aged
<1> QED
    BY <1>1

-----------------------------------------------------------------------------
(* Every operation preserves the invariant.                                *)

\* Sums over what does not change.
LEMMA SameMoves == moves' = moves => \A l : MoveBytes(l)' = MoveBytes(l)
BY DEF MoveBytes
LEMMA SameExports == exports' = exports => \A l : ExportBytes(l)' = ExportBytes(l)
BY DEF ExportBytes
LEMMA SameTickets == tickets' = tickets => \A l : TicketBytes(l)' = TicketBytes(l)
BY DEF TicketBytes

\* A copy a call builds on is its session's, which is busy.
LEMMA BaseFacts ==
    ASSUME TierInv, NEW x \in Session, tickets[x] # NoTicket, tickets[x].base # NoCopy
    PROVE  /\ tickets[x].base = rec[x].primary /\ tickets[x].base \in DOMAIN copies
           /\ copies[tickets[x].base].session = x /\ copies[tickets[x].base].tier = "d"
           /\ rec[x].state \in Busy
<1>1. rec[x].primary = tickets[x].base /\ copies[tickets[x].base].tier = "d"
    BY DEF TierInv, Links, TicketMatches
<1> QED
    BY <1>1 DEF TierInv, OneAuthority

\* A ticket nobody touches stays covered.
LEMMA CoveredKept ==
    ASSUME TierInv, LedgerInv, setup' = setup, NEW x \in Session, tickets'[x] = tickets[x],
           TierInv',
           \A i \in DOMAIN copies \cap DOMAIN copies' :
               copies[i].session = x => copies'[i].bytes = copies[i].bytes,
           \A i \in DOMAIN moves' \cup DOMAIN exports' :
               \/ i \in DOMAIN moves \cup DOMAIN exports
               \/ copies[i].session # x
    PROVE  tickets'[x] # NoTicket => Covered(tickets[x])'
<1> SUFFICES ASSUME tickets'[x] # NoTicket
             PROVE  Covered(tickets[x])'
    OBVIOUS
<1> DEFINE t == tickets[x]
<1>1. Covered(t)
    BY DEF LedgerInv
<1>2. t.base # NoCopy => /\ t.base \notin DOMAIN moves' \cup DOMAIN exports'
                         /\ copies'[t.base].bytes = copies[t.base].bytes
  <2> SUFFICES ASSUME t.base # NoCopy
               PROVE  /\ t.base \notin DOMAIN moves' \cup DOMAIN exports'
                      /\ copies'[t.base].bytes = copies[t.base].bytes
      OBVIOUS
  <2>1. t.base \in DOMAIN copies /\ copies[t.base].session = x
      BY BaseFacts
  <2>2. t.base \in DOMAIN copies'
    <3>1. rec'[x].primary = tickets'[x].base
        BY DEF TierInv, Links, TicketMatches
    <3> QED
        BY <3>1 DEF TierInv, OneAuthority
  <2>3. t.base \notin DOMAIN moves \cup DOMAIN exports
      BY <1>1 DEF Covered
  <2> QED
      BY <2>1, <2>2, <2>3
<1> QED
    BY <1>1, <1>2 DEF Covered

\* When copies and transfers only go, and tickets only go or stay covered,
\* all but the ledgers and the ages is as before.
LEMMA RestKept ==
    ASSUME TierInv, LedgerInv, setup' = setup, TierInv',
           DOMAIN copies' \subseteq DOMAIN copies,
           \A i \in DOMAIN copies' : SameData(copies'[i], copies[i]),
           DOMAIN moves' \subseteq DOMAIN moves, \A c \in DOMAIN moves' : moves'[c] = moves[c],
           \A i \in DOMAIN exports' : \/ i \in DOMAIN exports
                                      \/ rec[copies[i].session].state \notin Busy,
           \A x \in Session : \/ tickets'[x] \in {tickets[x], NoTicket}
                              \/ Covered(tickets[x])'
    PROVE  /\ setup' \in Setups /\ IsFiniteSet(DOMAIN copies') /\ Sized'
           /\ \A x \in Session : tickets'[x] # NoTicket => Covered(tickets[x])'
<1>1. setup' \in Setups /\ IsFiniteSet(DOMAIN copies')
    BY FS_Subset DEF LedgerInv
<1>2. Sized'
  <2>1. DOMAIN moves' \subseteq DOMAIN copies'
      BY DEF TierInv, SourcesPinned
  <2> QED
      BY <2>1 DEF LedgerInv, Sized, SameData
<1>3. ASSUME NEW x \in Session, tickets'[x] # NoTicket
      PROVE  Covered(tickets[x])'
  <2>1. CASE Covered(tickets[x])'
      BY <2>1
  <2>2. CASE tickets'[x] = tickets[x]
    <3>1. rec[x].state \in Busy
        BY <1>3, <2>2 DEF TierInv, OneAuthority
    <3>2. \A i \in DOMAIN exports' : i \in DOMAIN exports \/ copies[i].session # x
        BY <3>1
    <3>3. \A i \in DOMAIN copies \cap DOMAIN copies' : copies'[i].bytes = copies[i].bytes
        BY DEF SameData
    <3> QED
        BY <1>3, <2>2, <3>2, <3>3, CoveredKept
  <2> QED
      BY <1>3, <2>1, <2>2
<1> QED
    BY <1>1, <1>2, <1>3

\* The bytes of the copies once some, perhaps repinned, are retired.
LEMMA RetiredWeight ==
    ASSUME TierInv, LedgerInv, NEW cs, CopyTable(cs), DOMAIN cs = DOMAIN copies,
           \A i \in DOMAIN cs : SameData(cs[i], copies[i]),
           NEW gone \in SUBSET DOMAIN copies, NEW r, r = Retire(cs, gone)
    PROVE  /\ Table(r)
           /\ DOMAIN r = DOMAIN copies \ Dying(cs, gone)
           /\ \A i \in DOMAIN r : SameData(r[i], copies[i])
           /\ \A l \in Ledgers :
                /\ Weight(r, DOMAIN r, l) = CopyBytes(l) - Weight(cs, Dying(cs, gone), l)
                /\ Weight(r, DOMAIN r, l) \in Nat /\ Weight(cs, Dying(cs, gone), l) \in Nat
                /\ CopyBytes(l) \in Nat
<1>0. Table(cs)
    BY DEF Table, LedgerInv
<1>1. /\ DOMAIN r = DOMAIN copies \ Dying(cs, gone)
      /\ \A i \in DOMAIN r : SameData(r[i], cs[i])
  <2>1. DOMAIN r = {i \in DOMAIN cs : i \in gone => Pins(cs[i]) # 0}
        /\ \A i \in DOMAIN r : SameData(r[i], cs[i])
    <3>1. DOMAIN Retire(cs, gone) = {i \in DOMAIN cs : i \in gone => Pins(cs[i]) # 0}
        BY RetireTable, ZenonT(30)
    <3>2. \A i \in DOMAIN Retire(cs, gone) : SameData(Retire(cs, gone)[i], cs[i])
        BY RetireTable
    <3> QED
        BY <3>1, <3>2
  <2> QED
      BY <2>1 DEF Dying
<1>2. \A i \in DOMAIN r : SameData(r[i], copies[i])
    BY <1>1 DEF SameData
<1>3. ASSUME NEW l \in Ledgers
      PROVE  /\ Weight(r, DOMAIN r, l) = CopyBytes(l) - Weight(cs, Dying(cs, gone), l)
             /\ Weight(r, DOMAIN r, l) \in Nat /\ Weight(cs, Dying(cs, gone), l) \in Nat
             /\ CopyBytes(l) \in Nat /\ Table(r)
  <2>1. /\ Weight(r, DOMAIN r, l) = Weight(cs, DOMAIN cs, l) - Weight(cs, Dying(cs, gone), l)
        /\ Weight(r, DOMAIN r, l) \in Nat
        /\ Weight(cs, Dying(cs, gone), l) \in Nat
        /\ Table(r)
      BY <1>0, WeightRetired
  <2>2. Weight(cs, DOMAIN copies, l) = Weight(copies, DOMAIN copies, l)
    <3>1. Table(copies)
        BY LedgerFacts
    <3>2. DOMAIN copies \in SUBSET DOMAIN copies /\ DOMAIN copies \subseteq DOMAIN cs
          /\ \A i \in DOMAIN copies : cs[i].tier = copies[i].tier /\ cs[i].bytes = copies[i].bytes
        BY DEF SameData
    <3> QED
        BY <3>1, <3>2, WeightSame
  <2>3. CopyBytes(l) \in Nat
      BY LedgerFacts
  <2> QED
      BY <2>1, <2>2, <2>3 DEF CopyBytes
<1>4. Table(r)
    BY <1>3 DEF Ledgers
<1> QED
    BY <1>1, <1>2, <1>3, <1>4

LEMMA RetiredBytes ==
    ASSUME TierInv, LedgerInv, NEW cs, CopyTable(cs), DOMAIN cs = DOMAIN copies,
           \A i \in DOMAIN cs : SameData(cs[i], copies[i]),
           NEW gone \in SUBSET DOMAIN copies, copies' = Retire(cs, gone)
    PROVE  /\ DOMAIN copies' \subseteq DOMAIN copies
           /\ \A i \in DOMAIN copies' : SameData(copies'[i], copies[i])
           /\ \A l \in Ledgers :
                /\ CopyBytes(l)' = CopyBytes(l) - Weight(cs, Dying(cs, gone), l)
                /\ CopyBytes(l)' \in Nat /\ Weight(cs, Dying(cs, gone), l) \in Nat
                /\ CopyBytes(l) \in Nat
<1>1. /\ DOMAIN copies' = DOMAIN copies \ Dying(cs, gone)
      /\ \A i \in DOMAIN copies' : SameData(copies'[i], copies[i])
      /\ \A l \in Ledgers :
           /\ Weight(copies', DOMAIN copies', l)
                 = CopyBytes(l) - Weight(cs, Dying(cs, gone), l)
           /\ Weight(copies', DOMAIN copies', l) \in Nat
           /\ Weight(cs, Dying(cs, gone), l) \in Nat /\ CopyBytes(l) \in Nat
    BY RetiredWeight
<1>2. \A l : CopyBytes(l)' = Weight(copies', DOMAIN copies', l)
    BY DEF CopyBytes
<1> QED
    BY <1>1, <1>2

\* A session that leaves or is touched.
LEMMA TouchedOne ==
    ASSUME LedgerInv, NEW s \in Session, lru' = Touch(s),
           \A x \in Session \ {s} : rec'[x] = rec[x]
    PROVE  lru' \in Seq(Session) /\ \A x \in Session : KnownAge(x)'
<1>1. lru' \in Seq(Session) /\ Aged(lru') = Aged(lru) \cup {s}
    BY TouchedAged DEF LedgerInv
<1>2. \A x \in Session : \/ rec'[x].state \in {"lost", "ended"}
                         \/ rec[x].state \notin {"lost", "ended"}
                         \/ x \in Aged(lru')
    BY <1>1
<1> QED
    BY <1>1, <1>2, AgesKept DEF LedgerInv

LEMMA SameAges ==
    ASSUME LedgerInv, lru' = lru, rec' = rec
    PROVE  lru' \in Seq(Session) /\ \A x \in Session : KnownAge(x)'
BY DEF LedgerInv, KnownAge

LEMMA SpendFacts ==
    ASSUME used \in [Ledgers -> Int], NEW k \in Ledgers, NEW n \in Int
    PROVE  /\ Spend(k, n) \in [Ledgers -> Int]
           /\ \A l \in Ledgers : Spend(k, n)[l] = used[l] + (IF l = k THEN n ELSE 0)
<1>1. used[k] + n \in Int
    OBVIOUS
<1>2. Spend(k, n) = [used EXCEPT ![k] = used[k] + n]
    BY DEF Spend
<1> HIDE DEF Spend
<1>3. Spend(k, n) \in [Ledgers -> Int]
    BY <1>1, <1>2
<1>4. ASSUME NEW l \in Ledgers
      PROVE  Spend(k, n)[l] = used[l] + (IF l = k THEN n ELSE 0)
  <2>1. CASE l = k
      BY <1>2, <2>1
  <2>2. CASE l # k
    <3>1. Spend(k, n)[l] = used[l] /\ used[l] \in Int
        BY <1>2, <2>2
    <3> QED
        BY <2>2, <3>1
  <2> QED
      BY <2>1, <2>2
<1> QED
    BY <1>3, <1>4

LEMMA DropKeepsLedgers ==
    ASSUME TierInv, LedgerInv, TierInv', NEW s \in Session, Drop(s)
    PROVE  LedgerInv'
<1> DEFINE p == rec[s].primary
<1>1. /\ rec[s].state = "d_ready"
      /\ rec' = [rec EXCEPT ![s] = Lost(rec[s])]
      /\ lru' = Touch(s)
      /\ used' = Spend("d", -copies[p].bytes)
      /\ copies' = Retire(copies, {p})
      /\ UNCHANGED <<setup, moves, tickets, exports>>
    BY DEF Drop
<1>2. p \in DOMAIN copies /\ copies[p].tier = "d" /\ Pins(copies[p]) = 0
  <2>1. rec[s].state = ReadyIn["d"] /\ "d" \in Tiers
      BY <1>1 DEF ReadyIn, Tiers
  <2> QED
      BY <1>1, <2>1, SMTT(30) DEF TierInv, OneAuthority, Links
<1>3. Dying(copies, {p}) = {p}
    BY <1>2 DEF Dying
<1>4. CopyTable(copies) /\ copies[p].bytes \in Nat
    BY <1>2, CopiesTable DEF TierInv, TierTypeOK, CopyRecords
<1> HIDE DEF p
<1>5. /\ DOMAIN copies' \subseteq DOMAIN copies
      /\ \A i \in DOMAIN copies' : SameData(copies'[i], copies[i])
      /\ \A l \in Ledgers :
           /\ CopyBytes(l)' = CopyBytes(l) - Weight(copies, {p}, l)
           /\ CopyBytes(l)' \in Nat /\ CopyBytes(l) \in Nat
  <2>1. \A i \in DOMAIN copies : SameData(copies[i], copies[i])
      BY DEF SameData
  <2>2. {p} \in SUBSET DOMAIN copies
      BY <1>2
  <2> QED
      BY <1>1, <1>3, <1>4, <2>1, <2>2, RetiredBytes
<1>6. used' \in [Ledgers -> Int] /\ LedgersBalance'
  <2>1. "d" \in Ledgers /\ -copies[p].bytes \in Int /\ used \in [Ledgers -> Int]
      BY <1>4 DEF Ledgers, Tiers, LedgerInv
  <2>2. \A l \in Ledgers : used'[l] = used[l] + (IF l = "d" THEN -copies[p].bytes ELSE 0)
      BY <1>1, <2>1, SpendFacts
  <2>3. used' \in [Ledgers -> Int]
      BY <1>1, <2>1, SpendFacts
  <2>4. ASSUME NEW l \in Ledgers
        PROVE  /\ used'[l] = CopyBytes(l)' + MoveBytes(l)' + ExportBytes(l)' + TicketBytes(l)'
               /\ used'[l] <= setup'.cap[l]
    <3>1. Weight(copies, {p}, l) = (IF l = "d" THEN copies[p].bytes ELSE 0)
        BY <1>2, <1>4, WeightOne
    <3>2. /\ (IF l = "d" THEN copies[p].bytes ELSE 0) \in Nat
          /\ (IF l = "d" THEN -copies[p].bytes ELSE 0) = -(IF l = "d" THEN copies[p].bytes ELSE 0)
        BY <1>4
    <3>3. MoveBytes(l)' = MoveBytes(l) /\ ExportBytes(l)' = ExportBytes(l)
          /\ TicketBytes(l)' = TicketBytes(l)
        BY <1>1, SameMoves, SameExports, SameTickets
    <3>4. used'[l] = used[l] - (IF l = "d" THEN copies[p].bytes ELSE 0)
        BY <2>1, <2>2, <3>2
    <3>5. CopyBytes(l)' = CopyBytes(l) - (IF l = "d" THEN copies[p].bytes ELSE 0)
        BY <1>5, <3>1
    <3>6. used[l] = CopyBytes(l) + MoveBytes(l) + ExportBytes(l) + TicketBytes(l)
          /\ used[l] <= setup.cap[l] /\ setup.cap[l] \in Nat
          /\ MoveBytes(l) \in Nat /\ ExportBytes(l) \in Nat /\ TicketBytes(l) \in Nat
        BY LedgerFacts
    <3> QED
        BY <1>1, <1>5, <3>2, <3>3, <3>4, <3>5, <3>6
  <2> QED
      BY <2>3, <2>4, StillBalanced
<1>7. /\ setup' \in Setups /\ IsFiniteSet(DOMAIN copies') /\ Sized'
      /\ \A x \in Session : tickets'[x] # NoTicket => Covered(tickets[x])'
    BY <1>1, <1>5, RestKept
<1>8. lru' \in Seq(Session) /\ \A x \in Session : KnownAge(x)'
    BY <1>1, TouchedOne
<1> QED
    BY <1>6, <1>7, <1>8 DEF LedgerInv

LEMMA ReleasePKeepsLedgers ==
    ASSUME TierInv, LedgerInv, TierInv', NEW s \in Session, ReleaseP(s)
    PROVE  LedgerInv'
<1> DEFINE old == tickets[s]
           t == [old EXCEPT !.pReleased = TRUE]
<1>1. /\ ~old.pReleased /\ rec[s].state = "active"
      /\ used' = Spend("p", -old.p)
      /\ tickets' = [tickets EXCEPT ![s] = t]
      /\ UNCHANGED <<setup, rec, lru, copies, moves, exports>>
    BY DEF ReleaseP
<1>2. old \in TicketRecords /\ old # NoTicket
    BY <1>1, NamesAssumption DEF TierInv, TierTypeOK, OneAuthority, Busy
<1>3. /\ t \in TicketRecords /\ t # NoTicket /\ t.pReleased
      /\ t.p = old.p /\ t.d = old.d /\ t.bounce = old.bounce /\ t.restored = old.restored
      /\ t.target = old.target /\ t.base = old.base /\ t.final = old.final
      /\ t.needsD = old.needsD /\ t.successor = old.successor
      /\ old.p \in Nat /\ old.d \in Nat /\ old.bounce \in Nat
  <2> HIDE DEF old
  <2>1. t \in TicketRecords /\ t.pReleased
      BY <1>2 DEF TicketRecords
  <2>2. /\ t.p = old.p /\ t.d = old.d /\ t.bounce = old.bounce /\ t.restored = old.restored
        /\ t.target = old.target /\ t.base = old.base /\ t.final = old.final
        /\ t.needsD = old.needsD /\ t.successor = old.successor
      BY <1>2 DEF TicketRecords
  <2>3. old.p \in Nat /\ old.d \in Nat /\ old.bounce \in Nat
      BY <1>2 DEF TicketRecords
  <2> QED
      BY <2>1, <2>2, <2>3, NamesAssumption
<1> HIDE DEF t
<1>4. tickets \in [Session -> TicketRecords \cup {NoTicket}]
    BY DEF TierInv, TierTypeOK
<1>5. tickets'[s] = t /\ \A x \in Session \ {s} : tickets'[x] = tickets[x]
    BY <1>1, <1>4
<1>6. Covered(tickets[s])'
  <2>1. Covered(old)
      BY <1>2 DEF LedgerInv
  <2> QED
      BY <1>1, <1>3, <1>5, <2>1 DEF Covered
<1>7. used' \in [Ledgers -> Int] /\ LedgersBalance'
  <2>1. "p" \in Ledgers /\ -old.p \in Int /\ used \in [Ledgers -> Int]
      BY <1>3 DEF Ledgers, LedgerInv
  <2>2. \A l \in Ledgers : used'[l] = used[l] + (IF l = "p" THEN -old.p ELSE 0)
      BY <1>1, <2>1, SpendFacts
  <2>3. used' \in [Ledgers -> Int]
      BY <1>1, <2>1, SpendFacts
  <2> HIDE DEF old
  <2>4. ASSUME NEW l \in Ledgers
        PROVE  /\ used'[l] = CopyBytes(l)' + MoveBytes(l)' + ExportBytes(l)' + TicketBytes(l)'
               /\ used'[l] <= setup'.cap[l]
    <3>1. TicketOwes(t, l) = TicketOwes(old, l) - (IF l = "p" THEN old.p ELSE 0)
        BY <1>1, <1>2, <1>3 DEF TicketOwes
    <3>2. /\ TicketBytes(l)' = TicketBytes(l) - TicketOwes(old, l) + TicketOwes(t, l)
          /\ TicketOwes(old, l) \in Nat /\ TicketOwes(t, l) \in Nat
        BY <1>1, <1>3, TicketChanges DEF old
    <3>3. /\ (IF l = "p" THEN old.p ELSE 0) \in Nat
          /\ (IF l = "p" THEN -old.p ELSE 0) = -(IF l = "p" THEN old.p ELSE 0)
        BY <1>3
    <3>4. MoveBytes(l)' = MoveBytes(l) /\ ExportBytes(l)' = ExportBytes(l)
          /\ CopyBytes(l)' = CopyBytes(l)
        BY <1>1, SameMoves, SameExports DEF CopyBytes
    <3> QED
        BY <1>1, <2>2, <3>1, <3>2, <3>3, <3>4, LedgerFacts
  <2> QED
      BY <2>3, <2>4, StillBalanced
<1>8. /\ setup' \in Setups /\ IsFiniteSet(DOMAIN copies') /\ Sized'
      /\ \A x \in Session : tickets'[x] # NoTicket => Covered(tickets[x])'
  <2>1. /\ DOMAIN copies' \subseteq DOMAIN copies
        /\ \A i \in DOMAIN copies' : SameData(copies'[i], copies[i])
      BY <1>1 DEF SameData
  <2>2. \A x \in Session : tickets'[x] \in {tickets[x], NoTicket} \/ Covered(tickets[x])'
      BY <1>5, <1>6
  <2> QED
      BY <1>1, <2>1, <2>2, RestKept
<1>9. lru' \in Seq(Session) /\ \A x \in Session : KnownAge(x)'
    BY <1>1, SameAges
<1> QED
    BY <1>7, <1>8, <1>9 DEF LedgerInv

LEMMA RestartEndedKeepsLedgers ==
    ASSUME TierInv, LedgerInv, TierInv', NEW s \in Session, RestartEnded(s)
    PROVE  LedgerInv'
<1>1. /\ \A x \in Session \ {s} : rec'[x] = rec[x]
      /\ lru' = Touch(s)
      /\ UNCHANGED <<setup, copies, moves, tickets, exports, used>>
    BY DEF RestartEnded, TierInv, TierTypeOK
<1>2. LedgersBalance' /\ used' \in [Ledgers -> Int]
    BY <1>1 DEF LedgerInv, LedgersBalance, Owed
<1>3. \A i \in DOMAIN copies' : SameData(copies'[i], copies[i])
    BY <1>1 DEF SameData
<1>4. /\ setup' \in Setups /\ IsFiniteSet(DOMAIN copies') /\ Sized'
      /\ \A x \in Session : tickets'[x] # NoTicket => Covered(tickets[x])'
    BY <1>1, <1>3, RestKept
<1>5. lru' \in Seq(Session) /\ \A x \in Session : KnownAge(x)'
    BY <1>1, TouchedOne
<1> QED
    BY <1>2, <1>4, <1>5 DEF LedgerInv

LEMMA EndKeepsLedgers ==
    ASSUME TierInv, LedgerInv, TierInv', NEW s \in Session, End(s)
    PROVE  LedgerInv'
<1> DEFINE gone == CopiesOf(s)
           w(l) == Weight(copies, Dying(copies, gone), l)
<1>1. /\ copies' = Retire(copies, gone)
      /\ \A x \in Session \ {s} : rec'[x] = rec[x]
      /\ lru' = Touch(s)
      /\ used' = [l \in Ledgers |-> used[l] - w(l)]
      /\ UNCHANGED <<setup, moves, tickets, exports>>
    BY DEF End, TierInv, TierTypeOK
<1>2. gone \in SUBSET DOMAIN copies /\ CopyTable(copies)
      /\ \A i \in DOMAIN copies : SameData(copies[i], copies[i])
    BY CopiesTable DEF CopiesOf, TierInv, SameData
<1> HIDE DEF gone
<1>3. /\ DOMAIN copies' \subseteq DOMAIN copies
      /\ \A i \in DOMAIN copies' : SameData(copies'[i], copies[i])
      /\ \A l \in Ledgers :
           /\ CopyBytes(l)' = CopyBytes(l) - w(l)
           /\ CopyBytes(l)' \in Nat /\ CopyBytes(l) \in Nat /\ w(l) \in Nat
    BY <1>1, <1>2, RetiredBytes
<1> HIDE DEF w
<1>4. ASSUME NEW l \in Ledgers
      PROVE  /\ used'[l] = CopyBytes(l)' + MoveBytes(l)' + ExportBytes(l)' + TicketBytes(l)'
             /\ used'[l] <= setup'.cap[l] /\ used'[l] \in Int
  <2>1. MoveBytes(l)' = MoveBytes(l) /\ ExportBytes(l)' = ExportBytes(l)
        /\ TicketBytes(l)' = TicketBytes(l)
      BY <1>1, SameMoves, SameExports, SameTickets
  <2>2. used'[l] = used[l] - w(l)
      BY <1>1
  <2> QED
      BY <1>1, <1>3, <2>1, <2>2, LedgerFacts
<1>5. used' \in [Ledgers -> Int] /\ LedgersBalance'
  <2>1. used' \in [Ledgers -> Int]
      BY <1>1, <1>4
  <2> QED
      BY <1>4, <2>1, StillBalanced
<1>6. /\ setup' \in Setups /\ IsFiniteSet(DOMAIN copies') /\ Sized'
      /\ \A x \in Session : tickets'[x] # NoTicket => Covered(tickets[x])'
    BY <1>1, <1>3, RestKept
<1>7. lru' \in Seq(Session) /\ \A x \in Session : KnownAge(x)'
    BY <1>1, TouchedOne
<1> QED
    BY <1>5, <1>6, <1>7 DEF LedgerInv

LEMMA FinishKeepsLedgers ==
    ASSUME TierInv, LedgerInv, TierInv', NEW s \in Session, Finish(s)
    PROVE  LedgerInv'
<1> DEFINE gone == CopiesOf(s)
           w(l) == Weight(copies, Dying(copies, gone), l)
           t == tickets[s]
           p(l) == IF l = "p" /\ ~t.pReleased THEN t.p ELSE 0
           d(l) == IF l = "d" THEN t.d ELSE 0
<1>1. /\ t # NoTicket /\ rec[s].state = "active"
      /\ copies' = Retire(copies, gone)
      /\ \A x \in Session \ {s} : rec'[x] = rec[x]
      /\ lru' = Touch(s)
      /\ tickets' = [tickets EXCEPT ![s] = NoTicket]
      /\ used' = [l \in Ledgers |-> used[l] - w(l) - p(l) - d(l)]
      /\ UNCHANGED <<setup, moves, exports>>
    BY DEF Finish, CommitDue, TierInv, TierTypeOK
<1>2. gone \in SUBSET DOMAIN copies /\ CopyTable(copies)
      /\ \A i \in DOMAIN copies : SameData(copies[i], copies[i])
    BY CopiesTable DEF CopiesOf, TierInv, SameData
<1>3. t \in TicketRecords /\ t.p \in Nat /\ t.d \in Nat /\ t.restored
  <2>1. t \in TicketRecords
      BY <1>1 DEF TierInv, TierTypeOK
  <2>2. ~(~t.restored)
      BY <1>1 DEF TierInv, Links, TicketMatches
  <2> QED
      BY <2>1, <2>2 DEF TicketRecords
<1> HIDE DEF gone
<1>4. /\ DOMAIN copies' \subseteq DOMAIN copies
      /\ \A i \in DOMAIN copies' : SameData(copies'[i], copies[i])
      /\ \A l \in Ledgers :
           /\ CopyBytes(l)' = CopyBytes(l) - w(l)
           /\ CopyBytes(l)' \in Nat /\ CopyBytes(l) \in Nat /\ w(l) \in Nat
    BY <1>1, <1>2, RetiredBytes
<1> HIDE DEF w
<1>5. ASSUME NEW l \in Ledgers
      PROVE  /\ used'[l] = CopyBytes(l)' + MoveBytes(l)' + ExportBytes(l)' + TicketBytes(l)'
             /\ used'[l] <= setup'.cap[l] /\ used'[l] \in Int
  <2>1. MoveBytes(l)' = MoveBytes(l) /\ ExportBytes(l)' = ExportBytes(l)
      BY <1>1, SameMoves, SameExports
  <2>2. /\ TicketBytes(l)' = TicketBytes(l) - TicketOwes(t, l) + TicketOwes(NoTicket, l)
        /\ TicketOwes(t, l) \in Nat /\ TicketOwes(NoTicket, l) = 0
      BY <1>1, TicketChanges, OwesNat
  <2>3. TicketOwes(t, l) = p(l) + d(l) /\ p(l) \in Nat /\ d(l) \in Nat
      BY <1>1, <1>3 DEF TicketOwes
  <2>5. used[l] = CopyBytes(l) + MoveBytes(l) + ExportBytes(l) + TicketBytes(l)
        /\ used[l] <= setup.cap[l] /\ setup.cap[l] \in Nat
        /\ MoveBytes(l) \in Nat /\ ExportBytes(l) \in Nat /\ TicketBytes(l) \in Nat
      BY LedgerFacts
  <2>4. used'[l] = used[l] - w(l) - p(l) - d(l)
      BY <1>1
  <2> HIDE DEF p, d
  <2> QED
      BY <1>1, <1>4, <2>1, <2>2, <2>3, <2>4, <2>5
<1>6. used' \in [Ledgers -> Int] /\ LedgersBalance'
  <2>1. used' \in [Ledgers -> Int]
      BY <1>1, <1>5
  <2> QED
      BY <1>5, <2>1, StillBalanced
<1>7. /\ setup' \in Setups /\ IsFiniteSet(DOMAIN copies') /\ Sized'
      /\ \A x \in Session : tickets'[x] # NoTicket => Covered(tickets[x])'
  <2>1. \A x \in Session : tickets'[x] \in {tickets[x], NoTicket}
      BY <1>1 DEF TierInv, TierTypeOK
  <2> QED
      BY <1>1, <1>4, <2>1, RestKept
<1>8. lru' \in Seq(Session) /\ \A x \in Session : KnownAge(x)'
    BY <1>1, TouchedOne
<1> QED
    BY <1>6, <1>7, <1>8 DEF LedgerInv

\* The bytes an export gives back when it ends.
ExportPays(c, cs, gone) ==
  used' = [l \in Ledgers |->
             used[l] - (IF l = "cpu" THEN exports[c].bytes ELSE 0)
                     - Weight(cs, Dying(cs, gone), l)]

\* An export ends, with or without its session.
LEMMA ExportReleased ==
    ASSUME TierInv, LedgerInv, TierInv', NEW c \in DOMAIN exports,
           NEW gone \in SUBSET DOMAIN copies,
           NEW cs, cs = [copies EXCEPT ![c].export = @ - 1],
           setup' = setup, moves' = moves, tickets' = tickets,
           copies' = Retire(cs, gone),
           exports' = [i \in DOMAIN exports \ {c} |-> exports[i]],
           ExportPays(c, cs, gone),
           lru' \in Seq(Session) /\ \A x \in Session : KnownAge(x)'
    PROVE  LedgerInv'
<1> DEFINE w(l) == Weight(cs, Dying(cs, gone), l)
           e(l) == IF l = "cpu" THEN exports[c].bytes ELSE 0
<1>1. /\ CopyTable(cs) /\ DOMAIN cs = DOMAIN copies
      /\ \A i \in DOMAIN cs : SameData(cs[i], copies[i])
    BY ExportUnpinned
<1>2. /\ DOMAIN copies' \subseteq DOMAIN copies
      /\ \A i \in DOMAIN copies' : SameData(copies'[i], copies[i])
      /\ \A l \in Ledgers :
           /\ CopyBytes(l)' = CopyBytes(l) - w(l)
           /\ CopyBytes(l)' \in Nat /\ CopyBytes(l) \in Nat /\ w(l) \in Nat
    BY <1>1, RetiredBytes
<1>3. \A l \in Ledgers : used'[l] = used[l] - e(l) - w(l)
    BY DEF ExportPays
<1>4. used' = [l \in Ledgers |-> used'[l]]
    BY DEF ExportPays
<1> HIDE DEF w
<1>5. ASSUME NEW l \in Ledgers
      PROVE  /\ used'[l] = CopyBytes(l)' + MoveBytes(l)' + ExportBytes(l)' + TicketBytes(l)'
             /\ used'[l] <= setup'.cap[l] /\ used'[l] \in Int
  <2>1. MoveBytes(l)' = MoveBytes(l) /\ TicketBytes(l)' = TicketBytes(l)
      BY SameMoves, SameTickets
  <2>2. /\ ExportBytes(l)' = ExportBytes(l) - e(l)
        /\ ExportBytes(l)' \in Nat /\ exports[c].bytes \in Nat
      BY ExportSettled
  <2>3. e(l) \in Nat
      BY <2>2
  <2>4. used[l] = CopyBytes(l) + MoveBytes(l) + ExportBytes(l) + TicketBytes(l)
        /\ used[l] <= setup.cap[l] /\ setup.cap[l] \in Nat
        /\ MoveBytes(l) \in Nat /\ ExportBytes(l) \in Nat /\ TicketBytes(l) \in Nat
      BY LedgerFacts
  <2>5. used'[l] = used[l] - e(l) - w(l)
      BY <1>3
  <2>6. CopyBytes(l)' = CopyBytes(l) - w(l) /\ CopyBytes(l) \in Nat /\ w(l) \in Nat
      BY <1>2
  <2>7. setup'.cap[l] = setup.cap[l]
      OBVIOUS
  <2> HIDE DEF e
  <2>8. used[l] \in Int /\ used'[l] \in Int
      BY <2>2, <2>3, <2>4, <2>5, <2>6, SMTT(30)
  <2>9. used'[l] <= used[l]
      BY <2>3, <2>5, <2>6, <2>8
  <2>10. used'[l] = CopyBytes(l)' + MoveBytes(l) + ExportBytes(l)' + TicketBytes(l)
    <3> DEFINE c0 == CopyBytes(l)  c1 == CopyBytes(l)'  m0 == MoveBytes(l)
               e0 == ExportBytes(l)  e1 == ExportBytes(l)'  t0 == TicketBytes(l)
               u0 == used[l]  u1 == used'[l]  x == e(l)  y == w(l)
    <3>1. /\ c0 \in Int /\ m0 \in Int /\ e0 \in Int /\ t0 \in Int /\ x \in Int /\ y \in Int
          /\ c1 = c0 - y /\ e1 = e0 - x /\ u0 = c0 + m0 + e0 + t0 /\ u1 = u0 - x - y
        BY <2>2, <2>3, <2>4, <2>5, <2>6
    <3> HIDE DEF c0, c1, m0, e0, e1, t0, u0, u1, x, y
    <3>2. u1 = c1 + m0 + e1 + t0
        BY <3>1
    <3> QED
        BY <3>2 DEF c0, c1, m0, e0, e1, t0, u0, u1, x, y
  <2>11. setup'.cap[l] \in Nat /\ used'[l] <= setup'.cap[l]
      BY <2>4, <2>7, <2>8, <2>9
  <2> QED
      BY <2>1, <2>8, <2>10, <2>11
<1>6. used' \in [Ledgers -> Int] /\ LedgersBalance'
  <2>1. used' \in [Ledgers -> Int]
      BY <1>4, <1>5
  <2> QED
      BY <1>5, <2>1, StillBalanced
<1>7. /\ setup' \in Setups /\ IsFiniteSet(DOMAIN copies') /\ Sized'
      /\ \A x \in Session : tickets'[x] # NoTicket => Covered(tickets[x])'
    BY <1>2, RestKept
<1> QED
    BY <1>6, <1>7 DEF LedgerInv

LEMMA StageKeepsLedgers ==
    ASSUME TierInv, LedgerInv, TierInv', NEW c \in CopyId, Stage(c)
    PROVE  LedgerInv'
<1>1. ASSUME c \in DOMAIN exports, ReleaseExport(c)
      PROVE  LedgerInv'
  <2> DEFINE cs == [copies EXCEPT ![c].export = @ - 1]
             gone == IF copies[c].retired THEN {c} ELSE {}
  <2>1. /\ copies' = Retire(cs, gone)
        /\ exports' = [i \in DOMAIN exports \ {c} |-> exports[i]]
        /\ used' = [l \in Ledgers |->
                      used[l] - (IF l = "cpu" THEN exports[c].bytes ELSE 0)
                              - Weight(cs, Dying(cs, gone), l)]
        /\ setup' = setup /\ moves' = moves /\ tickets' = tickets /\ lru' = lru /\ rec' = rec
      BY <1>1 DEF ReleaseExport
  <2>2. gone \in SUBSET DOMAIN copies
      BY <1>1 DEF TierInv, SourcesPinned
  <2>3. lru' \in Seq(Session) /\ \A x \in Session : KnownAge(x)'
      BY <2>1, SameAges
  <2> QED
      BY <1>1, <2>1, <2>2, <2>3, ExportReleased DEF ExportPays
<1>2. ASSUME c \in DOMAIN exports, NEW st, exports' = [exports EXCEPT ![c].status = st],
             UNCHANGED <<setup, rec, lru, copies, moves, tickets, used>>
      PROVE  LedgerInv'
  <2>1. setup' = setup /\ rec' = rec /\ lru' = lru /\ copies' = copies /\ moves' = moves
        /\ tickets' = tickets /\ used' = used
      BY <1>2
  <2>2. DOMAIN exports' = DOMAIN exports
        /\ \A i \in DOMAIN exports : exports'[i].bytes = exports[i].bytes
    <3>1. exports' = [exports EXCEPT ![c] = [exports[c] EXCEPT !.status = st]]
        BY <1>2
    <3>2. [exports[c] EXCEPT !.status = st].bytes = exports[c].bytes
        BY <1>2 DEF TierInv, TierTypeOK
    <3> QED
        BY <3>1, <3>2
  <2>3. ASSUME NEW l \in Ledgers
        PROVE  /\ used'[l] = CopyBytes(l)' + MoveBytes(l)' + ExportBytes(l)' + TicketBytes(l)'
               /\ used'[l] <= setup'.cap[l]
    <3>1. MoveBytes(l)' = MoveBytes(l) /\ TicketBytes(l)' = TicketBytes(l)
          /\ ExportBytes(l)' = ExportBytes(l) /\ CopyBytes(l)' = CopyBytes(l)
        BY <2>1, <2>2, SameMoves, SameTickets, ExportsCountBytes DEF CopyBytes
    <3> QED
        BY <2>1, <3>1, LedgerFacts
  <2>4. used' \in [Ledgers -> Int] /\ LedgersBalance'
      BY <2>1, <2>3, StillBalanced DEF LedgerInv
  <2>5. /\ setup' \in Setups /\ IsFiniteSet(DOMAIN copies') /\ Sized'
        /\ \A x \in Session : tickets'[x] # NoTicket => Covered(tickets[x])'
    <3>1. \A i \in DOMAIN copies' : SameData(copies'[i], copies[i])
        BY <2>1 DEF SameData
    <3> QED
        BY <2>1, <2>2, <3>1, RestKept
  <2>6. lru' \in Seq(Session) /\ \A x \in Session : KnownAge(x)'
      BY <2>1, SameAges
  <2> QED
      BY <2>4, <2>5, <2>6 DEF LedgerInv
<1>3. ASSUME FinishExport(c)
      PROVE  LedgerInv'
  <2> DEFINE s == exports[c].session
             cs == [copies EXCEPT ![c].export = @ - 1]
             gone == CopiesOf(s)
  <2>1. /\ c \in DOMAIN exports
        /\ copies' = Retire(cs, gone)
        /\ rec' = [rec EXCEPT ![s] = Overtaken(Now(rec[s], "ended", NoCopy, 0))]
        /\ lru' = Touch(s)
        /\ used' = [l \in Ledgers |->
                      used[l] - (IF l = "cpu" THEN exports[c].bytes ELSE 0)
                              - Weight(cs, Dying(cs, gone), l)]
        /\ exports' = [i \in DOMAIN exports \ {c} |-> exports[i]]
        /\ setup' = setup /\ moves' = moves /\ tickets' = tickets
      BY <1>3 DEF FinishExport
  <2>2. s \in Session /\ gone \in SUBSET DOMAIN copies
        /\ \A x \in Session \ {s} : rec'[x] = rec[x]
      BY <2>1 DEF TierInv, TierTypeOK, CopiesOf
  <2>3. lru' \in Seq(Session) /\ \A x \in Session : KnownAge(x)'
      BY <2>1, <2>2, TouchedOne
  <2> HIDE DEF gone, s
  <2> QED
      BY <2>1, <2>2, <2>3, ExportReleased DEF ExportPays
<1> QED
    BY <1>1, <1>2, <1>3 DEF Stage, CompleteExport, AbortExport

LEMMA BeginExportKeepsLedgers ==
    ASSUME TierInv, LedgerInv, TierInv', NEW s \in Session, BeginExport(s)
    PROVE  LedgerInv'
<1> DEFINE c == rec[s].primary
           e == [session |-> s, status |-> "running", version |-> rec[s].version,
                 generation |-> rec[s].generation, tokens |-> copies[c].tokens,
                 bytes |-> copies[c].bytes]
           n == copies[c].bytes
<1>1. /\ rec[s].state = "ssd_ready" /\ copies[c].export = 0
      /\ Free("cpu") >= n
      /\ copies' = [copies EXCEPT ![c].export = @ + 1]
      /\ exports' = [i \in DOMAIN exports \cup {c} |-> IF i = c THEN e ELSE exports[i]]
      /\ used' = Spend("cpu", n)
      /\ setup' = setup /\ rec' = rec /\ lru' = lru /\ moves' = moves /\ tickets' = tickets
    BY DEF BeginExport
<1>2. rec[s].state = ReadyIn["ssd"] /\ "ssd" \in Tiers
    BY <1>1 DEF ReadyIn, Tiers
<1>3. c \in DOMAIN copies /\ copies[c] \in CopyRecords /\ copies[c].session = s /\ n \in Nat
    BY <1>2, IdleCopy DEF CopyRecords
<1>4. c \notin DOMAIN exports
    BY <1>1, <1>3 DEF TierInv, SourcesPinned
<1>5. rec[s].state \notin Busy /\ e.bytes = n
    BY <1>1 DEF Busy
<1>6. /\ DOMAIN copies' = DOMAIN copies
      /\ \A i \in DOMAIN copies' : SameData(copies'[i], copies[i])
  <2>1. SameData([copies[c] EXCEPT !.export = @ + 1], copies[c])
      BY <1>3 DEF CopyRecords, SameData
  <2>2. /\ DOMAIN copies' = DOMAIN copies
        /\ copies'[c] = [copies[c] EXCEPT !.export = @ + 1]
        /\ \A i \in DOMAIN copies \ {c} : copies'[i] = copies[i]
      BY <1>1, <1>3
  <2>3. \A x : SameData(x, x)
      BY DEF SameData
  <2> HIDE DEF c
  <2> QED
      BY <2>1, <2>2, <2>3
<1>7. \A l \in Ledgers : CopyBytes(l)' = CopyBytes(l)
  <2> SUFFICES ASSUME NEW l \in Ledgers PROVE CopyBytes(l)' = CopyBytes(l)
      OBVIOUS
  <2>1. Table(copies)
      BY LedgerFacts
  <2>2. DOMAIN copies \in SUBSET DOMAIN copies /\ DOMAIN copies \subseteq DOMAIN copies'
        /\ \A i \in DOMAIN copies :
             copies'[i].tier = copies[i].tier /\ copies'[i].bytes = copies[i].bytes
      BY <1>6 DEF SameData
  <2>3. Weight(copies', DOMAIN copies, l) = Weight(copies, DOMAIN copies, l)
      BY <2>1, <2>2, WeightSame
  <2> QED
      BY <1>6, <2>3 DEF CopyBytes
<1> HIDE DEF e, n
<1>8. /\ used' \in [Ledgers -> Int]
      /\ \A l \in Ledgers : used'[l] = used[l] + (IF l = "cpu" THEN n ELSE 0)
  <2>1. "cpu" \in Ledgers /\ n \in Int /\ used \in [Ledgers -> Int]
      BY <1>3 DEF Ledgers, Tiers, LedgerInv
  <2> QED
      BY <1>1, <2>1, SpendFacts
<1>9. ASSUME NEW l \in Ledgers
      PROVE  /\ used'[l] = CopyBytes(l)' + MoveBytes(l)' + ExportBytes(l)' + TicketBytes(l)'
             /\ used'[l] <= setup'.cap[l]
  <2>1. MoveBytes(l)' = MoveBytes(l) /\ TicketBytes(l)' = TicketBytes(l)
      BY <1>1, SameMoves, SameTickets
  <2>2. ExportBytes(l)' = ExportBytes(l) + (IF l = "cpu" THEN n ELSE 0)
      BY <1>1, <1>3, <1>4, <1>5, ExportStarts
  <2>3. used[l] = CopyBytes(l) + MoveBytes(l) + ExportBytes(l) + TicketBytes(l)
        /\ used[l] <= setup.cap[l] /\ setup.cap[l] \in Nat /\ CopyBytes(l) \in Nat
        /\ MoveBytes(l) \in Nat /\ ExportBytes(l) \in Nat /\ TicketBytes(l) \in Nat
      BY LedgerFacts
  <2>4. l = "cpu" => used[l] + n <= setup.cap[l]
      BY <1>1, <1>3, <2>3 DEF Free
  <2>5. CASE l = "cpu"
      BY <1>1, <1>3, <1>7, <1>8, <2>1, <2>2, <2>3, <2>4, <2>5
  <2>6. CASE l # "cpu"
      BY <1>1, <1>3, <1>7, <1>8, <2>1, <2>2, <2>3, <2>6
  <2> QED
      BY <2>5, <2>6
<1>10. LedgersBalance'
    BY <1>9, StillBalanced
<1>11. /\ setup' \in Setups /\ IsFiniteSet(DOMAIN copies') /\ Sized'
       /\ \A x \in Session : tickets'[x] # NoTicket => Covered(tickets[x])'
  <2>1. \A i \in DOMAIN exports' : \/ i \in DOMAIN exports
                                   \/ rec[copies[i].session].state \notin Busy
      BY <1>1, <1>3, <1>5
  <2> QED
      BY <1>1, <1>6, <2>1, RestKept
<1>12. lru' \in Seq(Session) /\ \A x \in Session : KnownAge(x)'
    BY <1>1, SameAges
<1> QED
    BY <1>8, <1>10, <1>11, <1>12 DEF LedgerInv

-----------------------------------------------------------------------------
(* Evictions and demotions.                                                *)

\* The least recently used sessions that make room do make it.
LEMMA VictimsMakeRoom ==
    ASSUME LedgerInv, NEW tier \in Tiers, NEW spared, NEW need, CanEvict(tier, spared, need)
    PROVE  FreeWithout(Victims(tier, spared, need), tier) >= need
<1> DEFINE oldest(n) == Eligible(tier, spared) \cap {lru[k] : k \in 1..n}
           S == {n \in 0..Len(lru) : FreeWithout(oldest(n), tier) >= need}
<1>1. lru \in Seq(Session) /\ Len(lru) \in Nat /\ DOMAIN lru = 1..Len(lru)
    BY DEF LedgerInv
<1>2. Eligible(tier, spared) \subseteq {lru[k] : k \in 1..Len(lru)}
  <2> SUFFICES ASSUME NEW s \in Eligible(tier, spared)
               PROVE  s \in {lru[k] : k \in 1..Len(lru)}
      OBVIOUS
  <2>1. s \in Session /\ rec[s].state \notin {"lost", "ended"}
      BY DEF Eligible, ReadyIn, Tiers
  <2>2. PICK n \in DOMAIN lru : lru[n] = s
      BY <2>1 DEF LedgerInv, KnownAge
  <2> QED
      BY <1>1, <2>2
<1>3. oldest(Len(lru)) = Eligible(tier, spared)
    BY <1>2
<1>4. Len(lru) \in S
  <2>1. FreeWithout(oldest(Len(lru)), tier) >= need
      BY <1>3 DEF CanEvict
  <2>2. Len(lru) \in 0..Len(lru)
      BY <1>1
  <2> QED
      BY <2>1, <2>2
<1>5. S \in SUBSET Nat
    OBVIOUS
<1>6. Victims(tier, spared, need) = oldest(Min(S))
    BY DEF Victims
<1>7. Min(S) \in S
  <2> HIDE DEF S
  <2>1. \E x \in S : \A y \in S : x <= y
      BY <1>4, <1>5, LeastMember
  <2> QED
      BY <2>1 DEF Min
<1>8. FreeWithout(oldest(Min(S)), tier) >= need
    BY <1>7
<1> QED
    BY <1>6, <1>8

\* A demotion reserves what its copy will have below.
LEMMA AggregateBytes ==
    ASSUME TierInv, LedgerInv, NEW s \in Session, rec[s].state \in {"d_ready", "cpu_ready"},
           NEW dest \in {"cpu", "ssd"}
    PROVE  Aggregate(s) = BytesOn(dest, copies[rec[s].primary].tokens)
<1> DEFINE c == copies[rec[s].primary]
           n == (c.tokens + Block - 1) \div Block
<1>1. PICK tier \in {"d", "cpu"} : rec[s].state = ReadyIn[tier]
    BY DEF ReadyIn, Tiers
<1>2. rec[s].primary \in DOMAIN copies /\ c \in CopyRecords /\ c.tier = tier
    BY <1>1, IdleCopy DEF Tiers
<1>3. c.bytes = BytesOn(tier, c.tokens) /\ c.tokens \in Nat
    BY <1>2 DEF LedgerInv, Sized, CopyRecords
<1>4. n \in Nat
  <2>1. c.tokens + Block - 1 \in Nat /\ Block \in Nat \ {0}
      BY <1>3, SizesAssumption
  <2> QED
      BY <2>1, DivNat
<1>5. /\ BytesOn("d", c.tokens) = n * 1 /\ BytesOn("cpu", c.tokens) = n * Tp
      /\ BytesOn("ssd", c.tokens) = n * Tp
    BY DEF BytesOn
<1>6. Aggregate(s) = IF tier = "d" THEN Tp * c.bytes ELSE c.bytes
    BY <1>2 DEF Aggregate
<1> HIDE DEF n, c
<1>7. n * 1 = n /\ n * Tp = Tp * n
    BY <1>4, SizesAssumption
<1>8. CASE tier = "d"
    BY <1>3, <1>5, <1>6, <1>7, <1>8 DEF c
<1>9. CASE tier = "cpu"
    BY <1>3, <1>5, <1>6, <1>7, <1>9 DEF c
<1> QED
    BY <1>8, <1>9

\* The copies idle sessions lose to an eviction are all on the tier evicted.
LEMMA OustedWeight ==
    ASSUME TierInv, LedgerInv, NEW tier \in Tiers, NEW spared,
           NEW vs, vs \subseteq Eligible(tier, spared)
    PROVE  /\ Ousted(vs) \in SUBSET DOMAIN copies
           /\ \A l \in Ledgers : Weight(copies, Ousted(vs), l) \in Nat
           /\ \A l \in Ledgers \ {tier} : Weight(copies, Ousted(vs), l) = 0
<1>1. Ousted(vs) \in SUBSET DOMAIN copies
    BY OustedFacts DEF Unread
<1>2. Table(copies)
    BY CopiesTable DEF Table, TierInv, LedgerInv
<1>3. \A l \in Ledgers : Weight(copies, Ousted(vs), l) \in Nat
    BY <1>1, <1>2, WeightParts
<1>4. \A i \in Ousted(vs) : copies[i].tier = tier
  <2> SUFFICES ASSUME NEW i \in Ousted(vs) PROVE copies[i].tier = tier
      OBVIOUS
  <2>1. PICK v \in vs : i = rec[v].primary
      BY DEF Ousted
  <2>2. v \in Session /\ rec[v].state = ReadyIn[tier]
      BY <2>1 DEF Eligible
  <2> QED
      BY <2>1, <2>2, IdleCopy
<1>5. ASSUME NEW l \in Ledgers \ {tier}
      PROVE  Weight(copies, Ousted(vs), l) = 0
  <2>1. \A i \in Ousted(vs) : copies[i].tier # l
      BY <1>4
  <2> QED
      BY <1>1, <1>2, <2>1, WeightElsewhere
<1> QED
    BY <1>1, <1>3, <1>5

LEMMA StartMoveKeepsLedgers ==
    ASSUME TierInv, LedgerInv, TierInv',
           NEW s \in Session, NEW dest \in {"cpu", "ssd"}, NEW bounce \in Nat,
           NEW state \in Demoting, NEW spared, s \in spared,
           NEW vs, vs \subseteq Eligible("ssd", spared),
           rec[s].state \in {"d_ready", "cpu_ready"},
           dest = "ssd" => FreeWithout(vs, "ssd") >= Aggregate(s) /\ Free("cpu") >= bounce,
           dest = "cpu" => Free("cpu") >= Aggregate(s) /\ bounce = 0 /\ vs = {},
           StartMove(s, dest, bounce, state, vs)
    PROVE  LedgerInv'
<1> DEFINE c == rec[s].primary
           n == Aggregate(s)
           kept == [i \in DOMAIN copies \ Ousted(vs) |-> copies[i]]
           w(l) == Weight(copies, Ousted(vs), l)
           m == [session |-> s, dest |-> dest, bytes |-> n, bounce |-> bounce,
                 version |-> rec[s].version, generation |-> rec[s].generation]
<1>1. /\ copies' = [kept EXCEPT ![c].demotion = @ + 1]
      /\ rec' = [WithoutSessions(vs) EXCEPT ![s] = Now(rec[s], state, c, rec[s].tokens)]
      /\ lru' = TouchAll(vs)
      /\ moves' = [i \in DOMAIN moves \cup {c} |-> IF i = c THEN m ELSE moves[i]]
      /\ used' = [l \in Ledgers |-> used[l] - (IF l = "ssd" THEN w("ssd") ELSE 0)
                                            + (IF l = dest THEN n ELSE 0)
                                            + (IF l = "cpu" THEN bounce ELSE 0)]
      /\ setup' = setup /\ tickets' = tickets /\ exports' = exports
    BY DEF StartMove
<1>2. PICK tier \in {"d", "cpu"} : rec[s].state = ReadyIn[tier]
    BY DEF ReadyIn
<1>3. c \in DOMAIN copies /\ c \in CopyId /\ copies[c] \in CopyRecords /\ copies[c].session = s
    BY <1>2, IdleCopy DEF Tiers
<1>4. c \notin DOMAIN moves
  <2>1. Pins(copies[c]) = 0
      BY DEF TierInv, Links
  <2>2. copies[c].demotion = 0
      BY <1>3, <2>1 DEF Pins, CopyRecords
  <2> QED
      BY <1>3, <2>2 DEF TierInv, SourcesPinned
<1>5. n \in Nat /\ n = BytesOn(dest, copies[c].tokens)
    BY AggregateNat, AggregateBytes
<1>6. "ssd" \in Tiers /\ Unread("ssd", spared, vs)
    BY OustedFacts DEF Tiers
<1>7. /\ Ousted(vs) \in SUBSET DOMAIN copies
      /\ \A l \in Ledgers : w(l) \in Nat
      /\ \A l \in Ledgers \ {"ssd"} : w(l) = 0
    BY <1>6, OustedWeight
<1>8. c \notin Ousted(vs) /\ s \notin vs /\ vs \subseteq Session
    BY <1>3, <1>6 DEF Unread
<1>9. /\ DOMAIN copies' = DOMAIN copies \ Ousted(vs)
      /\ \A i \in DOMAIN copies' : SameData(copies'[i], copies[i])
  <2>1. SameData([copies[c] EXCEPT !.demotion = @ + 1], copies[c])
      BY <1>3 DEF CopyRecords, SameData
  <2>2. DOMAIN kept = DOMAIN copies \ Ousted(vs) /\ \A i \in DOMAIN kept : kept[i] = copies[i]
      OBVIOUS
  <2> HIDE DEF kept
  <2>3. /\ DOMAIN copies' = DOMAIN kept
        /\ copies'[c] = [copies[c] EXCEPT !.demotion = @ + 1]
        /\ \A i \in DOMAIN kept \ {c} : copies'[i] = kept[i]
      BY <1>1, <1>3, <1>8, <2>2
  <2>4. \A x : SameData(x, x)
      BY DEF SameData
  <2> HIDE DEF c
  <2> QED
      BY <2>1, <2>2, <2>3, <2>4
<1> HIDE DEF kept
<1>10. ASSUME NEW l \in Ledgers
       PROVE  CopyBytes(l)' = CopyBytes(l) - w(l) /\ CopyBytes(l)' \in Nat
  <2>1. Table(copies)
      BY LedgerFacts
  <2>2. \A i \in DOMAIN copies' :
          copies'[i].tier = copies[i].tier /\ copies'[i].bytes = copies[i].bytes
      BY <1>9 DEF SameData
  <2>3. Ousted(vs) \in SUBSET DOMAIN copies /\ DOMAIN copies' = DOMAIN copies \ Ousted(vs)
      BY <1>7, <1>9
  <2>4. /\ Weight(copies', DOMAIN copies', l)
             = Weight(copies, DOMAIN copies, l) - Weight(copies, Ousted(vs), l)
        /\ Weight(copies', DOMAIN copies', l) \in Nat
    <3> HIDE DEF w, c, n, m
    <3> QED
        BY <2>1, <2>2, <2>3, WeightWithout
  <2> QED
      BY <2>4 DEF CopyBytes
<1>11. m.dest = dest /\ m.bytes = n /\ m.bounce = bounce /\ m.session = s
    OBVIOUS
<1> HIDE DEF m
<1>12. \A l \in Ledgers : MoveBytes(l)' = MoveBytes(l) + MoveOwes(m, l)
    BY <1>1, <1>4, <1>5, <1>11, MoveStarts
<1>13. dest = "ssd" => Free("ssd") + w("ssd") >= n
    BY DEF FreeWithout
<1> HIDE DEF n, w, c
<1>14. ASSUME NEW l \in Ledgers
       PROVE  /\ used'[l] = CopyBytes(l)' + MoveBytes(l)' + ExportBytes(l)' + TicketBytes(l)'
              /\ used'[l] <= setup'.cap[l] /\ used'[l] \in Int
  <2>1. TicketBytes(l)' = TicketBytes(l) /\ ExportBytes(l)' = ExportBytes(l)
      BY <1>1, SameTickets, SameExports
  <2>2. MoveOwes(m, l) = (IF l = dest THEN n ELSE 0) + (IF l = "cpu" THEN bounce ELSE 0)
      BY <1>11 DEF MoveOwes
  <2>3. used[l] = CopyBytes(l) + MoveBytes(l) + ExportBytes(l) + TicketBytes(l)
        /\ used[l] <= setup.cap[l] /\ setup.cap[l] \in Nat /\ CopyBytes(l) \in Nat
        /\ MoveBytes(l) \in Nat /\ ExportBytes(l) \in Nat /\ TicketBytes(l) \in Nat
      BY LedgerFacts
  <2>4. /\ CopyBytes(l)' = CopyBytes(l) - w(l) /\ w(l) \in Nat /\ (l # "ssd" => w(l) = 0)
        /\ MoveBytes(l)' = MoveBytes(l) + MoveOwes(m, l)
      BY <1>7, <1>10, <1>12
  <2>5. used'[l] = used[l] - (IF l = "ssd" THEN w("ssd") ELSE 0)
                           + (IF l = dest THEN n ELSE 0) + (IF l = "cpu" THEN bounce ELSE 0)
      BY <1>1
  <2>6. used'[l] = used[l] - w(l) + MoveOwes(m, l)
    <3>1. CASE l = "ssd"
        BY <1>5, <2>2, <2>3, <2>4, <2>5, <3>1
    <3>2. CASE l # "ssd"
        BY <1>5, <2>2, <2>3, <2>4, <2>5, <3>2
    <3> QED
        BY <3>1, <3>2
  <2>7. MoveOwes(m, l) \in Nat
      BY <1>5, <2>2
  <2>8. used[l] - w(l) + MoveOwes(m, l) <= setup.cap[l]
    <3>1. Free(l) = setup.cap[l] - used[l]
        BY DEF Free
    <3>2. CASE l = dest /\ l = "ssd"
      <4>1. MoveOwes(m, l) = n
          BY <1>5, <2>2, <3>2
      <4> QED
          BY <1>5, <1>13, <2>3, <2>4, <3>1, <3>2, <4>1
    <3>3. CASE l = dest /\ l = "cpu"
      <4>1. MoveOwes(m, l) = n /\ Free(l) >= n
          BY <1>5, <2>2, <3>3 DEF n
      <4> QED
          BY <1>5, <2>3, <2>4, <3>1, <3>3, <4>1
    <3>4. CASE l # dest /\ l = "cpu"
      <4>1. MoveOwes(m, l) = bounce /\ Free(l) >= bounce
          BY <2>2, <3>4
      <4> QED
          BY <2>3, <2>4, <3>1, <3>4, <4>1
    <3>5. CASE l # dest /\ l # "cpu"
      <4>1. MoveOwes(m, l) = 0
          BY <2>2, <3>5
      <4> QED
          BY <2>3, <2>4, <4>1
    <3> QED
        BY <3>2, <3>3, <3>4, <3>5
  <2> QED
      BY <1>1, <2>1, <2>3, <2>4, <2>6, <2>7, <2>8
<1>15. used' \in [Ledgers -> Int] /\ LedgersBalance'
  <2>1. used' \in [Ledgers -> Int]
      BY <1>1, <1>14
  <2> QED
      BY <1>14, <2>1, StillBalanced
<1>16. setup' \in Setups /\ IsFiniteSet(DOMAIN copies')
    BY <1>1, <1>9, FS_Subset DEF LedgerInv
<1>17. DOMAIN moves' = DOMAIN moves \cup {c} /\ moves'[c] = m
       /\ \A i \in DOMAIN moves : moves'[i] = moves[i]
    BY <1>1, <1>4
<1>18. Sized'
  <2>1. DOMAIN moves' \subseteq DOMAIN copies'
      BY DEF TierInv, SourcesPinned
  <2>2. \A i \in DOMAIN copies' : copies'[i].bytes = BytesOn(copies'[i].tier, copies'[i].tokens)
      BY <1>9 DEF LedgerInv, Sized, SameData
  <2>3. ASSUME NEW i \in DOMAIN moves'
        PROVE  /\ moves'[i].dest \in {"cpu", "ssd"}
               /\ moves'[i].bytes = BytesOn(moves'[i].dest, copies'[i].tokens)
    <3>1. copies'[i].tokens = copies[i].tokens
        BY <1>9, <2>1 DEF SameData
    <3>2. CASE i = c
        BY <1>5, <1>11, <1>17, <3>1, <3>2
    <3>3. CASE i # c
        BY <1>17, <3>1, <3>3 DEF LedgerInv, Sized
    <3> QED
        BY <3>2, <3>3
  <2> QED
      BY <2>2, <2>3 DEF Sized
<1>19. \A x \in Session : tickets'[x] # NoTicket => Covered(tickets[x])'
  <2> SUFFICES ASSUME NEW x \in Session, tickets'[x] # NoTicket
               PROVE  Covered(tickets[x])'
      OBVIOUS
  <2>1. x # s
      BY <1>1, IdleHasNoTicket DEF Busy
  <2>2. \A i \in DOMAIN copies \cap DOMAIN copies' : copies'[i].bytes = copies[i].bytes
      BY <1>9 DEF SameData
  <2>3. \A i \in DOMAIN moves' \cup DOMAIN exports' :
          i \in DOMAIN moves \cup DOMAIN exports \/ copies[i].session # x
      BY <1>1, <1>3, <1>17, <2>1
  <2> QED
      BY <1>1, <2>2, <2>3, CoveredKept
<1>20. lru' \in Seq(Session) /\ \A x \in Session : KnownAge(x)'
  <2>1. lru' \in Seq(Session) /\ Aged(lru') = Aged(lru)
      BY <1>1, TouchedAged DEF LedgerInv
  <2>2. \A x \in Session : \/ rec'[x].state \in {"lost", "ended"}
                           \/ rec[x].state \notin {"lost", "ended"}
    <3> SUFFICES ASSUME NEW x \in Session
                 PROVE  \/ rec'[x].state \in {"lost", "ended"}
                        \/ rec[x].state \notin {"lost", "ended"}
        OBVIOUS
    <3>1. CASE x = s
        BY <3>1
    <3>2. CASE x # s
      <4>1. rec'[x] = WithoutSessions(vs)[x]
          BY <1>1, <3>2
      <4>2. (x \notin vs => WithoutSessions(vs)[x] = rec[x])
            /\ (x \in vs => WithoutSessions(vs)[x].state = "lost")
          BY <1>8, WithoutFacts DEF TierInv
      <4> QED
          BY <4>1, <4>2
    <3> QED
        BY <3>1, <3>2
  <2> QED
      BY <2>1, <2>2, AgesKept DEF LedgerInv
<1> QED
    BY <1>15, <1>16, <1>18, <1>19, <1>20 DEF LedgerInv

LEMMA CompleteMoveKeepsLedgers ==
    ASSUME TierInv, LedgerInv, TierInv', NEW c \in CopyId, NEW id \in FreshCopies,
           CompleteMove(c, id)
    PROVE  LedgerInv'
<1> DEFINE m == moves[c]
           src == copies[c]
           new == NewCopy(m.session, m.dest, src.version, src.generation, src.tokens)
           cs == [copies EXCEPT ![c].demotion = @ - 1]
           gone == IF Spent(c) THEN {c} ELSE {}
           left == Retire(cs, gone)
           freed == IF c \in DOMAIN left THEN 0 ELSE src.bytes
           ready == Now(rec[m.session], ReadyIn[m.dest], id, src.tokens)
           wanted == StillWanted(c)
           w(l) == Weight(cs, Dying(cs, gone), l)
           got(l) == IF l = m.dest /\ wanted THEN new.bytes ELSE 0
           lost(l) == IF l = src.tier THEN freed ELSE 0
<1>1. /\ c \in DOMAIN moves
      /\ copies' = IF wanted THEN [i \in DOMAIN left \cup {id} |-> IF i = id THEN new ELSE left[i]]
                   ELSE left
      /\ rec' = IF wanted THEN [rec EXCEPT ![m.session] = ready] ELSE rec
      /\ used' = [l \in Ledgers |-> used[l] - lost(l) - (IF l = m.dest THEN m.bytes ELSE 0)
                                            + got(l) - (IF l = "cpu" THEN m.bounce ELSE 0)]
      /\ moves' = [i \in DOMAIN moves \ {c} |-> moves[i]]
      /\ setup' = setup /\ lru' = lru /\ tickets' = tickets /\ exports' = exports
    BY DEF CompleteMove
<1>2. /\ c \in DOMAIN copies /\ src \in CopyRecords /\ m.session \in Session /\ m.dest \in Tiers
      /\ m.bytes \in Nat /\ m.bounce \in Nat
    BY <1>1 DEF TierInv, TierTypeOK, SourcesPinned
<1>3. /\ m.dest \in {"cpu", "ssd"} /\ m.bytes = BytesOn(m.dest, src.tokens)
    BY <1>1 DEF LedgerInv, Sized
<1>4. /\ new \in CopyRecords /\ new.tier = m.dest /\ new.bytes = m.bytes
      /\ new.tokens = src.tokens
  <2>1. src.version \in Nat /\ src.generation \in Nat /\ src.tokens \in Nat
      BY <1>2 DEF CopyRecords
  <2>2. Fresh(new, m.session, m.dest, src.version, src.tokens)
      BY <1>2, <2>1, NewCopyFacts
  <2>3. new.bytes = BytesOn(m.dest, src.tokens)
      BY DEF NewCopy
  <2> QED
      BY <1>3, <2>2, <2>3 DEF Fresh
<1>5. id \in CopyId /\ id \notin DOMAIN copies
    BY DEF FreshCopies
<1>6. /\ CopyTable(cs) /\ DOMAIN cs = DOMAIN copies
      /\ \A i \in DOMAIN cs \ {c} : cs[i] = copies[i]
      /\ SameData(cs[c], copies[c])
    BY <1>1, MoveUnpinned
<1>7. \A i \in DOMAIN cs : SameData(cs[i], copies[i])
  <2>1. \A x : SameData(x, x)
      BY DEF SameData
  <2> HIDE DEF cs
  <2> QED
      BY <1>6, <2>1
<1>8. gone \in SUBSET DOMAIN copies
    BY <1>2
<1> HIDE DEF cs, ready, new
<1>9. /\ Table(left) /\ DOMAIN left = DOMAIN copies \ Dying(cs, gone)
      /\ \A i \in DOMAIN left : SameData(left[i], copies[i])
      /\ \A l \in Ledgers :
           /\ Weight(left, DOMAIN left, l) = CopyBytes(l) - w(l)
           /\ Weight(left, DOMAIN left, l) \in Nat /\ w(l) \in Nat /\ CopyBytes(l) \in Nat
  <2> HIDE DEF gone
  <2> QED
      BY <1>6, <1>7, <1>8, RetiredWeight
<1>10. \A l \in Ledgers : w(l) = lost(l)
  <2> SUFFICES ASSUME NEW l \in Ledgers PROVE w(l) = lost(l)
      OBVIOUS
  <2>1. Dying(cs, gone) \subseteq {c}
      BY DEF Dying
  <2>2. CASE c \in DOMAIN left
    <3>1. Dying(cs, gone) = {}
        BY <1>9, <2>1, <2>2
    <3> QED
        BY <2>2, <3>1, WeightNone
  <2>3. CASE c \notin DOMAIN left
    <3>1. Dying(cs, gone) = {c}
        BY <1>2, <1>9, <2>1, <2>3
    <3>2. Weight(cs, {c}, l) = (IF cs[c].tier = l THEN cs[c].bytes ELSE 0)
        BY <1>2, <1>6, WeightOne
    <3>3. cs[c].tier = src.tier /\ cs[c].bytes = src.bytes
        BY <1>6 DEF SameData
    <3> QED
        BY <2>3, <3>1, <3>2, <3>3
  <2> QED
      BY <2>2, <2>3
<1> HIDE DEF left, gone, w, lost
<1>11. /\ DOMAIN copies' = IF wanted THEN DOMAIN left \cup {id} ELSE DOMAIN left
       /\ \A i \in DOMAIN left : i \in DOMAIN copies' /\ copies'[i] = left[i]
       /\ wanted => copies'[id] = new
    BY <1>1, <1>5, <1>9
<1>12. \A i \in DOMAIN copies' : i \in DOMAIN left \/ (wanted /\ i = id)
    BY <1>11
<1>13. ASSUME NEW l \in Ledgers
       PROVE  CopyBytes(l)' = CopyBytes(l) - w(l) + got(l) /\ IsFiniteSet(DOMAIN copies')
  <2>1. CASE wanted
    <3>1. CopyTable(copies')
        BY CopiesTable DEF TierInv, TierTypeOK, CopyTable
    <3>2. id \notin DOMAIN left /\ DOMAIN copies' = DOMAIN left \cup {id}
        BY <1>5, <1>9, <1>11, <2>1
    <3>3. \A i \in DOMAIN left : copies'[i].tier = left[i].tier /\ copies'[i].bytes = left[i].bytes
        BY <1>11
    <3>4. /\ Weight(copies', DOMAIN copies', l)
                = Weight(left, DOMAIN left, l) + (IF copies'[id].tier = l THEN copies'[id].bytes ELSE 0)
          /\ IsFiniteSet(DOMAIN copies')
      <4>1. Table(left)
          BY <1>9
      <4> HIDE DEF got, wanted
      <4> QED
          BY <3>1, <3>2, <3>3, <4>1, WeightWith
    <3>5. (IF copies'[id].tier = l THEN copies'[id].bytes ELSE 0) = got(l)
        BY <1>4, <1>11, <2>1
    <3> QED
        BY <1>9, <3>4, <3>5 DEF CopyBytes
  <2>2. CASE ~wanted
    <3>1. copies' = left /\ got(l) = 0
        BY <1>1, <2>2
    <3>2. Weight(left, DOMAIN left, l) = CopyBytes(l) - w(l) /\ IsFiniteSet(DOMAIN left)
          /\ CopyBytes(l) - w(l) + 0 = CopyBytes(l) - w(l)
        BY <1>9 DEF Table
    <3> QED
        BY <3>1, <3>2 DEF CopyBytes
  <2> QED
      BY <2>1, <2>2
<1>14. ASSUME NEW l \in Ledgers
       PROVE  /\ used'[l] = CopyBytes(l)' + MoveBytes(l)' + ExportBytes(l)' + TicketBytes(l)'
              /\ used'[l] <= setup'.cap[l] /\ used'[l] \in Int
  <2>1. TicketBytes(l)' = TicketBytes(l) /\ ExportBytes(l)' = ExportBytes(l)
      BY <1>1, SameTickets, SameExports
  <2> DEFINE owes == MoveOwes(m, l)
             db == IF l = m.dest THEN m.bytes ELSE 0
             cb == IF l = "cpu" THEN m.bounce ELSE 0
  <2>2. MoveBytes(l)' = MoveBytes(l) - owes /\ owes \in Nat
      BY <1>1, MoveSettled
  <2>3. owes = db + cb
      BY DEF MoveOwes
  <2>4. used[l] = CopyBytes(l) + MoveBytes(l) + ExportBytes(l) + TicketBytes(l)
        /\ used[l] <= setup.cap[l] /\ setup.cap[l] \in Nat /\ CopyBytes(l) \in Nat
        /\ MoveBytes(l) \in Nat /\ ExportBytes(l) \in Nat /\ TicketBytes(l) \in Nat
      BY LedgerFacts
  <2>5. CopyBytes(l)' = CopyBytes(l) - w(l) + got(l) /\ w(l) \in Nat /\ w(l) = lost(l)
      BY <1>9, <1>10, <1>13
  <2>6. used'[l] = used[l] - lost(l) - db + got(l) - cb
      BY <1>1
  <2>7. got(l) \in Nat /\ db \in Nat /\ cb \in Nat /\ got(l) <= db
      BY <1>2, <1>4
  <2>8. setup'.cap[l] = setup.cap[l]
      BY <1>1
  <2> HIDE DEF owes, db, cb, got
  <2> QED
      BY <2>1, <2>2, <2>3, <2>4, <2>5, <2>6, <2>7, <2>8
<1>15. used' \in [Ledgers -> Int] /\ LedgersBalance'
  <2>1. used' \in [Ledgers -> Int]
      BY <1>1, <1>14
  <2> QED
      BY <1>14, <2>1, StillBalanced
<1>16. setup' \in Setups /\ IsFiniteSet(DOMAIN copies')
    BY <1>1, <1>13 DEF LedgerInv, Ledgers
<1>17. Sized'
  <2>1. \A i \in DOMAIN copies' : copies'[i].bytes = BytesOn(copies'[i].tier, copies'[i].tokens)
    <3> SUFFICES ASSUME NEW i \in DOMAIN copies'
                 PROVE  copies'[i].bytes = BytesOn(copies'[i].tier, copies'[i].tokens)
        OBVIOUS
    <3>1. CASE i \in DOMAIN left
      <4>1. SameData(copies'[i], copies[i]) /\ i \in DOMAIN copies
          BY <1>9, <1>11, <3>1
      <4> QED
          BY <4>1 DEF SameData, LedgerInv, Sized
    <3>2. CASE wanted /\ i = id
        BY <1>3, <1>4, <1>11, <3>2
    <3> QED
        BY <1>12, <3>1, <3>2
  <2>2. ASSUME NEW i \in DOMAIN moves'
        PROVE  /\ moves'[i].dest \in {"cpu", "ssd"}
               /\ moves'[i].bytes = BytesOn(moves'[i].dest, copies'[i].tokens)
    <3>1. i \in DOMAIN moves /\ moves'[i] = moves[i] /\ i \in DOMAIN copies
        BY <1>1 DEF TierInv, SourcesPinned
    <3>2. i \in DOMAIN copies' /\ i # id
        BY <1>5, <3>1 DEF TierInv, SourcesPinned
    <3>3. SameData(copies'[i], copies[i])
        BY <1>9, <1>11, <1>12, <3>2
    <3> QED
        BY <3>1, <3>3 DEF LedgerInv, Sized, SameData
  <2> QED
      BY <2>1, <2>2 DEF Sized
<1>18. \A x \in Session : tickets'[x] # NoTicket => Covered(tickets[x])'
  <2> SUFFICES ASSUME NEW x \in Session
               PROVE  tickets'[x] # NoTicket => Covered(tickets[x])'
      OBVIOUS
  <2>1. \A i \in DOMAIN copies \cap DOMAIN copies' : copies'[i].bytes = copies[i].bytes
    <3> SUFFICES ASSUME NEW i \in DOMAIN copies \cap DOMAIN copies'
                 PROVE  copies'[i].bytes = copies[i].bytes
        OBVIOUS
    <3>1. i \in DOMAIN left
        BY <1>5, <1>12
    <3> QED
        BY <1>9, <1>11, <3>1 DEF SameData
  <2>2. \A i \in DOMAIN moves' \cup DOMAIN exports' : i \in DOMAIN moves \cup DOMAIN exports
      BY <1>1
  <2> QED
      BY <1>1, <2>1, <2>2, CoveredKept
<1>19. lru' \in Seq(Session) /\ \A x \in Session : KnownAge(x)'
  <2>1. \A x \in Session : \/ rec'[x].state \in {"lost", "ended"}
                           \/ rec[x].state \notin {"lost", "ended"}
                           \/ x \in Aged(lru')
    <3> SUFFICES ASSUME NEW x \in Session, rec'[x] # rec[x], rec[x].state \in {"lost", "ended"}
                 PROVE  FALSE
      <4>1. \A x \in Session : \/ rec'[x].state \in {"lost", "ended"}
                               \/ rec[x].state \notin {"lost", "ended"}
          OBVIOUS
      <4> QED
          BY <4>1
    <3>1. wanted /\ x = m.session
        BY <1>1 DEF TierInv, TierTypeOK
    <3>2. rec[x].state \in Demoting
        BY <3>1 DEF StillWanted
    <3> QED
        BY <3>2 DEF Demoting
  <2>2. lru' \in Seq(Session) /\ Aged(lru) \subseteq Aged(lru')
      BY <1>1 DEF LedgerInv
  <2> QED
      BY <2>1, <2>2, AgesKept DEF LedgerInv
<1> QED
    BY <1>15, <1>16, <1>17, <1>18, <1>19 DEF LedgerInv

LEMMA MoveKeepsLedgers ==
    ASSUME TierInv, LedgerInv, TierInv', NEW s \in Session, Move(s)
    PROVE  LedgerInv'
<1>1. CASE Drop(s)
    BY <1>1, DropKeepsLedgers
<1>2. CASE DemoteToCpu(s)
  <2> DEFINE vs == {}
             spared == {s}
  <2>1. rec[s].state \in {"d_ready", "cpu_ready"} /\ Free("cpu") >= Aggregate(s)
        /\ StartMove(s, "cpu", 0, "d_demoting_cpu", vs)
      BY <1>2 DEF DemoteToCpu
  <2>2. vs \subseteq Eligible("ssd", spared) /\ s \in spared
      OBVIOUS
  <2>3. "cpu" \in {"cpu", "ssd"} /\ "cpu" # "ssd" /\ 0 \in Nat /\ "d_demoting_cpu" \in Demoting
        /\ vs = {}
      BY DEF Demoting
  <2> HIDE DEF vs, spared
  <2> QED
      BY <2>1, <2>2, <2>3, StartMoveKeepsLedgers
<1>3. CASE DemoteToSsd(s)
  <2> DEFINE spared == {s}
             vs == Victims("ssd", spared, Aggregate(s))
             bounce == Aggregate(s)
  <2>1. rec[s].state \in {"d_ready", "cpu_ready"} /\ Free("cpu") >= bounce
        /\ CanEvict("ssd", spared, Aggregate(s))
        /\ StartMove(s, "ssd", bounce, "d_demoting_ssd", vs)
      BY <1>3 DEF DemoteToSsd, CanDemoteToSsd
  <2>2. vs \subseteq Eligible("ssd", spared) /\ s \in spared
      BY VictimsEligible
  <2>3. "ssd" \in {"cpu", "ssd"} /\ "ssd" # "cpu" /\ bounce \in Nat
        /\ "d_demoting_ssd" \in Demoting /\ "ssd" \in Tiers
      BY <2>1, AggregateNat DEF Demoting, Tiers
  <2>4. FreeWithout(vs, "ssd") >= Aggregate(s)
      BY <2>1, <2>3, VictimsMakeRoom
  <2> HIDE DEF vs, spared, bounce
  <2> QED
      BY <2>1, <2>2, <2>3, <2>4, StartMoveKeepsLedgers
<1>4. ASSUME NEW among, Spill(s, among)
      PROVE  LedgerInv'
  <2> DEFINE spared == {s} \cup among
             vs == Victims("ssd", spared, Aggregate(s))
  <2>1. rec[s].state \in {"d_ready", "cpu_ready"}
        /\ CanEvict("ssd", spared, Aggregate(s))
        /\ StartMove(s, "ssd", 0, "cpu_demoting_ssd", vs)
      BY <1>4 DEF Spill, CanSpill
  <2>2. vs \subseteq Eligible("ssd", spared) /\ s \in spared
      BY VictimsEligible
  <2>3. "ssd" \in {"cpu", "ssd"} /\ "ssd" # "cpu" /\ 0 \in Nat
        /\ "cpu_demoting_ssd" \in Demoting /\ "ssd" \in Tiers
      BY DEF Demoting, Tiers
  <2>4. FreeWithout(vs, "ssd") >= Aggregate(s)
      BY <2>1, <2>3, VictimsMakeRoom
  <2>5. Free("cpu") >= 0
    <3>1. "cpu" \in Ledgers
        BY DEF Ledgers, Tiers
    <3> QED
        BY <3>1, LedgerFacts DEF Free
  <2> HIDE DEF vs, spared
  <2> QED
      BY <2>1, <2>2, <2>3, <2>4, <2>5, StartMoveKeepsLedgers
<1>5. ASSUME NEW c \in CopyId, NEW id \in FreshCopies, CompleteMove(c, id)
      PROVE  LedgerInv'
    BY <1>5, CompleteMoveKeepsLedgers
<1> QED
    BY <1>1, <1>2, <1>3, <1>4, <1>5 DEF Move

-----------------------------------------------------------------------------
(* Calls.                                                                  *)

\* A plan asks for what the call will need, and builds on a copy nobody reads.
LEMMA PlanCovered ==
    ASSUME TierInv, NEW s \in Session, NEW c \in Calls
    PROVE  Covered(Plan(s, c)) /\ Plan(s, c).restored = FALSE /\ Plan(s, c).pReleased = FALSE
<1> DEFINE id == rec[s].primary
           pl == Plan(s, c)
           base == Reusable(copies, id)
           final == c.input + c.output - 1
           needsD == c.output > 1 \/ c.successor
           target == IF needsD THEN BytesOn("d", final) ELSE 0
           admit == IF setup.reserve = "final_context_upfront" \/ ~needsD THEN target
                    ELSE BytesOn("d", c.input)
           d == IF ~needsD THEN 0
                ELSE IF base THEN Max({0, admit - copies[id].bytes}) ELSE admit
<1>1. /\ pl.target = target /\ pl.needsD = needsD /\ pl.final = final
      /\ pl.base = (IF base THEN id ELSE NoCopy) /\ pl.d = d
      /\ pl.successor = c.successor /\ pl.restored = FALSE /\ pl.pReleased = FALSE
    BY DEF Plan
<1>2. /\ c.input \in Nat \ {0} /\ c.output \in Nat \ {0} /\ c.successor \in BOOLEAN
    BY CallsAssumption DEF CallRecords
<1>3. final \in Nat
    BY <1>2
<1>4. target \in Nat
  <2> HIDE DEF final
  <2> QED
      BY <1>3, BytesOnNat
<1>5. base => id \in DOMAIN copies /\ Pins(copies[id]) = 0 /\ copies[id] \in CopyRecords
    BY DEF Reusable, TierInv, TierTypeOK
<1>6. base => id \notin DOMAIN moves \cup DOMAIN exports
  <2> SUFFICES ASSUME base PROVE id \notin DOMAIN moves \cup DOMAIN exports
      OBVIOUS
  <2>1. copies[id].demotion = 0 /\ copies[id].export = 0
      BY <1>5 DEF Pins, CopyRecords
  <2> QED
      BY <1>5, <2>1 DEF TierInv, SourcesPinned
<1>7. base => id # NoCopy
    BY <1>5, NamesAssumption DEF TierInv, TierTypeOK
<1> HIDE DEF pl, final
<1>8. ASSUME needsD, setup.reserve = "final_context_upfront"
      PROVE  target <= d + (IF pl.base = NoCopy THEN 0 ELSE copies[pl.base].bytes)
  <2>1. admit = target
      BY <1>8
  <2>2. CASE base
    <3>1. copies[id].bytes \in Nat /\ target - copies[id].bytes \in Int
        BY <1>4, <1>5, <2>2 DEF CopyRecords
    <3>2. d = Max({0, target - copies[id].bytes})
        BY <1>8, <2>1, <2>2
    <3> HIDE DEF target, d
    <3>3. d \in Nat /\ d >= target - copies[id].bytes
        BY <3>1, <3>2, MaxOfTwo
    <3>4. pl.base = id /\ pl.base # NoCopy
        BY <1>1, <1>7, <2>2
    <3> QED
        BY <1>4, <3>1, <3>3, <3>4
  <2>3. CASE ~base
    <3>1. d = target /\ pl.base = NoCopy
        BY <1>1, <1>8, <2>1, <2>3
    <3> HIDE DEF target, d
    <3> QED
        BY <1>4, <3>1
  <2> QED
      BY <2>2, <2>3
<1>9. pl.base # NoCopy => pl.base \notin DOMAIN moves \cup DOMAIN exports
    BY <1>1, <1>6
<1> HIDE DEF d, base, admit
<1>10. Covered(pl)
  <2>1. pl.target = (IF pl.needsD THEN BytesOn("d", pl.final) ELSE 0)
      BY <1>1
  <2>2. pl.successor => pl.needsD
      BY <1>1
  <2>3. pl.needsD /\ setup.reserve = "final_context_upfront" =>
          pl.target <= pl.d + (IF pl.base = NoCopy THEN 0 ELSE copies[pl.base].bytes)
      BY <1>1, <1>8
  <2> QED
      BY <1>9, <2>1, <2>2, <2>3 DEF Covered
<1> QED
    BY <1>1, <1>10 DEF pl

LEMMA BeginPrepareKeepsLedgers ==
    ASSUME TierInv, LedgerInv, TierInv', NEW s \in Session, NEW c \in Calls, BeginPrepare(s, c)
    PROVE  LedgerInv'
<1> DEFINE pl == Plan(s, c)
           id == rec[s].primary
           below == id # NoCopy /\ copies[id].tier # "d"
           unused == IF below /\ pl.tier = "none" THEN {id} ELSE {}
           read == [i \in DOMAIN copies |->
                      IF i = pl.copy THEN ReadBy(copies[i], pl.tier) ELSE copies[i]]
           w(l) == Weight(read, Dying(read, unused), l)
           asks(l) == (IF l = "p" THEN pl.p ELSE 0) + (IF l = "d" THEN pl.d ELSE 0)
                        + (IF l = "cpu" THEN pl.bounce ELSE 0)
<1>1. /\ rec[s].state \notin Busy /\ PlanFits(pl)
      /\ copies' = Retire(read, unused)
      /\ \A x \in Session \ {s} : rec'[x] = rec[x]
      /\ lru' = Touch(s)
      /\ tickets' = [tickets EXCEPT ![s] = pl]
      /\ used' = [l \in Ledgers |->
                    used[l] + (IF l = "p" THEN pl.p ELSE 0) + (IF l = "d" THEN pl.d ELSE 0)
                            + (IF l = "cpu" THEN pl.bounce ELSE 0) - w(l)]
      /\ setup' = setup /\ moves' = moves /\ exports' = exports
    BY DEF BeginPrepare, TierInv, TierTypeOK
<1>2. tickets[s] = NoTicket
    BY <1>1, IdleHasNoTicket
<1>3. Sound(pl, id) /\ Covered(pl) /\ pl.restored = FALSE /\ pl.pReleased = FALSE
    BY PlanFacts, PlanCovered
<1> HIDE DEF pl
<1>4. pl \in TicketRecords /\ pl # NoTicket /\ pl.p \in Nat /\ pl.d \in Nat /\ pl.bounce \in Nat
    BY <1>3, NamesAssumption DEF Sound, TicketRecords
<1>5. id # NoCopy => id \in DOMAIN copies /\ copies[id].session = s
                     /\ copies[id].foreground = 0 /\ copies[id] \in CopyRecords
  <2> SUFFICES ASSUME id # NoCopy
               PROVE  id \in DOMAIN copies /\ copies[id].session = s
                      /\ copies[id].foreground = 0 /\ copies[id] \in CopyRecords
      OBVIOUS
  <2>1. id \in DOMAIN copies /\ copies[id].session = s
      BY DEF TierInv, OneAuthority
  <2>2. ~Reading(id)
      BY <1>2, <2>1 DEF Reading
  <2> QED
      BY <2>1, <2>2 DEF TierInv, SourcesPinned, TierTypeOK
<1>6. CopyTable(read) /\ DOMAIN read = DOMAIN copies
      /\ \A i \in DOMAIN read : SameData(read[i], copies[i])
  <2>1. \A i \in DOMAIN copies : copies[i] \in CopyRecords /\ DOMAIN copies \subseteq CopyId
      BY DEF TierInv, TierTypeOK
  <2>2. pl.copy \in DOMAIN copies => pl.copy = id /\ id # NoCopy
    <3>1. NoCopy \notin DOMAIN copies
        BY NamesAssumption DEF TierInv, TierTypeOK
    <3> QED
        BY <1>3, <3>1 DEF Sound
  <2>3. ASSUME NEW i \in DOMAIN copies
        PROVE  read[i] \in CopyRecords /\ SameData(read[i], copies[i])
    <3>1. CASE i = pl.copy
      <4>1. copies[i] \in CopyRecords /\ copies[i].foreground = 0
          BY <1>5, <2>2, <3>1
      <4>2. ReadBy(copies[i], pl.tier) \in CopyRecords
            /\ SameData(ReadBy(copies[i], pl.tier), copies[i])
          BY <4>1, ForegroundPinned
      <4> QED
          BY <3>1, <4>2
    <3>2. CASE i # pl.copy
        BY <2>1, <3>2 DEF SameData
    <3> QED
        BY <3>1, <3>2
  <2> HIDE DEF id
  <2> QED
      BY <2>1, <2>3 DEF CopyTable
<1>7. unused \in SUBSET DOMAIN copies
    BY <1>5
<1> HIDE DEF read
<1>8. /\ DOMAIN copies' \subseteq DOMAIN copies
      /\ \A i \in DOMAIN copies' : SameData(copies'[i], copies[i])
      /\ \A l \in Ledgers :
           /\ CopyBytes(l)' = CopyBytes(l) - w(l)
           /\ CopyBytes(l)' \in Nat /\ w(l) \in Nat /\ CopyBytes(l) \in Nat
  <2> HIDE DEF unused
  <2> QED
      BY <1>1, <1>6, <1>7, RetiredBytes
<1> HIDE DEF w, unused
<1>9. ASSUME NEW l \in Ledgers
      PROVE  /\ used'[l] = CopyBytes(l)' + MoveBytes(l)' + ExportBytes(l)' + TicketBytes(l)'
             /\ used'[l] <= setup'.cap[l] /\ used'[l] \in Int
  <2>1. MoveBytes(l)' = MoveBytes(l) /\ ExportBytes(l)' = ExportBytes(l)
      BY <1>1, SameMoves, SameExports
  <2>2. TicketOwes(pl, l) = asks(l)
      BY <1>3, <1>4 DEF TicketOwes
  <2>3. TicketBytes(l)' = TicketBytes(l) + asks(l) /\ asks(l) \in Nat
    <3>1. /\ TicketBytes(l)' = TicketBytes(l) - TicketOwes(tickets[s], l) + TicketOwes(pl, l)
          /\ TicketOwes(pl, l) \in Nat
        BY <1>1, <1>4, TicketChanges
    <3>2. TicketOwes(tickets[s], l) = 0 /\ TicketBytes(l) \in Nat
        BY <1>2, OwesNat, LedgerFacts
    <3> HIDE DEF asks
    <3> QED
        BY <2>2, <3>1, <3>2
  <2>4. used[l] = CopyBytes(l) + MoveBytes(l) + ExportBytes(l) + TicketBytes(l)
        /\ used[l] <= setup.cap[l] /\ setup.cap[l] \in Nat /\ CopyBytes(l) \in Nat
        /\ MoveBytes(l) \in Nat /\ ExportBytes(l) \in Nat /\ TicketBytes(l) \in Nat
      BY LedgerFacts
  <2>5. used'[l] = used[l] + asks(l) - w(l)
    <3>1. used'[l] = used[l] + (IF l = "p" THEN pl.p ELSE 0) + (IF l = "d" THEN pl.d ELSE 0)
                            + (IF l = "cpu" THEN pl.bounce ELSE 0) - w(l)
        BY <1>1
    <3> QED
        BY <1>4, <1>8, <2>4, <3>1
  <2>6. used[l] + asks(l) <= setup.cap[l]
    <3>1. Free("p") >= pl.p /\ Free("d") >= pl.d /\ Free("cpu") >= pl.bounce
        BY <1>1 DEF PlanFits
    <3>2. Free(l) = setup.cap[l] - used[l]
        BY DEF Free
    <3>3. Free(l) >= asks(l)
      <4>1. l \in {"p", "d", "cpu"} => Free(l) >= asks(l)
          BY <1>4, <3>1
      <4>2. l \notin {"p", "d", "cpu"} => asks(l) = 0
          OBVIOUS
      <4> QED
          BY <2>4, <3>2, <4>1, <4>2
    <3> HIDE DEF asks
    <3> QED
        BY <2>3, <2>4, <3>2, <3>3
  <2>7. setup'.cap[l] = setup.cap[l]
      BY <1>1
  <2> HIDE DEF asks
  <2> QED
      BY <1>8, <2>1, <2>3, <2>4, <2>5, <2>6, <2>7
<1>10. used' \in [Ledgers -> Int] /\ LedgersBalance'
  <2>1. used' \in [Ledgers -> Int]
      BY <1>1, <1>9
  <2> QED
      BY <1>9, <2>1, StillBalanced
<1>11. tickets'[s] = pl /\ \A x \in Session \ {s} : tickets'[x] = tickets[x]
    BY <1>1 DEF TierInv, TierTypeOK
<1>12. Covered(tickets[s])'
  <2>1. pl.base # NoCopy => copies'[pl.base].bytes = copies[pl.base].bytes
    <3> SUFFICES ASSUME pl.base # NoCopy
                 PROVE  copies'[pl.base].bytes = copies[pl.base].bytes
        OBVIOUS
    <3>1. tickets'[s] # NoTicket /\ tickets'[s].base # NoCopy
        BY <1>4, <1>11
    <3>2. rec'[s].primary = tickets'[s].base
        BY <3>1 DEF TierInv, Links, TicketMatches
    <3>3. tickets'[s].base \in DOMAIN copies'
        BY <3>1, <3>2 DEF TierInv, OneAuthority
    <3> QED
        BY <1>8, <1>11, <3>3 DEF SameData
  <2> QED
      BY <1>1, <1>3, <1>11, <2>1 DEF Covered
<1>13. /\ setup' \in Setups /\ IsFiniteSet(DOMAIN copies') /\ Sized'
       /\ \A x \in Session : tickets'[x] # NoTicket => Covered(tickets[x])'
  <2>1. \A x \in Session : tickets'[x] \in {tickets[x], NoTicket} \/ Covered(tickets[x])'
      BY <1>11, <1>12
  <2> QED
      BY <1>1, <1>8, <2>1, RestKept
<1>14. lru' \in Seq(Session) /\ \A x \in Session : KnownAge(x)'
    BY <1>1, TouchedOne
<1> QED
    BY <1>10, <1>13, <1>14 DEF LedgerInv

\* The ticket of a restored call asks for what it asked for.
LEMMA RestoredAsks ==
    ASSUME NEW t \in TicketRecords, NEW b \in CopyId \cup {NoCopy}
    PROVE  LET q == Restored(t, b)
           IN  /\ q \in TicketRecords /\ q.restored = TRUE /\ q.base = b
               /\ q.p = t.p /\ q.pReleased = t.pReleased /\ q.d = t.d /\ q.bounce = t.bounce
               /\ q.target = t.target /\ q.final = t.final /\ q.needsD = t.needsD
               /\ q.successor = t.successor
<1> DEFINE q == Restored(t, b)
<1>1. q \in TicketRecords /\ q.restored = TRUE /\ q.base = b
  <2>1. q \in TicketRecords /\ q.restored /\ q.base = b
      BY TicketRestored
  <2> HIDE DEF q
  <2> QED
      BY <2>1 DEF TicketRecords
<1>2. /\ q.p = t.p /\ q.pReleased = t.pReleased /\ q.d = t.d /\ q.bounce = t.bounce
      /\ q.target = t.target /\ q.final = t.final /\ q.needsD = t.needsD
      /\ q.successor = t.successor
    BY DEF Restored, TicketRecords
<1> QED
    BY <1>1, <1>2

\* A longer context has no fewer blocks.
LEMMA Blocks ==
    ASSUME NEW x \in Nat, NEW y \in Nat, x <= y, NEW n \in Nat \ {0}
    PROVE  x \div n <= y \div n
<1> DEFINE a == x \div n
           b == y \div n
<1>1. a \in Nat /\ b \in Nat
    BY DivNat
<1>2. n * a <= x
    OBVIOUS
<1>3. y < n * b + n
    OBVIOUS
<1> HIDE DEF a, b
<1>4. ASSUME b < a
      PROVE  FALSE
  <2>1. b + 1 <= a
      BY <1>1, <1>4
  <2>2. \A u, v \in Nat : u <= v => n * u <= n * v
      OBVIOUS
  <2>3. n * (b + 1) <= n * a
      BY <1>1, <2>1, <2>2
  <2>4. n * (b + 1) = n * b + n
      BY <1>1
  <2>5. n * a \in Nat /\ n * b \in Nat
      BY <1>1
  <2> QED
      BY <1>2, <1>3, <2>3, <2>4, <2>5
<1> QED
    BY <1>1, <1>4 DEF a, b

LEMMA BytesGrow ==
    ASSUME NEW x \in Nat, NEW y \in Nat, BytesOn("d", x) < BytesOn("d", y)
    PROVE  x < y
<1> DEFINE a == (x + Block - 1) \div Block
           b == (y + Block - 1) \div Block
<1>1. Block \in Nat \ {0} /\ x + Block - 1 \in Nat /\ y + Block - 1 \in Nat
    BY SizesAssumption
<1>2. a \in Nat /\ b \in Nat
    BY <1>1, DivNat
<1>3. BytesOn("d", x) = a * 1 /\ BytesOn("d", y) = b * 1
    BY DEF BytesOn
<1>4. y <= x => b <= a
  <2>1. y <= x => y + Block - 1 <= x + Block - 1
      BY <1>1
  <2> QED
      BY <1>1, <2>1, Blocks
<1> HIDE DEF a, b
<1>5. a < b
    BY <1>2, <1>3
<1> QED
    BY <1>2, <1>4, <1>5

LEMMA CompletePrepareKeepsLedgers ==
    ASSUME TierInv, LedgerInv, TierInv', NEW s \in Session, CompletePrepare(s)
    PROVE  LedgerInv'
<1> DEFINE t == tickets[s]
           base == t.base
           left == ReadOut(t)
           shed == Shed(t, left)
           cut == Shortened(t, left)
           kept == Retire(cut, shed)
           gone == DOMAIN copies \ DOMAIN kept
           b == IF base \in shed THEN NoCopy ELSE base
           u == Restored(t, b)
           w(l) == Weight(copies, gone, l)
           shorter == cut # left
           less(l) == IF l = "d" /\ shorter THEN left[base].bytes - t.target ELSE 0
<1>1. /\ t # NoTicket /\ rec[s].state = "preparing" /\ ~t.restored
      /\ copies' = kept
      /\ \A x \in Session \ {s} : rec'[x] = rec[x]
      /\ lru' = Touch(s)
      /\ tickets' = [tickets EXCEPT ![s] = u]
      /\ used' = [l \in Ledgers |-> used[l] - w(l) - (IF l = "cpu" THEN t.bounce ELSE 0) - less(l)]
      /\ setup' = setup /\ moves' = moves /\ exports' = exports
    BY DEF CompletePrepare, TierInv, TierTypeOK
<1>2. t \in TicketRecords /\ Covered(t) /\ t.bounce \in Nat /\ t.target \in Nat
      /\ t.d \in Nat /\ t.final \in Nat /\ base \in CopyId \cup {NoCopy}
    BY <1>1 DEF TierInv, TierTypeOK, LedgerInv, TicketRecords
<1>3. base # NoCopy => /\ base \in DOMAIN copies /\ copies[base].session = s
                       /\ copies[base].tier = "d"
    BY <1>1, BaseFacts
<1>4. CopyTable(left) /\ DOMAIN left \subseteq DOMAIN copies
      /\ \A i \in DOMAIN left : SameData(left[i], copies[i])
  <2> DEFINE read == [i \in DOMAIN copies |->
                        IF i = t.copy THEN [copies[i] EXCEPT !.foreground = @ - 1] ELSE copies[i]]
             spent == {i \in DOMAIN copies : i = t.copy /\ copies[i].retired}
  <2>1. left = Retire(read, spent)
      BY DEF ReadOut
  <2>2. CopyTable(read) /\ DOMAIN read = DOMAIN copies
        /\ \A i \in DOMAIN read : SameData(read[i], copies[i])
    <3>1. \A i \in DOMAIN copies : copies[i] \in CopyRecords /\ DOMAIN copies \subseteq CopyId
        BY DEF TierInv, TierTypeOK
    <3>2. ASSUME NEW i \in DOMAIN copies
          PROVE  read[i] \in CopyRecords /\ SameData(read[i], copies[i])
      <4>1. CASE i = t.copy
        <5>1. copies[i].session = s
            BY <1>1, <1>2, <4>1, NamesAssumption
               DEF TierInv, TierTypeOK, Links, TicketMatches
        <5>2. Reading(i)
            BY <1>1, <4>1, <5>1 DEF Reading
        <5>3. copies[i].foreground = 1 /\ copies[i] \in CopyRecords
            BY <3>1, <5>2 DEF TierInv, SourcesPinned
        <5>4. read[i] = [copies[i] EXCEPT !.foreground = copies[i].foreground - 1]
            BY <4>1
        <5> QED
            BY <5>3, <5>4 DEF CopyRecords, SameData
      <4>2. CASE i # t.copy
          BY <3>1, <4>2 DEF SameData
      <4> QED
          BY <4>1, <4>2
    <3> QED
        BY <3>1, <3>2 DEF CopyTable
  <2>3. spent \in SUBSET DOMAIN copies
      OBVIOUS
  <2> HIDE DEF read, spent, left
  <2>4. Table(left) /\ DOMAIN left = DOMAIN copies \ Dying(read, spent)
        /\ \A i \in DOMAIN left : SameData(left[i], copies[i])
      BY <2>1, <2>2, <2>3, RetiredWeight
  <2> QED
      BY <2>4 DEF Table
<1> HIDE DEF left
<1>5. ASSUME shorter
      PROVE  /\ base \in DOMAIN left /\ base \in DOMAIN copies /\ base # NoCopy
             /\ t.needsD /\ shed = {} /\ t.target < left[base].bytes
             /\ left[base] \in CopyRecords /\ SameData(left[base], copies[base])
             /\ cut = [left EXCEPT ![base] =
                         Trimmed(left[base], t.target, Min({left[base].tokens, t.final}))]
  <2>1. Reusable(left, base) /\ t.needsD /\ t.target < left[base].bytes
      BY <1>5 DEF Shortened
  <2>2. base \in DOMAIN left
      BY <2>1 DEF Reusable
  <2>3. base # NoCopy
      BY <1>4, <2>2, NamesAssumption DEF TierInv, TierTypeOK
  <2> QED
      BY <1>4, <2>1, <2>2, <2>3 DEF Shortened, Shed, CopyTable
<1>6. ASSUME shorter
      PROVE  LET q == Trimmed(left[base], t.target, Min({left[base].tokens, t.final}))
             IN  /\ q \in CopyRecords /\ q.bytes = t.target /\ q.tokens = t.final
                 /\ q.tier = "d" /\ q.session = s /\ t.target = BytesOn("d", t.final)
  <2> DEFINE x == left[base]
             n == Min({x.tokens, t.final})
             q == Trimmed(x, t.target, n)
  <2>1. x \in CopyRecords /\ x.tokens \in Nat /\ t.target < x.bytes
        /\ x.bytes = copies[base].bytes /\ x.tokens = copies[base].tokens
        /\ x.tier = "d" /\ x.session = s
      BY <1>3, <1>5, <1>6 DEF CopyRecords, SameData
  <2>2. t.target = BytesOn("d", t.final)
      BY <1>2, <1>5, <1>6 DEF Covered
  <2>3. x.bytes = BytesOn("d", x.tokens)
      BY <1>3, <1>5, <1>6, <2>1 DEF LedgerInv, Sized
  <2>4. t.final < x.tokens
      BY <1>2, <2>1, <2>2, <2>3, BytesGrow
  <2>5. n = t.final
    <3>1. t.final \in {x.tokens, t.final} /\ \A y \in {x.tokens, t.final} : t.final <= y
        BY <1>2, <2>1, <2>4
    <3>2. n \in {x.tokens, t.final} /\ \A y \in {x.tokens, t.final} : n <= y
        BY <3>1 DEF Min
    <3> QED
        BY <1>2, <2>1, <2>4, <3>1, <3>2
  <2> HIDE DEF x, n
  <2>6. n \in Nat
      BY <1>2, <2>5
  <2>7. q \in CopyRecords /\ q.tokens = n /\ q.tier = x.tier /\ q.session = x.session
    <3> DEFINE m == t.target
    <3>1. m \in Nat /\ x \in CopyRecords
        BY <1>2, <2>1
    <3> HIDE DEF m
    <3>2. LET y == Trimmed(x, m, n)
          IN  /\ y \in CopyRecords /\ y.tokens = n
              /\ y.session = x.session /\ y.tier = x.tier
        BY <2>6, <3>1, CutFacts
    <3> QED
        BY <3>2 DEF m
  <2>8. q.bytes = t.target
    <3>1. [x EXCEPT !.bytes = t.target, !.tokens = n].bytes = t.target
        BY <2>1 DEF CopyRecords
    <3> QED
        BY <3>1 DEF Trimmed
  <2> QED
      BY <2>1, <2>2, <2>5, <2>7, <2>8 DEF x, n
<1>7. /\ CopyTable(cut) /\ DOMAIN cut = DOMAIN left
      /\ \A i \in DOMAIN cut : ~(shorter /\ i = base) => SameData(cut[i], copies[i])
      /\ shorter => /\ cut[base].bytes = t.target /\ cut[base].tokens = t.final
                    /\ cut[base].tier = "d" /\ cut[base].session = s
  <2>1. CASE shorter
    <3> DEFINE q == Trimmed(left[base], t.target, Min({left[base].tokens, t.final}))
    <3>1. cut = [left EXCEPT ![base] = q] /\ base \in DOMAIN left
        BY <1>5, <2>1
    <3>2. q \in CopyRecords /\ q.bytes = t.target /\ q.tokens = t.final /\ q.tier = "d"
          /\ q.session = s
        BY <1>6, <2>1
    <3> HIDE DEF q, cut
    <3>3. DOMAIN cut = DOMAIN left /\ cut[base] = q
          /\ \A i \in DOMAIN left \ {base} : cut[i] = left[i]
        BY <3>1
    <3>4. CopyTable(cut)
        BY <1>4, <3>2, <3>3 DEF CopyTable
    <3> QED
        BY <1>4, <2>1, <3>2, <3>3, <3>4
  <2>2. CASE ~shorter
    <3>1. cut = left
        BY <2>2
    <3> QED
        BY <1>4, <2>2, <3>1
  <2> QED
      BY <2>1, <2>2
<1> HIDE DEF cut
<1>8. /\ CopyTable(kept) /\ DOMAIN kept = DOMAIN copies \ gone
      /\ \A i \in DOMAIN kept : /\ i \in DOMAIN copies
                                /\ ~(shorter /\ i = base) => SameData(kept[i], copies[i])
      /\ shorter => /\ base \in DOMAIN kept
                    /\ kept[base].bytes = t.target /\ kept[base].tokens = t.final
                    /\ kept[base].tier = "d" /\ kept[base].session = s
  <2>0. CopyTable(cut)
      BY <1>7
  <2> HIDE DEF shed
  <2>1. /\ CopyTable(Retire(cut, shed))
        /\ DOMAIN Retire(cut, shed) = {i \in DOMAIN cut : i \in shed => Pins(cut[i]) # 0}
        /\ \A i \in DOMAIN Retire(cut, shed) : SameData(Retire(cut, shed)[i], cut[i])
    <3> HIDE DEF shorter
    <3> QED
        BY <2>0, RetireTable
  <2>2. CopyTable(kept) /\ DOMAIN kept \subseteq DOMAIN cut
        /\ \A i \in DOMAIN kept : SameData(kept[i], cut[i])
      BY <2>1
  <2>3. shorter => base \in DOMAIN kept
      BY <1>5, <1>7, <2>1
  <2> HIDE DEF kept
  <2>4. DOMAIN kept = DOMAIN copies \ gone
      BY <1>4, <1>7, <2>2
  <2>5. ASSUME NEW i \in DOMAIN kept
        PROVE  /\ i \in DOMAIN copies
               /\ ~(shorter /\ i = base) => SameData(kept[i], copies[i])
    <3>1. i \in DOMAIN cut /\ i \in DOMAIN copies /\ SameData(kept[i], cut[i])
        BY <1>4, <1>7, <2>2
    <3>2. ~(shorter /\ i = base) => SameData(cut[i], copies[i])
        BY <1>7, <3>1
    <3> QED
        BY <3>1, <3>2 DEF SameData
  <2>6. shorter => /\ kept[base].bytes = t.target /\ kept[base].tokens = t.final
                   /\ kept[base].tier = "d" /\ kept[base].session = s
    <3>1. shorter => SameData(kept[base], cut[base])
        BY <2>2, <2>3
    <3> QED
        BY <1>7, <3>1 DEF SameData
  <2> QED
      BY <2>2, <2>3, <2>4, <2>5, <2>6
<1> HIDE DEF kept, shed
<1>9. gone \in SUBSET DOMAIN copies
    OBVIOUS
<1> HIDE DEF gone
<1>10. ASSUME NEW l \in Ledgers
       PROVE  /\ CopyBytes(l)' = CopyBytes(l) - w(l) - less(l)
              /\ w(l) \in Nat /\ less(l) \in Nat /\ CopyBytes(l) \in Nat
              /\ IsFiniteSet(DOMAIN copies')
  <2> DEFINE ds == [i \in DOMAIN copies \ gone |-> copies[i]]
  <2>1. Table(copies) /\ CopyBytes(l) \in Nat
      BY LedgerFacts
  <2>2. /\ DOMAIN ds = DOMAIN copies \ gone
        /\ \A i \in DOMAIN ds : ds[i] = copies[i]
      OBVIOUS
  <2> HIDE DEF ds
  <2>3. /\ Weight(ds, DOMAIN ds, l) = Weight(copies, DOMAIN copies, l) - w(l)
        /\ Weight(ds, DOMAIN ds, l) \in Nat /\ w(l) \in Nat
        /\ IsFiniteSet(DOMAIN ds)
      BY <1>9, <2>1, <2>2, WeightWithout
  <2>4. Table(ds)
      BY <2>1, <2>2, <2>3 DEF Table, CopyTable
  <2>5. CASE shorter
    <3>1. base \in DOMAIN ds /\ DOMAIN kept = DOMAIN ds
          /\ kept[base].tier = ds[base].tier
          /\ \A i \in DOMAIN ds \ {base} : kept[i].tier = ds[i].tier /\ kept[i].bytes = ds[i].bytes
        BY <1>3, <1>5, <1>8, <2>2, <2>5 DEF SameData
    <3>2. CopyTable(kept)
        BY <1>8
    <3>3. Weight(kept, DOMAIN kept, l)
             = Weight(ds, DOMAIN ds, l)
                  + (IF ds[base].tier = l THEN kept[base].bytes - ds[base].bytes ELSE 0)
      <4> HIDE DEF base, less, w, shorter
      <4> QED
          BY <2>4, <3>1, <3>2, WeightResized
    <3>4. ds[base].tier = "d" /\ ds[base].bytes = left[base].bytes /\ kept[base].bytes = t.target
          /\ left[base].bytes \in Nat /\ t.target < left[base].bytes
        BY <1>3, <1>5, <1>8, <2>2, <2>5, <3>1 DEF SameData, CopyRecords
    <3>5. less(l) \in Nat
          /\ (IF ds[base].tier = l THEN kept[base].bytes - ds[base].bytes ELSE 0) = -less(l)
        BY <1>2, <2>5, <3>4
    <3>6. CopyBytes(l)' = Weight(kept, DOMAIN kept, l)
        BY <1>1 DEF CopyBytes
    <3>7. IsFiniteSet(DOMAIN copies')
        BY <1>1, <2>3, <3>1
    <3> HIDE DEF less, w
    <3> QED
        BY <2>1, <2>3, <3>3, <3>5, <3>6, <3>7 DEF CopyBytes
  <2>6. CASE ~shorter
    <3>1. /\ DOMAIN kept = DOMAIN ds
          /\ \A i \in DOMAIN ds : kept[i].tier = ds[i].tier /\ kept[i].bytes = ds[i].bytes
        BY <1>8, <2>2, <2>6 DEF SameData
    <3>2. Weight(kept, DOMAIN ds, l) = Weight(ds, DOMAIN ds, l)
      <4> HIDE DEF less, w, shorter
      <4>1. DOMAIN ds \in SUBSET DOMAIN ds /\ DOMAIN ds \subseteq DOMAIN kept
          BY <3>1
      <4> QED
          BY <2>4, <3>1, <4>1, WeightSame
    <3>3. less(l) = 0
        BY <2>6
    <3>4. CopyBytes(l)' = Weight(kept, DOMAIN kept, l) /\ IsFiniteSet(DOMAIN copies')
        BY <1>1, <2>3, <3>1 DEF CopyBytes
    <3> HIDE DEF less, w
    <3> QED
        BY <2>1, <2>3, <3>1, <3>2, <3>3, <3>4 DEF CopyBytes
  <2> QED
      BY <2>5, <2>6
<1>11. /\ u \in TicketRecords /\ u # NoTicket /\ u.restored = TRUE /\ u.base = b
       /\ u.p = t.p /\ u.pReleased = t.pReleased /\ u.d = t.d /\ u.bounce = t.bounce
       /\ u.target = t.target /\ u.final = t.final /\ u.needsD = t.needsD
       /\ u.successor = t.successor
  <2>1. b \in CopyId \cup {NoCopy} /\ t \in TicketRecords
      BY <1>2
  <2>2. u = Restored(t, b)
      OBVIOUS
  <2> HIDE DEF b, u
  <2>3. /\ u \in TicketRecords /\ u.restored = TRUE /\ u.base = b
        /\ u.p = t.p /\ u.pReleased = t.pReleased /\ u.d = t.d /\ u.bounce = t.bounce
        /\ u.target = t.target /\ u.final = t.final /\ u.needsD = t.needsD
        /\ u.successor = t.successor
      BY <2>1, <2>2, RestoredAsks
  <2> QED
      BY <2>3, NamesAssumption
<1> HIDE DEF u
<1>12. tickets'[s] = u /\ \A x \in Session \ {s} : tickets'[x] = tickets[x]
    BY <1>1 DEF TierInv, TierTypeOK
<1> HIDE DEF w, less
<1>13. ASSUME NEW l \in Ledgers
       PROVE  /\ used'[l] = CopyBytes(l)' + MoveBytes(l)' + ExportBytes(l)' + TicketBytes(l)'
              /\ used'[l] <= setup'.cap[l] /\ used'[l] \in Int
  <2> DEFINE cb == IF l = "cpu" THEN t.bounce ELSE 0
  <2>1. MoveBytes(l)' = MoveBytes(l) /\ ExportBytes(l)' = ExportBytes(l)
      BY <1>1, SameMoves, SameExports
  <2>2. TicketOwes(u, l) = TicketOwes(t, l) - cb
      BY <1>1, <1>2, <1>11 DEF TicketOwes, TicketRecords
  <2>3. /\ TicketBytes(l)' = TicketBytes(l) - TicketOwes(t, l) + TicketOwes(u, l)
        /\ TicketOwes(t, l) \in Nat /\ TicketOwes(u, l) \in Nat
      BY <1>1, <1>11, TicketChanges
  <2>4. used[l] = CopyBytes(l) + MoveBytes(l) + ExportBytes(l) + TicketBytes(l)
        /\ used[l] <= setup.cap[l] /\ setup.cap[l] \in Nat /\ CopyBytes(l) \in Nat
        /\ MoveBytes(l) \in Nat /\ ExportBytes(l) \in Nat /\ TicketBytes(l) \in Nat
      BY LedgerFacts
  <2>5. used'[l] = used[l] - w(l) - cb - less(l)
      BY <1>1
  <2>6. cb \in Nat
      BY <1>2
  <2>7. setup'.cap[l] = setup.cap[l]
      BY <1>1
  <2> HIDE DEF cb
  <2> QED
      BY <1>10, <2>1, <2>2, <2>3, <2>4, <2>5, <2>6, <2>7
<1>14. used' \in [Ledgers -> Int] /\ LedgersBalance'
  <2>1. used' \in [Ledgers -> Int]
      BY <1>1, <1>13
  <2> QED
      BY <1>13, <2>1, StillBalanced
<1>15. setup' \in Setups /\ IsFiniteSet(DOMAIN copies')
    BY <1>1, <1>10 DEF LedgerInv, Ledgers
<1>16. \A c \in DOMAIN moves : c # base
    BY <1>2, NamesAssumption DEF Covered, TierInv, TierTypeOK, SourcesPinned
<1>17. Sized'
  <2>1. ASSUME NEW i \in DOMAIN copies'
        PROVE  copies'[i].bytes = BytesOn(copies'[i].tier, copies'[i].tokens)
    <3>1. CASE shorter /\ i = base
        BY <1>1, <1>6, <1>8, <3>1
    <3>2. CASE ~(shorter /\ i = base)
      <4>1. SameData(copies'[i], copies[i]) /\ i \in DOMAIN copies
          BY <1>1, <1>8, <3>2
      <4> QED
          BY <4>1 DEF SameData, LedgerInv, Sized
    <3> QED
        BY <3>1, <3>2
  <2>2. ASSUME NEW c \in DOMAIN moves'
        PROVE  /\ moves'[c].dest \in {"cpu", "ssd"}
               /\ moves'[c].bytes = BytesOn(moves'[c].dest, copies'[c].tokens)
    <3>1. c \in DOMAIN copies' /\ c \in DOMAIN moves /\ moves'[c] = moves[c] /\ c # base
        BY <1>1, <1>16 DEF TierInv, SourcesPinned
    <3>2. SameData(copies'[c], copies[c])
        BY <1>1, <1>8, <3>1
    <3> QED
        BY <3>1, <3>2 DEF SameData, LedgerInv, Sized
  <2> QED
      BY <2>1, <2>2 DEF Sized
<1>18. Covered(tickets[s])'
  <2>1. b # NoCopy => b = base /\ base \in DOMAIN copies'
    <3> SUFFICES ASSUME b # NoCopy PROVE b = base /\ base \in DOMAIN copies'
        OBVIOUS
    <3>1. b = base
        OBVIOUS
    <3>2. tickets'[s] # NoTicket /\ tickets'[s].base = base /\ base # NoCopy
        BY <1>11, <1>12, <3>1
    <3>3. rec'[s].primary = tickets'[s].base
        BY <3>2 DEF TierInv, Links, TicketMatches
    <3> QED
        BY <3>1, <3>2, <3>3 DEF TierInv, OneAuthority
  <2>2. t.needsD => b = base
      BY DEF shed, Shed
  <2>3. t.needsD /\ setup.reserve = "final_context_upfront" =>
          t.target <= t.d + (IF b = NoCopy THEN 0 ELSE copies'[b].bytes)
    <3> SUFFICES ASSUME t.needsD, setup.reserve = "final_context_upfront"
                 PROVE  t.target <= t.d + (IF b = NoCopy THEN 0 ELSE copies'[b].bytes)
        OBVIOUS
    <3>1. t.target <= t.d + (IF base = NoCopy THEN 0 ELSE copies[base].bytes) /\ b = base
        BY <1>2, <2>2 DEF Covered
    <3>2. CASE base = NoCopy
        BY <3>1, <3>2
    <3>3. CASE base # NoCopy /\ shorter
        BY <1>1, <1>2, <1>8, <3>1, <3>3
    <3>4. CASE base # NoCopy /\ ~shorter
      <4>1. SameData(copies'[base], copies[base])
          BY <1>1, <1>8, <2>1, <3>1, <3>4
      <4> QED
          BY <3>1, <3>4, <4>1 DEF SameData
    <3> QED
        BY <3>2, <3>3, <3>4
  <2>4. b # NoCopy => b \notin DOMAIN moves \cup DOMAIN exports
      BY <1>2 DEF Covered
  <2>5. t.target = (IF t.needsD THEN BytesOn("d", t.final) ELSE 0) /\ (t.successor => t.needsD)
      BY <1>2 DEF Covered
  <2> HIDE DEF b
  <2> QED
      BY <1>1, <1>11, <1>12, <2>3, <2>4, <2>5 DEF Covered
<1>19. \A x \in Session : tickets'[x] # NoTicket => Covered(tickets[x])'
  <2> SUFFICES ASSUME NEW x \in Session, x # s
               PROVE  tickets'[x] # NoTicket => Covered(tickets[x])'
      BY <1>18
  <2>1. \A i \in DOMAIN copies \cap DOMAIN copies' :
          copies[i].session = x => copies'[i].bytes = copies[i].bytes
    <3> SUFFICES ASSUME NEW i \in DOMAIN copies \cap DOMAIN copies', copies[i].session = x
                 PROVE  copies'[i].bytes = copies[i].bytes
        OBVIOUS
    <3>1. ~(shorter /\ i = base)
        BY <1>3, <1>5
    <3> QED
        BY <1>1, <1>8, <3>1 DEF SameData
  <2>2. \A i \in DOMAIN moves' \cup DOMAIN exports' : i \in DOMAIN moves \cup DOMAIN exports
      BY <1>1
  <2>3. tickets'[x] = tickets[x]
      BY <1>12
  <2> QED
      BY <1>1, <2>1, <2>2, <2>3, CoveredKept
<1>20. lru' \in Seq(Session) /\ \A x \in Session : KnownAge(x)'
    BY <1>1, TouchedOne
<1> QED
    BY <1>14, <1>15, <1>17, <1>19, <1>20 DEF LedgerInv

LEMMA PublishKeepsLedgers ==
    ASSUME TierInv, LedgerInv, TierInv', NEW s \in Session, NEW id \in CopyId, Publish(s, id)
    PROVE  LedgerInv'
<1> DEFINE t == tickets[s]
           vs == Crowded(s)
           new == NewCopy(s, "d", rec[s].version + 1, rec[s].generation, t.final)
           old == CopiesOf(s) \ {id}
           kept == [i \in DOMAIN copies \ Ousted(vs) |-> copies[i]]
           left == Retire(kept, old)
           now == [Now(rec[s], "d_ready", id, t.final) EXCEPT !.version = @ + 1]
           out(l) == Weight(copies, Ousted(vs) \cup Dying(kept, old), l)
           p(l) == IF l = "p" /\ ~t.pReleased THEN t.p ELSE 0
           held == IF InPlace(s) THEN copies[id].bytes ELSE 0
<1>1. /\ t # NoTicket /\ rec[s].state = "active" /\ t.successor
      /\ GrowthFits(s)
      /\ IF InPlace(s) THEN id = t.base ELSE id \in FreshCopies
      /\ copies' = [i \in DOMAIN left \cup {id} |-> IF i = id THEN new ELSE left[i]]
      /\ rec' = [WithoutSessions(vs) EXCEPT ![s] = now]
      /\ lru' = Append(Only(TouchAll(vs), Session \ {s}), s)
      /\ tickets' = [tickets EXCEPT ![s] = NoTicket]
      /\ used' = [l \in Ledgers |-> used[l] - out(l) - p(l)
                                    + (IF l # "d" THEN 0 ELSE new.bytes - t.d - held)]
      /\ setup' = setup /\ moves' = moves /\ exports' = exports
    BY DEF Publish, CommitDue
<1>2. /\ t \in TicketRecords /\ Covered(t) /\ t.target \in Nat /\ t.d \in Nat /\ t.p \in Nat
      /\ t.restored /\ t.needsD /\ t.final \in Nat
  <2>1. t \in TicketRecords /\ Covered(t)
      BY <1>1 DEF TierInv, TierTypeOK, LedgerInv
  <2>2. TicketMatches(s)
      BY <1>1 DEF TierInv, Links
  <2> QED
      BY <1>1, <2>1, <2>2 DEF TicketRecords, TicketMatches, Covered
<1>3. new.bytes = t.target /\ new.tier = "d" /\ new.tokens = t.final /\ new.bytes = BytesOn("d", t.final)
    BY <1>2 DEF NewCopy, Covered
<1> HIDE DEF new, now
<1>4. InPlace(s) => /\ id = t.base /\ id \in DOMAIN copies /\ copies[id].session = s
                    /\ copies[id].tier = "d" /\ copies[id].bytes \in Nat
                    /\ id \notin DOMAIN moves \cup DOMAIN exports
  <2> SUFFICES ASSUME InPlace(s)
               PROVE  /\ id = t.base /\ id \in DOMAIN copies /\ copies[id].session = s
                      /\ copies[id].tier = "d" /\ copies[id].bytes \in Nat
                      /\ id \notin DOMAIN moves \cup DOMAIN exports
      OBVIOUS
  <2>1. id = t.base /\ id # NoCopy
      BY <1>1, NamesAssumption
  <2>2. id \in DOMAIN copies /\ copies[id].session = s /\ copies[id].tier = "d"
      BY <1>1, <2>1, BaseFacts
  <2>3. id \notin DOMAIN moves \cup DOMAIN exports
      BY <1>2, <2>1 DEF Covered
  <2>4. copies[id].bytes \in Nat
      BY <2>2 DEF TierInv, TierTypeOK, CopyRecords
  <2> QED
      BY <2>1, <2>2, <2>3, <2>4
<1>5. ~InPlace(s) => id \notin DOMAIN copies
    BY <1>1 DEF FreshCopies
<1>6. t.base # NoCopy => InPlace(s)
  <2> SUFFICES ASSUME t.base # NoCopy PROVE InPlace(s)
      OBVIOUS
  <2>1. /\ t.base \in DOMAIN copies /\ copies[t.base].session = s /\ copies[t.base].tier = "d"
      BY <1>1, BaseFacts
  <2>2. t.base \notin DOMAIN moves \cup DOMAIN exports
      BY <1>2 DEF Covered
  <2>3. ~Reading(t.base)
      BY <1>2, <2>1 DEF Reading
  <2>4. copies[t.base].demotion = 0 /\ copies[t.base].foreground = 0 /\ copies[t.base].export = 0
      BY <2>1, <2>2, <2>3 DEF TierInv, SourcesPinned
  <2> QED
      BY <2>1, <2>4 DEF InPlace, Reusable, Pins
<1>7. "d" \in Tiers /\ "d" \in Ledgers /\ vs \subseteq Eligible("d", {s})
      /\ CanEvict("d", {s}, Growth(s))
    BY <1>1, VictimsEligible DEF Tiers, Ledgers, Crowded, GrowthFits
<1>8. FreeWithout(vs, "d") >= Growth(s)
    BY <1>7, VictimsMakeRoom DEF Crowded
<1>9. Free("d") + Weight(copies, Ousted(vs), "d") >= Growth(s)
    BY <1>8 DEF FreeWithout
<1> HIDE DEF vs
<1>10. /\ Ousted(vs) \in SUBSET DOMAIN copies
       /\ \A l \in Ledgers : Weight(copies, Ousted(vs), l) \in Nat
    BY <1>7, OustedWeight
<1>11. /\ vs \subseteq Session \ {s}
       /\ \A i \in Ousted(vs) : copies[i].session # s
  <2> DEFINE spared == {s}
  <2>1. vs \subseteq Eligible("d", spared)
      BY <1>7
  <2> HIDE DEF spared
  <2>2. Unread("d", spared, vs)
      BY <1>7, <2>1, OustedFacts
  <2> QED
      BY <2>2 DEF Unread, spared
<1>12. CopyTable(kept) /\ DOMAIN kept = DOMAIN copies \ Ousted(vs)
       /\ \A i \in DOMAIN kept : kept[i] = copies[i]
  <2>1. CopyTable(copies)
      BY CopiesTable DEF TierInv
  <2>2. DOMAIN kept = DOMAIN copies \ Ousted(vs) /\ \A i \in DOMAIN kept : kept[i] = copies[i]
      OBVIOUS
  <2> HIDE DEF kept
  <2> QED
      BY <2>1, <2>2 DEF CopyTable
<1> HIDE DEF kept
<1>13. Table(copies)
    BY CopiesTable DEF Table, TierInv, LedgerInv
<1>14. Table(kept)
    BY <1>12, <1>13, FS_Subset DEF Table
<1>15. old \in SUBSET DOMAIN kept
    BY <1>11, <1>12 DEF CopiesOf
<1>16. id \notin old /\ (InPlace(s) => id \in DOMAIN kept)
    BY <1>4, <1>11, <1>12
<1>17. ASSUME NEW i \in DOMAIN copies, i # id, copies[i].session = s
       PROVE  i \in old
    BY <1>17 DEF CopiesOf
<1> HIDE DEF old
<1>18. /\ Table(left) /\ DOMAIN left = DOMAIN kept \ Dying(kept, old)
       /\ \A i \in DOMAIN left : SameData(left[i], kept[i])
       /\ InPlace(s) => id \in DOMAIN left
       /\ \A l : /\ Weight(left, DOMAIN left, l)
                      = Weight(kept, DOMAIN kept, l) - Weight(kept, Dying(kept, old), l)
                 /\ Weight(kept, Dying(kept, old), l) \in Nat
                 /\ Weight(left, DOMAIN left, l) \in Nat
                 /\ Weight(kept, DOMAIN kept, l) \in Nat
  <2>1. CopyTable(kept)
      BY <1>12
  <2>2. /\ DOMAIN left = {i \in DOMAIN kept : i \in old => Pins(kept[i]) # 0}
        /\ \A i \in DOMAIN left : SameData(left[i], kept[i])
      BY <2>1, RetireTable
  <2>3. \A l : /\ Weight(left, DOMAIN left, l)
                      = Weight(kept, DOMAIN kept, l) - Weight(kept, Dying(kept, old), l)
               /\ Weight(kept, Dying(kept, old), l) \in Nat
               /\ Weight(left, DOMAIN left, l) \in Nat
               /\ Weight(kept, DOMAIN kept, l) \in Nat
               /\ Table(left)
      BY <1>14, <1>15, WeightRetired
  <2>4. DOMAIN left = DOMAIN kept \ Dying(kept, old)
      BY <2>2 DEF Dying
  <2>5. InPlace(s) => id \in DOMAIN left
      BY <1>16, <2>2
  <2> HIDE DEF left
  <2> QED
      BY <2>2, <2>3, <2>4, <2>5
<1> HIDE DEF left
<1>19. \A i \in DOMAIN left : i \in DOMAIN copies /\ SameData(left[i], copies[i])
    BY <1>12, <1>18
<1>20. ASSUME NEW l \in Ledgers
       PROVE  /\ Weight(left, DOMAIN left, l) = CopyBytes(l) - out(l)
              /\ out(l) \in Nat /\ CopyBytes(l) \in Nat
              /\ Weight(copies, Ousted(vs), l) <= out(l)
  <2> DEFINE gone == Ousted(vs) \cup Dying(kept, old)
  <2>1. DOMAIN left = DOMAIN copies \ gone /\ gone \in SUBSET DOMAIN copies
    <3>1. Dying(kept, old) \subseteq DOMAIN kept
        BY <1>15 DEF Dying
    <3> QED
        BY <1>10, <1>12, <1>18, <3>1
  <2>2. \A i \in DOMAIN left : left[i].tier = copies[i].tier /\ left[i].bytes = copies[i].bytes
      BY <1>19 DEF SameData
  <2>3. \A i \in DOMAIN kept : kept[i].tier = copies[i].tier /\ kept[i].bytes = copies[i].bytes
      BY <1>12
  <2> HIDE DEF gone
  <2>4. /\ Weight(left, DOMAIN left, l)
              = Weight(copies, DOMAIN copies, l) - Weight(copies, gone, l)
        /\ Weight(copies, gone, l) \in Nat
      BY <1>13, <2>1, <2>2, WeightWithout
  <2>5. /\ Weight(kept, DOMAIN kept, l)
              = Weight(copies, DOMAIN copies, l) - Weight(copies, Ousted(vs), l)
        /\ Weight(copies, Ousted(vs), l) \in Nat /\ Weight(copies, DOMAIN copies, l) \in Nat
    <3>1. DOMAIN kept = DOMAIN copies \ Ousted(vs) /\ Ousted(vs) \in SUBSET DOMAIN copies
        BY <1>10, <1>12
    <3> DEFINE out0 == Ousted(vs)
    <3> HIDE DEF out0
    <3>2. DOMAIN kept = DOMAIN copies \ out0 /\ out0 \in SUBSET DOMAIN copies
        BY <3>1 DEF out0
    <3>3. /\ Weight(kept, DOMAIN kept, l)
              = Weight(copies, DOMAIN copies, l) - Weight(copies, out0, l)
          /\ Weight(copies, out0, l) \in Nat /\ Weight(copies, DOMAIN copies, l) \in Nat
        BY <1>13, <2>3, <3>2, WeightWithout, ZenonT(30)
    <3> QED
        BY <3>3 DEF out0
  <2>6. /\ Weight(left, DOMAIN left, l)
             = Weight(kept, DOMAIN kept, l) - Weight(kept, Dying(kept, old), l)
        /\ Weight(kept, Dying(kept, old), l) \in Nat
      BY <1>18
  <2>7. Weight(copies, Ousted(vs), l) <= Weight(copies, gone, l)
      BY <2>4, <2>5, <2>6
  <2> QED
      BY <2>4, <2>5, <2>7 DEF CopyBytes, gone
<1> HIDE DEF out
<1>21. /\ DOMAIN copies' = DOMAIN left \cup {id} /\ copies'[id] = new
       /\ \A i \in DOMAIN left \ {id} : copies'[i] = left[i]
    BY <1>1
<1>22. ASSUME NEW l \in Ledgers
       PROVE  /\ CopyBytes(l)' = CopyBytes(l) - out(l) + (IF l = "d" THEN t.target - held ELSE 0)
              /\ IsFiniteSet(DOMAIN copies')
  <2>1. CopyTable(copies')
      BY DEF TierInv, TierTypeOK, CopyTable
  <2>2. Table(left)
      BY <1>18
  <2>3. CASE InPlace(s)
    <3>1. id \in DOMAIN left /\ DOMAIN copies' = DOMAIN left
        BY <1>18, <1>21, <2>3
    <3>2. left[id].tier = "d" /\ left[id].bytes = copies[id].bytes
        BY <1>4, <1>19, <2>3, <3>1 DEF SameData
    <3>3. copies'[id].tier = left[id].tier
          /\ \A i \in DOMAIN left \ {id} :
               copies'[i].tier = left[i].tier /\ copies'[i].bytes = left[i].bytes
        BY <1>3, <1>21, <3>2
    <3>4. Weight(copies', DOMAIN copies', l)
             = Weight(left, DOMAIN left, l)
                  + (IF left[id].tier = l THEN copies'[id].bytes - left[id].bytes ELSE 0)
        BY <2>1, <2>2, <3>1, <3>3, WeightResized
    <3>5. (IF left[id].tier = l THEN copies'[id].bytes - left[id].bytes ELSE 0)
             = (IF l = "d" THEN t.target - held ELSE 0)
        BY <1>3, <1>21, <2>3, <3>2
    <3>6. IsFiniteSet(DOMAIN copies')
        BY <2>2, <3>1 DEF Table
    <3>7. CopyBytes(l)' = Weight(copies', DOMAIN copies', l)
        BY DEF CopyBytes
    <3> HIDE DEF held
    <3> QED
        BY <1>20, <3>4, <3>5, <3>6, <3>7
  <2>4. CASE ~InPlace(s)
    <3>1. id \notin DOMAIN left
        BY <1>5, <1>19, <2>4
    <3>2. \A i \in DOMAIN left : copies'[i].tier = left[i].tier /\ copies'[i].bytes = left[i].bytes
        BY <1>21, <3>1
    <3>3. DOMAIN copies' = DOMAIN left \cup {id}
        BY <1>21
    <3>4. /\ Weight(copies', DOMAIN copies', l)
                = Weight(left, DOMAIN left, l)
                     + (IF copies'[id].tier = l THEN copies'[id].bytes ELSE 0)
          /\ IsFiniteSet(DOMAIN copies')
        BY <2>1, <2>2, <3>1, <3>2, <3>3, WeightWith
    <3>5. (IF copies'[id].tier = l THEN copies'[id].bytes ELSE 0)
             = (IF l = "d" THEN t.target - held ELSE 0)
        BY <1>2, <1>3, <1>21, <2>4
    <3>6. CopyBytes(l)' = Weight(copies', DOMAIN copies', l)
        BY DEF CopyBytes
    <3> HIDE DEF held
    <3> QED
        BY <1>20, <3>4, <3>5, <3>6
  <2> QED
      BY <2>3, <2>4
<1>23. held \in Nat /\ Growth(s) \in Nat /\ t.target - t.d - held <= Growth(s)
  <2>1. held \in Nat
      BY <1>4
  <2>2. held = (IF InPlace(s) THEN copies[t.base].bytes ELSE 0)
      BY <1>4
  <2> DEFINE x == t.target - t.d - held
  <2>3. x \in Int
      BY <1>2, <2>1
  <2>4. CASE setup.reserve # "final_context_upfront"
    <3>1. Growth(s) = Max({0, x})
        BY <1>1, <2>2, <2>4 DEF Growth
    <3> HIDE DEF x
    <3>2. Growth(s) \in Nat /\ Growth(s) >= x
        BY <2>3, <3>1, MaxOfTwo
    <3> QED
        BY <2>1, <2>3, <3>2 DEF x
  <2>5. CASE setup.reserve = "final_context_upfront"
    <3>1. Growth(s) = 0
        BY <2>5 DEF Growth
    <3>2. t.target <= t.d + (IF t.base = NoCopy THEN 0 ELSE copies[t.base].bytes)
        BY <1>2, <2>5 DEF Covered
    <3>3. CASE t.base # NoCopy
        BY <1>2, <1>6, <2>1, <2>2, <3>1, <3>2, <3>3
    <3>4. CASE t.base = NoCopy
        BY <1>2, <2>1, <3>1, <3>2, <3>4
    <3> QED
        BY <3>3, <3>4
  <2> QED
      BY <2>4, <2>5
<1> HIDE DEF held
<1>24. ASSUME NEW l \in Ledgers
       PROVE  /\ used'[l] = CopyBytes(l)' + MoveBytes(l)' + ExportBytes(l)' + TicketBytes(l)'
              /\ used'[l] <= setup'.cap[l] /\ used'[l] \in Int
  <2> DEFINE x == IF l = "d" THEN t.target - held ELSE 0
             d == IF l = "d" THEN t.d ELSE 0
  <2>1. MoveBytes(l)' = MoveBytes(l) /\ ExportBytes(l)' = ExportBytes(l)
      BY <1>1, SameMoves, SameExports
  <2>2. /\ TicketBytes(l)' = TicketBytes(l) - TicketOwes(t, l) + TicketOwes(NoTicket, l)
        /\ TicketOwes(t, l) \in Nat /\ TicketOwes(NoTicket, l) = 0
      BY <1>1, TicketChanges, OwesNat
  <2>3. TicketOwes(t, l) = p(l) + d /\ p(l) \in Nat /\ d \in Nat
      BY <1>1, <1>2 DEF TicketOwes
  <2>4. used[l] = CopyBytes(l) + MoveBytes(l) + ExportBytes(l) + TicketBytes(l)
        /\ used[l] <= setup.cap[l] /\ setup.cap[l] \in Nat /\ CopyBytes(l) \in Nat
        /\ MoveBytes(l) \in Nat /\ ExportBytes(l) \in Nat /\ TicketBytes(l) \in Nat
      BY LedgerFacts
  <2>5. out(l) \in Nat /\ Weight(copies, Ousted(vs), l) \in Nat
        /\ Weight(copies, Ousted(vs), l) <= out(l)
      BY <1>10, <1>20
  <2>6. used'[l] = used[l] - out(l) - p(l) + x - d
    <3>1. used'[l] = used[l] - out(l) - p(l) + (IF l # "d" THEN 0 ELSE new.bytes - t.d - held)
        BY <1>1
    <3> HIDE DEF p
    <3>2. CASE l = "d"
        BY <1>2, <1>3, <1>23, <2>3, <2>4, <2>5, <3>1, <3>2
    <3>3. CASE l # "d"
        BY <2>3, <2>4, <2>5, <3>1, <3>3
    <3> QED
        BY <3>2, <3>3
  <2>7. CopyBytes(l)' = CopyBytes(l) - out(l) + x
      BY <1>22
  <2>8. x \in Int /\ used[l] - out(l) + x - d <= setup.cap[l]
    <3>1. CASE l = "d"
      <4>1. Free(l) = setup.cap[l] - used[l]
          BY DEF Free
      <4>2. Free(l) + Weight(copies, Ousted(vs), l) >= Growth(s)
          BY <1>9, <3>1
      <4>3. x = t.target - held /\ d = t.d
          BY <3>1
      <4> HIDE DEF x, d
      <4> QED
          BY <1>2, <1>23, <2>4, <2>5, <4>1, <4>2, <4>3
    <3>2. CASE l # "d"
        BY <2>4, <2>5, <3>2
    <3> QED
        BY <3>1, <3>2
  <2>9. setup'.cap[l] = setup.cap[l]
      BY <1>1
  <2> HIDE DEF x, d, p
  <2> QED
      BY <2>1, <2>2, <2>3, <2>4, <2>5, <2>6, <2>7, <2>8, <2>9
<1>25. used' \in [Ledgers -> Int] /\ LedgersBalance'
  <2>1. used' \in [Ledgers -> Int]
      BY <1>1, <1>24
  <2> QED
      BY <1>24, <2>1, StillBalanced
<1>26. setup' \in Setups /\ IsFiniteSet(DOMAIN copies')
    BY <1>1, <1>7, <1>22 DEF LedgerInv
<1>27. Sized'
  <2>1. ASSUME NEW i \in DOMAIN copies'
        PROVE  copies'[i].bytes = BytesOn(copies'[i].tier, copies'[i].tokens)
    <3>1. CASE i = id
        BY <1>3, <1>21, <3>1
    <3>2. CASE i # id
      <4>1. SameData(copies'[i], copies[i]) /\ i \in DOMAIN copies
          BY <1>19, <1>21, <3>2
      <4> QED
          BY <4>1 DEF SameData, LedgerInv, Sized
    <3> QED
        BY <3>1, <3>2
  <2>2. ASSUME NEW c \in DOMAIN moves'
        PROVE  /\ moves'[c].dest \in {"cpu", "ssd"}
               /\ moves'[c].bytes = BytesOn(moves'[c].dest, copies'[c].tokens)
    <3>1. c \in DOMAIN copies' /\ c \in DOMAIN moves /\ moves'[c] = moves[c]
          /\ c \in DOMAIN copies
        BY <1>1 DEF TierInv, SourcesPinned
    <3>2. c # id
        BY <1>4, <1>5, <3>1
    <3>3. SameData(copies'[c], copies[c])
        BY <1>19, <1>21, <3>1, <3>2
    <3> QED
        BY <3>1, <3>3 DEF SameData, LedgerInv, Sized
  <2> QED
      BY <2>1, <2>2 DEF Sized
<1>28. \A x \in Session : tickets'[x] # NoTicket => Covered(tickets[x])'
  <2> SUFFICES ASSUME NEW x \in Session, tickets'[x] # NoTicket
               PROVE  Covered(tickets[x])'
      OBVIOUS
  <2>0. x # s /\ tickets'[x] = tickets[x]
      BY <1>1 DEF TierInv, TierTypeOK
  <2>1. \A i \in DOMAIN copies \cap DOMAIN copies' :
          copies[i].session = x => copies'[i].bytes = copies[i].bytes
    <3> SUFFICES ASSUME NEW i \in DOMAIN copies \cap DOMAIN copies', copies[i].session = x
                 PROVE  copies'[i].bytes = copies[i].bytes
        OBVIOUS
    <3>1. i # id
        BY <1>4, <1>5, <2>0
    <3> QED
        BY <1>19, <1>21, <3>1 DEF SameData
  <2>2. \A i \in DOMAIN moves' \cup DOMAIN exports' : i \in DOMAIN moves \cup DOMAIN exports
      BY <1>1
  <2> QED
      BY <1>1, <2>0, <2>1, <2>2, CoveredKept
<1>29. lru' \in Seq(Session) /\ \A x \in Session : KnownAge(x)'
  <2> DEFINE q == TouchAll(vs)
             only == Only(q, Session \ {s})
  <2>1. q \in Seq(Session) /\ Aged(q) = Aged(lru)
      BY TouchedAged DEF LedgerInv
  <2> HIDE DEF q
  <2>2. only \in Seq(Session) /\ Aged(only) = Aged(q) \cap (Session \ {s})
      BY <2>1, OnlyAged
  <2> HIDE DEF only
  <2>3. Append(only, s) \in Seq(Session) /\ Aged(Append(only, s)) = Aged(only) \cup {s}
      BY <2>2, AppendAged
  <2>4. Aged(lru) \subseteq Session
      BY DEF LedgerInv, Aged
  <2>5. lru' = Append(only, s)
      BY <1>1 DEF only, q
  <2>6. lru' \in Seq(Session) /\ Aged(lru') = Aged(lru) \cup {s}
      BY <2>1, <2>2, <2>3, <2>4, <2>5
  <2>7. \A x \in Session : \/ rec'[x].state \in {"lost", "ended"}
                           \/ rec[x].state \notin {"lost", "ended"}
                           \/ x \in Aged(lru')
    <3> SUFFICES ASSUME NEW x \in Session, x # s
                 PROVE  \/ rec'[x].state \in {"lost", "ended"}
                        \/ rec[x].state \notin {"lost", "ended"}
        BY <2>6
    <3>1. rec'[x] = WithoutSessions(vs)[x]
        BY <1>1
    <3>2. (x \notin vs => WithoutSessions(vs)[x] = rec[x])
          /\ (x \in vs => WithoutSessions(vs)[x].state = "lost")
        BY <1>11, WithoutFacts DEF TierInv
    <3> QED
        BY <3>1, <3>2
  <2> QED
      BY <2>6, <2>7, AgesKept DEF LedgerInv
<1> QED
    BY <1>25, <1>26, <1>27, <1>28, <1>29 DEF LedgerInv

-----------------------------------------------------------------------------
(* The ledgers of every behaviour.                                         *)

\* What preload_session placed fits, and nothing else is reserved yet.
LEMMA LedgersStart ==
    ASSUME TierInit
    PROVE  LedgerInv
<1>1. /\ setup \in Setups
      /\ copies = [i \in DOMAIN setup.stored |->
                     NewCopy(setup.stored[i].session, setup.stored[i].tier, 1, 0,
                             setup.stored[i].tokens)]
      /\ lru = setup.order /\ moves = <<>> /\ exports = <<>>
      /\ tickets = [s \in Session |-> NoTicket]
      /\ used = [l \in Ledgers |-> Weight(copies, DOMAIN copies, l)]
    BY DEF TierInit
<1>2. DOMAIN moves = {} /\ DOMAIN exports = {} /\ \A s \in Session : tickets[s] = NoTicket
    BY <1>1
<1>3. DOMAIN copies = DOMAIN setup.stored /\ IsFiniteSet(DOMAIN copies)
    BY <1>1, SetupsFit
<1>4. Sized
  <2>1. ASSUME NEW i \in DOMAIN copies
        PROVE  copies[i].bytes = BytesOn(copies[i].tier, copies[i].tokens)
      BY <1>1 DEF NewCopy
  <2> QED
      BY <1>2, <2>1 DEF Sized
<1>5. lru \in Seq(Session) /\ \A s \in Session : KnownAge(s)
  <2>1. lru \in Seq(Session)
      BY <1>1, SetupsFit
  <2>2. ASSUME NEW s \in Session, rec[s].state \notin {"lost", "ended"}
        PROVE  \E n \in DOMAIN lru : lru[n] = s
    <3>0. TierInit /\ s \in Session
        OBVIOUS
    <3>a. \/ Held(s) = {} /\ rec[s].state = "lost"
          \/ \E i \in Held(s) : TRUE
      <4>1. \/ /\ Held(s) = {}
               /\ rec[s] = [state |-> "lost", generation |-> 0, version |-> 0, tokens |-> 0,
                            primary |-> NoCopy]
            \/ \E i \in Held(s) :
                 /\ Held(s) = {i}
                 /\ rec[s] = [state |-> ReadyIn[setup.stored[i].tier], generation |-> 0,
                              version |-> 1, tokens |-> setup.stored[i].tokens, primary |-> i]
          BY ONLY <3>0, StoredFacts
      <4>2. CASE Held(s) = {}
        <5>1. rec[s] = [state |-> "lost", generation |-> 0, version |-> 0, tokens |-> 0,
                        primary |-> NoCopy]
            BY <4>1, <4>2
        <5> QED
            BY <4>2, <5>1
      <4> QED
          BY <4>1, <4>2
    <3>1. PICK i \in Held(s) : TRUE
        BY <2>2, <3>a
    <3>2. i \in DOMAIN setup.stored /\ setup.stored[i].session = s
        BY <3>1 DEF Held
    <3> QED
        BY <1>1, <3>2, SetupsFit
  <2> QED
      BY <2>1, <2>2 DEF KnownAge
<1>6. ASSUME NEW l \in Ledgers
      PROVE  /\ used[l] = Owed(l) /\ used[l] <= setup.cap[l] /\ used[l] \in Int
  <2>1. MoveBytes(l) = 0
    <3> DEFINE f == [i \in DOMAIN moves |-> MoveOwes(moves[i], l)]
    <3>1. DOMAIN f = {}
        BY <1>2
    <3> HIDE DEF f
    <3>2. SumFunction(f) = 0
        BY <3>1, SumEmpty DEF SumFunction
    <3> QED
        BY <3>2 DEF MoveBytes, f
  <2>2. ExportBytes(l) = 0
    <3> DEFINE f == [i \in DOMAIN exports |-> IF l = "cpu" THEN exports[i].bytes ELSE 0]
    <3>1. DOMAIN f = {}
        BY <1>2
    <3> HIDE DEF f
    <3>2. SumFunction(f) = 0
        BY <3>1, SumEmpty DEF SumFunction
    <3> QED
        BY <3>2 DEF ExportBytes, f
  <2>3. TicketBytes(l) = 0
    <3> DEFINE f == [s \in Session |-> TicketOwes(tickets[s], l)]
    <3>1. DOMAIN f = Session /\ \A s \in Session : f[s] = 0
        BY <1>2, OwesNat
    <3> HIDE DEF f
    <3>2. SumFunction(f) = 0
        BY <3>1, SumZero, SizesAssumption DEF SumFunction
    <3> QED
        BY <3>2 DEF TicketBytes, f
  <2>4. CopyBytes(l) = Stored(setup, l)
    <3> DEFINE f == [i \in DOMAIN copies |-> IF copies[i].tier = l THEN copies[i].bytes ELSE 0]
               g == [i \in DOMAIN setup.stored |->
                       IF setup.stored[i].tier = l THEN BytesOn(l, setup.stored[i].tokens) ELSE 0]
    <3>1. \A i \in DOMAIN copies : /\ copies[i].tier = setup.stored[i].tier
                                   /\ copies[i].bytes = BytesOn(setup.stored[i].tier,
                                                                setup.stored[i].tokens)
        BY <1>1 DEF NewCopy
    <3>2. f = g
        BY <1>3, <3>1
    <3>3. CopyBytes(l) = SumFunctionOnSet(f, DOMAIN f)
        BY DEF CopyBytes, Weight
    <3>4. Stored(setup, l) = SumFunctionOnSet(g, DOMAIN g)
        BY DEF Stored, SumFunction
    <3> HIDE DEF f, g
    <3> QED
        BY <3>2, <3>3, <3>4
  <2>5. CopyBytes(l) \in Nat
    <3>1. Table(copies)
        BY <1>3, InitHolds, CopiesTable DEF Table, TierInv
    <3>2. DOMAIN copies \in SUBSET DOMAIN copies
        OBVIOUS
    <3> QED
        BY <3>1, <3>2, WeightParts DEF CopyBytes
  <2>6. Stored(setup, l) <= setup.cap[l]
      BY <1>1, SetupsFit
  <2>7. used[l] = CopyBytes(l)
      BY <1>1 DEF CopyBytes
  <2>8. Owed(l) = CopyBytes(l) + MoveBytes(l) + ExportBytes(l) + TicketBytes(l)
      BY DEF Owed, CopyBytes, MoveBytes, ExportBytes, TicketBytes
  <2> QED
      BY <2>1, <2>2, <2>3, <2>4, <2>5, <2>6, <2>7, <2>8
<1>7. used \in [Ledgers -> Int] /\ LedgersBalance
    BY <1>1, <1>6 DEF LedgersBalance
<1> QED
    BY <1>1, <1>2, <1>3, <1>4, <1>5, <1>7 DEF LedgerInv

LEMMA StepKeepsLedgers ==
    ASSUME TierInv, LedgerInv, TierNext
    PROVE  LedgerInv'
<1>0. TierInv'
    BY StepKeeps
<1>1. CASE \E s \in Session : Move(s)
    BY <1>0, <1>1, MoveKeepsLedgers
<1>2. CASE \E s \in Session : Serve(s)
  <2>1. PICK s \in Session : Serve(s)
      BY <1>2
  <2> QED
      BY <1>0, <2>1, BeginPrepareKeepsLedgers, CompletePrepareKeepsLedgers,
         ReleasePKeepsLedgers, FinishKeepsLedgers, PublishKeepsLedgers DEF Serve
<1>3. CASE \E s \in Session : Leave(s)
    BY <1>0, <1>3, EndKeepsLedgers, RestartEndedKeepsLedgers, BeginExportKeepsLedgers
       DEF Leave
<1>4. CASE \E c \in CopyId : Stage(c)
    BY <1>0, <1>4, StageKeepsLedgers
<1> QED
    BY <1>1, <1>2, <1>3, <1>4 DEF TierNext

LEMMA StutterKeepsLedgers ==
    ASSUME LedgerInv, UNCHANGED tierVars
    PROVE  LedgerInv'
<1>1. /\ setup' = setup /\ rec' = rec /\ lru' = lru /\ copies' = copies /\ moves' = moves
      /\ tickets' = tickets /\ exports' = exports /\ used' = used
    BY DEF tierVars
<1> QED
    BY <1>1 DEF LedgerInv, KnownAge, Sized, Covered, LedgersBalance, Owed

(* Every reachable state of a node satisfies the invariant of the ledgers. *)
THEOREM LedgerInvariant == TierSpec => []LedgerInv
<1>1. TierInit => TierInv /\ LedgerInv
    BY InitHolds, LedgersStart
<1>2. TierInv /\ LedgerInv /\ [TierNext]_tierVars => (TierInv /\ LedgerInv)'
    BY StepKeeps, StutterKeeps, StepKeepsLedgers, StutterKeepsLedgers
<1> QED
    BY <1>1, <1>2, PTL DEF TierSpec

(* For every node, policy, capacity, set of stored sessions and order of   *)
(* calls, transfers, evictions and exports: what a ledger of               *)
(* TieredPDKVLifecycle says is reserved is the sum of the copies that      *)
(* exist, the destinations and bounces of transfers in flight, the staged  *)
(* exports and the reservations of uncommitted calls, and it never exceeds *)
(* the capacity: no path frees bytes twice, forgets some, or overcommits.  *)
THEOREM LedgersNeverDrift == TierSpec => []LedgersBalance
<1>1. LedgerInv => LedgersBalance
    BY DEF LedgerInv
<1> QED
    BY <1>1, LedgerInvariant, PTL
-----------------------------------------------------------------------------

(* The lifecycle implements the cache of a session.                        *)

View(r, t, cs) ==
  [phase |-> CASE r.state \in Busy -> "busy" [] r.state = "ended" -> "ended"
               [] OTHER -> "idle",
   version |-> r.version,
   context |-> IF r.state \in Busy \/ r.primary = NoCopy THEN 0 ELSE cs[r.primary].tokens,
   reused |-> IF t = NoTicket THEN 0 ELSE t.hit]

LEMMA KVIsView ==
    ASSUME NEW s \in Session
    PROVE  /\ KV[s] = View(rec[s], tickets[s], copies)
           /\ KV'[s] = View(rec'[s], tickets'[s], copies')
    BY DEF KV, View

LEMMA ViewCases ==
    ASSUME NEW r \in SessionRecords, NEW t, NEW cs
    PROVE  /\ r.state \in Busy /\ t # NoTicket => View(r, t, cs) = Sessions!Busy(r.version, t.hit)
           /\ r.state = "ended" /\ r.primary = NoCopy /\ t = NoTicket
                => View(r, t, cs) = Sessions!Ended(r.version)
           /\ r.state \notin Busy \cup {"ended"} /\ t = NoTicket
                => View(r, t, cs) =
                     Sessions!Idle(r.version, IF r.primary = NoCopy THEN 0 ELSE cs[r.primary].tokens)
    BY DEF View, Sessions!Idle, Sessions!Busy, Sessions!Ended, Busy

LEMMA AbstractSteps ==
    ASSUME NEW v \in Nat, NEW n \in Nat, NEW h \in Nat
    PROVE  /\ Sessions!Step(Sessions!Idle(v, n), Sessions!Idle(v, 0))
           /\ h <= n => Sessions!Step(Sessions!Idle(v, n), Sessions!Busy(v, h))
           /\ h < n => Sessions!Step(Sessions!Busy(v, h), Sessions!Idle(v + 1, n))
           /\ Sessions!Step(Sessions!Idle(v, n), Sessions!Ended(v))
           /\ Sessions!Step(Sessions!Busy(v, h), Sessions!Ended(v))
           /\ Sessions!Step(Sessions!Ended(v), Sessions!Idle(v, 0))
    BY DEF Sessions!Step, Sessions!Lose, Sessions!Resume, Sessions!PublishNext,
           Sessions!Close, Sessions!Reopen, Sessions!Idle, Sessions!Busy, Sessions!Ended

Context(s) == IF rec[s].primary = NoCopy THEN 0 ELSE copies[rec[s].primary].tokens

\* What KV shows of a session of each phase.
LEMMA ViewNow ==
    ASSUME TierInv, NEW s \in Session
    PROVE  /\ rec[s].version \in Nat /\ Context(s) \in Nat
           /\ rec[s].state \in Busy
                => /\ tickets[s] # NoTicket
                   /\ tickets[s].hit \in Nat
                   /\ tickets[s].final \in Nat
                   /\ KV[s] = Sessions!Busy(rec[s].version, tickets[s].hit)
           /\ rec[s].state = "ended" => KV[s] = Sessions!Ended(rec[s].version)
           /\ rec[s].state \notin Busy \cup {"ended"}
                => tickets[s] = NoTicket /\ KV[s] = Sessions!Idle(rec[s].version, Context(s))
<1> USE DEF TierInv
<1>1. rec[s] \in SessionRecords /\ rec[s].version \in Nat
    BY Typed DEF SessionRecords
<1>2. Context(s) \in Nat
    BY DEF TierTypeOK, OneAuthority, CopyRecords, Context
<1>3. rec[s].state \in Busy <=> tickets[s] # NoTicket
    BY DEF OneAuthority
<1>4. tickets[s] # NoTicket => tickets[s].hit \in Nat /\ tickets[s].final \in Nat
    BY DEF TierTypeOK, TicketRecords
<1>5. rec[s].state = "ended" => rec[s].primary = NoCopy /\ rec[s].state \notin Busy
    BY DEF OneAuthority, Busy
<1>6. KV[s] = View(rec[s], tickets[s], copies)
    BY KVIsView
<1> QED
    BY <1>1, <1>2, <1>3, <1>4, <1>5, <1>6, ViewCases DEF Context

Refined(s) == KV'[s] = KV[s] \/ Sessions!Step(KV[s], KV'[s])

\* Others: their context is not touched.
LEMMA SameTokens ==
    ASSUME NEW r, NEW t, NEW cs, NEW ds,
           r.primary # NoCopy => ds[r.primary].tokens = cs[r.primary].tokens
    PROVE  View(r, t, ds) = View(r, t, cs)
<1>1. (IF r.state \in Busy \/ r.primary = NoCopy THEN 0 ELSE ds[r.primary].tokens)
      = (IF r.state \in Busy \/ r.primary = NoCopy THEN 0 ELSE cs[r.primary].tokens)
    OBVIOUS
<1> QED
    BY <1>1 DEF View

LEMMA Kept ==
    ASSUME TierInv, TierInv', NEW s \in Session,
           rec'[s] = rec[s], tickets'[s] = tickets[s],
           \A i \in DOMAIN copies \cap DOMAIN copies' :
             copies[i].session = s => copies'[i].tokens = copies[i].tokens
    PROVE  KV'[s] = KV[s]
<1>1. rec[s].primary # NoCopy =>
        /\ rec[s].primary \in DOMAIN copies \cap DOMAIN copies'
        /\ copies[rec[s].primary].session = s
    BY DEF TierInv, OneAuthority
<1> QED
    BY <1>1, KVIsView, SameTokens

\* A session that is idle before and after, with the same context.
LEMMA StaysIdle ==
    ASSUME TierInv, NEW s \in Session, rec[s].state \notin Busy \cup {"ended"},
           rec'[s] \in SessionRecords, rec'[s].state \notin Busy \cup {"ended"},
           rec'[s].version = rec[s].version,
           rec[s].primary # NoCopy, rec'[s].primary # NoCopy,
           copies'[rec'[s].primary].tokens = copies[rec[s].primary].tokens,
           tickets'[s] = tickets[s]
    PROVE  KV'[s] = KV[s]
<1>1. tickets[s] = NoTicket /\ KV[s] = Sessions!Idle(rec[s].version, Context(s))
    BY ViewNow
<1> QED
    BY <1>1, KVIsView, ViewCases DEF Context

LEMMA Loses ==
    ASSUME TierInv, NEW s \in Session, rec[s].state \notin Busy \cup {"ended"},
           rec'[s] \in SessionRecords, rec'[s].state = "lost", rec'[s].primary = NoCopy,
           rec'[s].version = rec[s].version, tickets'[s] = tickets[s]
    PROVE  Refined(s)
<1>1. /\ tickets[s] = NoTicket /\ KV[s] = Sessions!Idle(rec[s].version, Context(s))
      /\ rec[s].version \in Nat /\ Context(s) \in Nat
    BY ViewNow
<1>2. KV'[s] = Sessions!Idle(rec[s].version, 0)
    BY <1>1, KVIsView, ViewCases DEF Busy
<1> QED
    BY <1>1, <1>2, AbstractSteps DEF Refined

LEMMA Closes ==
    ASSUME TierInv, NEW s \in Session, rec[s].state # "ended",
           rec'[s] \in SessionRecords, rec'[s].state = "ended", rec'[s].primary = NoCopy,
           rec'[s].version = rec[s].version, tickets'[s] = NoTicket
    PROVE  Refined(s)
<1>1. /\ rec[s].version \in Nat
      /\ \E n, h \in Nat : \/ KV[s] = Sessions!Idle(rec[s].version, n)
                           \/ KV[s] = Sessions!Busy(rec[s].version, h)
    BY ViewNow
<1>2. KV'[s] = Sessions!Ended(rec[s].version)
    BY KVIsView, ViewCases
<1> QED
    BY <1>1, <1>2, AbstractSteps DEF Refined

LEMMA RetireSpares ==
    ASSUME NEW cs, NEW gone, NEW i \in DOMAIN Retire(cs, gone), i \notin gone
    PROVE  i \in DOMAIN cs /\ Retire(cs, gone)[i] = cs[i]
    BY DEF Retire, Dying

LEMMA RetireTokens ==
    ASSUME NEW cs, NEW gone, CopyTable(cs)
    PROVE  LET r == Retire(cs, gone)
           IN  DOMAIN r \subseteq DOMAIN cs /\ \A i \in DOMAIN r : r[i].tokens = cs[i].tokens
<1> DEFINE r == Retire(cs, gone)
<1>1. /\ DOMAIN r = {i \in DOMAIN cs : i \in gone => Pins(cs[i]) # 0}
      /\ \A i \in DOMAIN r : SameData(r[i], cs[i])
    BY RetireFacts
<1> HIDE DEF r
<1>2. DOMAIN r \subseteq DOMAIN cs /\ \A i \in DOMAIN r : r[i].tokens = cs[i].tokens
    BY <1>1 DEF SameData
<1> QED
    BY <1>2 DEF r

-----------------------------------------------------------------------------
(* Operations that change one session and its copies.                      *)

\* The copies of other sessions are as they were, or gone.
SparesOthers(s) ==
  \A i \in DOMAIN copies \cap DOMAIN copies' : copies[i].session # s => copies'[i] = copies[i]

LEMMA OthersKept ==
    ASSUME TierInv, TierInv', NEW s \in Session, SparesOthers(s),
           NEW x \in Session \ {s}, rec'[x] = rec[x], tickets'[x] = tickets[x]
    PROVE  Refined(x)
    BY Kept DEF SparesOthers, Refined

LEMMA DropRefines ==
    ASSUME TierInv, TierInv', NEW s \in Session, Drop(s), NEW x \in Session
    PROVE  Refined(x)
<1>1. /\ rec[s].state = "d_ready" /\ rec' = [rec EXCEPT ![s] = Lost(rec[s])]
      /\ copies' = Retire(copies, {rec[s].primary}) /\ tickets' = tickets
    BY DEF Drop
<1>2. /\ rec[s] \in SessionRecords /\ rec \in [Session -> SessionRecords]
      /\ copies[rec[s].primary].session = s
    BY <1>1, Typed DEF TierInv, OneAuthority, ReadyIn, Tiers
<1>3. SparesOthers(s)
    BY <1>1, <1>2, RetireSpares DEF SparesOthers
<1>4. CASE x = s
  <2>1. /\ rec'[s] = Lost(rec[s]) /\ rec'[s] \in SessionRecords /\ rec'[s].state = "lost"
        /\ rec'[s].primary = NoCopy /\ rec'[s].version = rec[s].version
      BY <1>1, <1>2, GoneFacts DEF Lost
  <2> QED
      BY <1>1, <1>4, <2>1, Loses DEF Busy
<1>5. CASE x # s
    BY <1>1, <1>2, <1>3, <1>5, OthersKept
<1> QED
    BY <1>4, <1>5

LEMMA EndRefines ==
    ASSUME TierInv, TierInv', NEW s \in Session, End(s), NEW x \in Session
    PROVE  Refined(x)
<1>1. /\ rec[s].state \notin Busy \cup {"ended"}
      /\ rec' = [rec EXCEPT ![s] = Overtaken(Now(rec[s], "ended", NoCopy, 0))]
      /\ copies' = Retire(copies, CopiesOf(s)) /\ tickets' = tickets
    BY DEF End
<1>2. rec[s] \in SessionRecords /\ rec \in [Session -> SessionRecords]
    BY Typed DEF TierInv
<1>3. SparesOthers(s)
    BY <1>1, RetireSpares DEF SparesOthers, CopiesOf
<1>4. CASE x = s
  <2>1. /\ rec'[s] \in SessionRecords /\ rec'[s].state = "ended"
        /\ rec'[s].primary = NoCopy /\ rec'[s].version = rec[s].version
      BY <1>1, <1>2, GoneFacts
  <2>2. tickets'[s] = NoTicket
      BY <1>1, ViewNow
  <2> QED
      BY <1>1, <1>4, <2>1, <2>2, Closes
<1>5. CASE x # s
    BY <1>1, <1>2, <1>3, <1>5, OthersKept
<1> QED
    BY <1>4, <1>5

LEMMA FinishRefines ==
    ASSUME TierInv, TierInv', NEW s \in Session, Finish(s), NEW x \in Session
    PROVE  Refined(x)
<1>1. /\ rec[s].state = "active"
      /\ rec' = [rec EXCEPT ![s] = Now(rec[s], "ended", NoCopy, 0)]
      /\ copies' = Retire(copies, CopiesOf(s))
      /\ tickets' = [tickets EXCEPT ![s] = NoTicket]
    BY DEF Finish, CommitDue
<1>2. /\ rec[s] \in SessionRecords /\ rec \in [Session -> SessionRecords]
      /\ tickets \in [Session -> TicketRecords \cup {NoTicket}]
    BY Typed DEF TierInv, TierTypeOK
<1>3. SparesOthers(s)
    BY <1>1, RetireSpares DEF SparesOthers, CopiesOf
<1>4. CASE x = s
  <2>1. /\ rec'[s] \in SessionRecords /\ rec'[s].state = "ended"
        /\ rec'[s].primary = NoCopy /\ rec'[s].version = rec[s].version
      BY <1>1, <1>2, GoneFacts
  <2> QED
      BY <1>1, <1>2, <1>4, <2>1, Closes
<1>5. CASE x # s
    BY <1>1, <1>2, <1>3, <1>5, OthersKept
<1> QED
    BY <1>4, <1>5

LEMMA RestartEndedRefines ==
    ASSUME TierInv, TierInv', NEW s \in Session, RestartEnded(s), NEW x \in Session
    PROVE  Refined(x)
<1>1. /\ rec[s].state = "ended" /\ copies' = copies /\ tickets' = tickets
      /\ rec' = [rec EXCEPT ![s] = Overtaken(Now(rec[s], "lost", NoCopy, 0))]
    BY DEF RestartEnded, Drained
<1>2. rec[s] \in SessionRecords /\ rec \in [Session -> SessionRecords]
    BY Typed DEF TierInv
<1>3. SparesOthers(s)
    BY <1>1 DEF SparesOthers
<1>4. CASE x = s
  <2>1. /\ rec'[s] \in SessionRecords /\ rec'[s].state = "lost"
        /\ rec'[s].primary = NoCopy /\ rec'[s].version = rec[s].version
      BY <1>1, <1>2, GoneFacts
  <2>2. /\ KV[s] = Sessions!Ended(rec[s].version) /\ rec[s].version \in Nat
        /\ tickets[s] = NoTicket
      BY <1>1, ViewNow DEF TierInv, OneAuthority, Busy
  <2>3. KV'[s] = Sessions!Idle(rec[s].version, 0)
      BY <1>1, <2>1, <2>2, KVIsView, ViewCases DEF Busy
  <2> QED
      BY <1>4, <2>2, <2>3, AbstractSteps DEF Refined
<1>5. CASE x # s
    BY <1>1, <1>2, <1>3, <1>5, OthersKept
<1> QED
    BY <1>4, <1>5

\* A copy that is pinned or unpinned keeps its tokens.
LEMMA SameSessions ==
    ASSUME TierInv, TierInv', rec' = rec, tickets' = tickets,
           \A i \in DOMAIN copies \cap DOMAIN copies' : copies'[i].tokens = copies[i].tokens,
           NEW x \in Session
    PROVE  Refined(x)
    BY Kept DEF Refined

LEMMA ReleasePRefines ==
    ASSUME TierInv, TierInv', NEW s \in Session, ReleaseP(s), NEW x \in Session
    PROVE  Refined(x)
<1>1. /\ rec[s].state = "active" /\ rec' = rec /\ copies' = copies
      /\ tickets' = [tickets EXCEPT ![s] = [tickets[s] EXCEPT !.pReleased = TRUE]]
    BY DEF ReleaseP
<1>2. /\ tickets[s] # NoTicket /\ tickets[s] \in TicketRecords /\ rec[s] \in SessionRecords
      /\ tickets \in [Session -> TicketRecords \cup {NoTicket}]
    BY <1>1, Typed DEF TierInv, OneAuthority, TierTypeOK, Busy
<1>3. SparesOthers(s)
    BY <1>1 DEF SparesOthers
<1>4. CASE x = s
  <2>1. tickets'[s].hit = tickets[s].hit /\ tickets'[s] # NoTicket
      BY <1>1, <1>2 DEF TicketRecords, TierInv, OneAuthority, Busy
  <2>2. /\ KV[s] = Sessions!Busy(rec[s].version, tickets[s].hit)
        /\ KV'[s] = Sessions!Busy(rec[s].version, tickets[s].hit)
    <3>1. rec[s].state \in Busy /\ rec'[s] = rec[s]
        BY <1>1 DEF Busy
    <3>2. KV'[s] = Sessions!Busy(rec[s].version, tickets'[s].hit)
        BY <1>2, <2>1, <3>1, KVIsView, ViewCases
    <3> QED
        BY <2>1, <3>1, <3>2, ViewNow
  <2> QED
      BY <1>4, <2>2 DEF Refined
<1>5. CASE x # s
    BY <1>1, <1>2, <1>3, <1>5, OthersKept
<1> QED
    BY <1>4, <1>5

LEMMA BeginExportRefines ==
    ASSUME TierInv, TierInv', NEW s \in Session, BeginExport(s), NEW x \in Session
    PROVE  Refined(x)
<1> DEFINE c == rec[s].primary
<1>1. /\ rec' = rec /\ tickets' = tickets /\ copies' = [copies EXCEPT ![c].export = @ + 1]
    BY DEF BeginExport
<1>2. \A i \in DOMAIN copies : copies[i] \in CopyRecords
    BY Typed DEF TierInv, CopyTable
<1> HIDE DEF c
<1>3. \A i \in DOMAIN copies \cap DOMAIN copies' : copies'[i].tokens = copies[i].tokens
    BY <1>1, <1>2 DEF CopyRecords
<1> QED
    BY <1>1, <1>3, SameSessions

LEMMA ReleaseExportRefines ==
    ASSUME TierInv, TierInv', NEW c \in DOMAIN exports, ReleaseExport(c), NEW x \in Session
    PROVE  Refined(x)
<1> DEFINE unpin == [copies EXCEPT ![c].export = @ - 1]
           spent == IF copies[c].retired THEN {c} ELSE {}
<1>1. rec' = rec /\ tickets' = tickets /\ copies' = Retire(unpin, spent)
    BY DEF ReleaseExport
<1>2. /\ CopyTable(unpin) /\ DOMAIN unpin = DOMAIN copies
      /\ \A i \in DOMAIN copies : unpin[i].tokens = copies[i].tokens
    BY ExportUnpinned DEF SameData
<1> HIDE DEF unpin, spent
<1>3. \A i \in DOMAIN copies \cap DOMAIN copies' : copies'[i].tokens = copies[i].tokens
  <2> DEFINE left == Retire(unpin, spent)
  <2>1. DOMAIN left \subseteq DOMAIN unpin /\ \A i \in DOMAIN left : left[i].tokens = unpin[i].tokens
      BY <1>2, RetireTokens
  <2>2. copies' = left
      BY <1>1
  <2> HIDE DEF left
  <2> QED
      BY <1>2, <2>1, <2>2
<1> QED
    BY <1>1, <1>3, SameSessions

LEMMA FinishExportRefines ==
    ASSUME TierInv, TierInv', NEW c \in CopyId, FinishExport(c), NEW x \in Session
    PROVE  Refined(x)
<1>0. PICK s \in Session : s = exports[c].session
    BY DEF FinishExport, TierInv, TierTypeOK
<1> DEFINE unpin == [copies EXCEPT ![c].export = @ - 1]
<1>1. /\ rec[s].state = "ssd_ready" /\ copies' = Retire(unpin, CopiesOf(s))
      /\ rec' = [rec EXCEPT ![s] = Overtaken(Now(rec[s], "ended", NoCopy, 0))]
      /\ tickets' = tickets /\ c \in DOMAIN exports
    BY <1>0 DEF FinishExport, PublicationValid
<1>2. /\ rec[s] \in SessionRecords /\ rec \in [Session -> SessionRecords]
      /\ copies[c].session = s
    BY <1>0, <1>1, Typed DEF TierInv, Links
<1>3. SparesOthers(s)
  <2>1. DOMAIN unpin = DOMAIN copies /\ \A i \in DOMAIN copies \ {c} : unpin[i] = copies[i]
      OBVIOUS
  <2> HIDE DEF unpin
  <2> QED
      BY <1>1, <1>2, <2>1, RetireSpares DEF SparesOthers, CopiesOf
<1>4. CASE x = s
  <2>1. /\ rec'[s] \in SessionRecords /\ rec'[s].state = "ended"
        /\ rec'[s].primary = NoCopy /\ rec'[s].version = rec[s].version
      BY <1>1, <1>2, GoneFacts
  <2>2. tickets'[s] = NoTicket
      BY <1>1, ViewNow DEF Busy
  <2> QED
      BY <1>1, <1>4, <2>1, <2>2, Closes
<1>5. CASE x # s
    BY <1>1, <1>2, <1>3, <1>5, OthersKept
<1> QED
    BY <1>4, <1>5

LEMMA StageRefines ==
    ASSUME TierInv, TierInv', NEW c \in CopyId, Stage(c), NEW x \in Session
    PROVE  Refined(x)
<1>1. c \in DOMAIN exports
    BY DEF Stage, CompleteExport, FinishExport, AbortExport
<1>2. CASE FinishExport(c)
    BY <1>2, FinishExportRefines
<1>3. CASE ReleaseExport(c)
    BY <1>1, <1>3, ReleaseExportRefines
<1>4. CASE rec' = rec /\ tickets' = tickets /\ copies' = copies
    BY <1>4, SameSessions
<1> QED
    BY <1>2, <1>3, <1>4 DEF Stage, CompleteExport, AbortExport

-----------------------------------------------------------------------------
(* Operations that also evict, or that move a context.                     *)

LEMMA StartMoveRefines ==
    ASSUME TierInv, TierInv', NEW s \in Session, NEW dest, NEW bounce,
           NEW state \in Demoting, NEW spared, s \in spared,
           NEW vs, vs \subseteq Eligible("ssd", spared),
           rec[s].state \in {"d_ready", "cpu_ready"},
           StartMove(s, dest, bounce, state, vs), NEW x \in Session
    PROVE  Refined(x)
<1> DEFINE c == rec[s].primary
           kept == [i \in DOMAIN copies \ Ousted(vs) |-> copies[i]]
           r == Now(rec[s], state, c, rec[s].tokens)
           w == WithoutSessions(vs)
<1>1. /\ copies' = [kept EXCEPT ![c].demotion = @ + 1]
      /\ rec' = [w EXCEPT ![s] = r]
      /\ tickets' = tickets
    BY DEF StartMove
<1>2. Unread("ssd", spared, vs)
    BY OustedFacts DEF Tiers
<1>3. vs \subseteq Session \ {s} /\ \A v \in vs : rec[v].state \notin Busy \cup {"ended"}
    BY <1>2 DEF Unread, ReadyIn
<1>4. /\ w \in [Session -> SessionRecords]
      /\ \A y \in Session \ vs : w[y] = rec[y]
      /\ \A y \in vs : w[y].state = "lost" /\ w[y].primary = NoCopy
                       /\ w[y].version = rec[y].version
    BY <1>3, WithoutFacts DEF TierInv
<1>5. /\ c \in DOMAIN copies /\ c # NoCopy /\ c \notin Ousted(vs)
      /\ copies[c].session = s /\ rec[s] \in SessionRecords
  <2>1. PICK tier \in Tiers : rec[s].state = ReadyIn[tier]
      BY DEF ReadyIn, Tiers
  <2>2. c \in DOMAIN copies /\ c # NoCopy /\ copies[c].session = s
      BY <2>1, IdleCopy
  <2> QED
      BY <1>2, <1>3, <2>2, Typed DEF Unread, TierInv
<1>6. /\ DOMAIN copies' \subseteq DOMAIN copies
      /\ \A i \in DOMAIN copies' : copies'[i].tokens = copies[i].tokens
  <2>1. DOMAIN kept \subseteq DOMAIN copies /\ \A i \in DOMAIN kept : kept[i] = copies[i]
      OBVIOUS
  <2>2. \A i \in DOMAIN copies : copies[i] \in CopyRecords
      BY Typed DEF TierInv, CopyTable
  <2> HIDE DEF c, kept
  <2> QED
      BY <1>1, <2>1, <2>2 DEF CopyRecords
<1> HIDE DEF w
<1>7. CASE x = s
  <2>1. rec'[s] = r /\ rec'[s] \in SessionRecords
      BY <1>1, <1>4 DEF TierInv, TierTypeOK
  <2>2. /\ rec'[s].primary = c /\ rec'[s].version = rec[s].version
        /\ rec'[s].state \notin Busy \cup {"ended"}
      BY <1>5, <2>1 DEF Now, SessionRecords, Busy, Demoting
  <2>3. c \in DOMAIN copies'
      BY <1>5, <2>2 DEF TierInv, OneAuthority
  <2> QED
      BY <1>1, <1>5, <1>6, <1>7, <2>1, <2>2, <2>3, StaysIdle DEF Refined, Busy
<1>8. CASE x \in vs
  <2>1. rec'[x] = w[x]
      BY <1>1, <1>3, <1>4, <1>8
  <2> QED
      BY <1>1, <1>3, <1>4, <1>8, <2>1, Loses
<1>9. CASE x \notin vs /\ x # s
  <2>1. rec'[x] = rec[x] /\ tickets'[x] = tickets[x]
      BY <1>1, <1>4, <1>9
  <2> QED
      BY <1>6, <2>1, Kept DEF Refined
<1> QED
    BY <1>7, <1>8, <1>9

LEMMA CompleteMoveRefines ==
    ASSUME TierInv, TierInv', NEW c \in CopyId, NEW id \in FreshCopies, CompleteMove(c, id),
           NEW x \in Session
    PROVE  Refined(x)
<1>0. PICK s \in Session : s = moves[c].session
    BY DEF CompleteMove, TierInv, TierTypeOK
<1> DEFINE src == copies[c]
           dest == moves[c].dest
           new == NewCopy(s, dest, src.version, src.generation, src.tokens)
           cs == [copies EXCEPT ![c].demotion = @ - 1]
           gone == IF Spent(c) THEN {c} ELSE {}
           left == Retire(cs, gone)
           r == Now(rec[s], ReadyIn[dest], id, src.tokens)
<1>1. /\ c \in DOMAIN moves /\ id \notin DOMAIN copies /\ id # NoCopy
      /\ copies' = IF StillWanted(c)
                   THEN [i \in DOMAIN left \cup {id} |-> IF i = id THEN new ELSE left[i]]
                   ELSE left
      /\ rec' = IF StillWanted(c) THEN [rec EXCEPT ![s] = r] ELSE rec
      /\ tickets' = tickets
    BY <1>0, NamesAssumption DEF CompleteMove, FreshCopies
<1>2. /\ rec[s] \in SessionRecords /\ rec \in [Session -> SessionRecords] /\ dest \in Tiers
    BY <1>1, Typed DEF TierInv, TierTypeOK
<1>3. DOMAIN left \subseteq DOMAIN copies /\ \A i \in DOMAIN left : left[i].tokens = copies[i].tokens
  <2>1. /\ CopyTable(cs) /\ DOMAIN cs = DOMAIN copies
        /\ \A i \in DOMAIN cs \ {c} : cs[i] = copies[i]
        /\ SameData(cs[c], copies[c])
      BY <1>1, MoveUnpinned
  <2> HIDE DEF cs, gone
  <2>2. DOMAIN left \subseteq DOMAIN cs /\ \A i \in DOMAIN left : left[i].tokens = cs[i].tokens
      BY <2>1, RetireTokens
  <2> HIDE DEF left
  <2> QED
      BY <2>1, <2>2 DEF SameData
<1>4. new.tokens = src.tokens
    BY DEF NewCopy
<1> HIDE DEF left, new
<1>5. \A i \in DOMAIN copies \cap DOMAIN copies' : copies'[i].tokens = copies[i].tokens
    BY <1>1, <1>3
<1>6. CASE StillWanted(c) /\ x = s
  <2>1. /\ rec'[s] = r /\ rec[s].primary = c /\ rec[s].state \in Demoting
        /\ copies'[id].tokens = copies[c].tokens
      BY <1>0, <1>1, <1>2, <1>4, <1>6 DEF StillWanted
  <2>2. /\ rec'[s].primary = id /\ rec'[s].version = rec[s].version
        /\ rec'[s].state \notin Busy \cup {"ended"} /\ rec'[s] \in SessionRecords
    <3>1. rec'[s] \in SessionRecords
        BY DEF TierInv, TierTypeOK
    <3> QED
        BY <1>2, <2>1, <3>1 DEF Now, SessionRecords, ReadyIn, Tiers, Busy
  <2>3. c # NoCopy /\ rec[s].state \notin Busy \cup {"ended"}
      BY <2>1, NamesAssumption DEF Demoting, Busy
  <2> QED
      BY <1>1, <1>6, <2>1, <2>2, <2>3, StaysIdle DEF Refined
<1>7. CASE ~(StillWanted(c) /\ x = s)
  <2>1. rec'[x] = rec[x] /\ tickets'[x] = tickets[x]
      BY <1>1, <1>2, <1>7
  <2> QED
      BY <1>5, <2>1, Kept DEF Refined
<1> QED
    BY <1>6, <1>7

LEMMA MoveRefines ==
    ASSUME TierInv, TierInv', NEW s \in Session, Move(s), NEW x \in Session
    PROVE  Refined(x)
<1>1. CASE Drop(s)
    BY <1>1, DropRefines
<1>2. CASE DemoteToCpu(s)
  <2> DEFINE vs == {}
             spared == {s}
  <2>1. /\ StartMove(s, "cpu", 0, "d_demoting_cpu", vs) /\ rec[s].state = "d_ready"
        /\ vs \subseteq Eligible("ssd", spared) /\ s \in spared
        /\ "d_demoting_cpu" \in Demoting
      BY <1>2 DEF DemoteToCpu, Demoting
  <2> HIDE DEF vs, spared
  <2> QED
      BY <2>1, StartMoveRefines
<1>3. CASE DemoteToSsd(s)
  <2> DEFINE vs == Victims("ssd", {s}, Aggregate(s))
             spared == {s}
  <2>1. /\ StartMove(s, "ssd", Aggregate(s), "d_demoting_ssd", vs) /\ rec[s].state = "d_ready"
        /\ vs \subseteq Eligible("ssd", spared) /\ s \in spared
        /\ "d_demoting_ssd" \in Demoting
      BY <1>3, VictimsEligible DEF DemoteToSsd, Demoting
  <2> HIDE DEF vs, spared
  <2> QED
      BY <2>1, StartMoveRefines
<1>4. ASSUME NEW among, Spill(s, among)
      PROVE  Refined(x)
  <2> DEFINE spared == {s} \cup among
             vs == Victims("ssd", spared, Aggregate(s))
  <2>1. /\ StartMove(s, "ssd", 0, "cpu_demoting_ssd", vs) /\ rec[s].state = "cpu_ready"
        /\ vs \subseteq Eligible("ssd", spared) /\ s \in spared
        /\ "cpu_demoting_ssd" \in Demoting
      BY <1>4, VictimsEligible DEF Spill, Demoting
  <2> HIDE DEF vs, spared
  <2> QED
      BY <2>1, StartMoveRefines
<1>5. ASSUME NEW c \in CopyId, NEW id \in FreshCopies, CompleteMove(c, id)
      PROVE  Refined(x)
    BY <1>5, CompleteMoveRefines
<1> QED
    BY <1>1, <1>2, <1>3, <1>4, <1>5 DEF Move

-----------------------------------------------------------------------------
(* Calls.                                                                  *)

LEMMA BeginPrepareRefines ==
    ASSUME TierInv, TierInv', NEW s \in Session, NEW c \in Calls, BeginPrepare(s, c),
           NEW x \in Session
    PROVE  Refined(x)
<1> DEFINE pl == Plan(s, c)
           id == rec[s].primary
           below == id # NoCopy /\ copies[id].tier # "d"
           unused == IF below /\ pl.tier = "none" THEN {id} ELSE {}
           read == [i \in DOMAIN copies |->
                      IF i = pl.copy THEN ReadBy(copies[i], pl.tier) ELSE copies[i]]
           next == IF below THEN NoCopy ELSE id
           r == Overtaken(Now(rec[s], "preparing", next, rec[s].tokens))
<1>1. /\ rec[s].state \notin Busy \cup {"ended"}
      /\ copies' = Retire(read, unused)
      /\ rec' = [rec EXCEPT ![s] = r]
      /\ tickets' = [tickets EXCEPT ![s] = pl]
    BY DEF BeginPrepare
<1>2. /\ rec[s] \in SessionRecords /\ rec \in [Session -> SessionRecords]
      /\ tickets \in [Session -> TicketRecords \cup {NoTicket}]
      /\ rec'[s] \in SessionRecords
    BY Typed DEF TierInv, TierTypeOK
<1>3. pl.copy \in {id, NoCopy} /\ pl \in TicketRecords /\ pl # NoTicket
    BY PlanFacts, NamesAssumption DEF Sound
<1>4. pl.hit \in Nat /\ pl.hit <= Context(s)
  <2>1. pl.hit = Hit(c, Context(s))
      BY DEF Plan, Context
  <2>2. Context(s) \in Nat /\ c \in CallRecords
      BY ViewNow, CallsAssumption
  <2> HIDE DEF pl
  <2> QED
      BY <2>1, <2>2, HitBounds
<1> HIDE DEF pl
<1>5. SparesOthers(s)
  <2>1. id # NoCopy => copies[id].session = s
      BY DEF TierInv, OneAuthority
  <2>2. NoCopy \notin DOMAIN copies
      BY NamesAssumption DEF TierInv, TierTypeOK
  <2>3. DOMAIN read = DOMAIN copies /\ \A i \in DOMAIN copies : i # pl.copy => read[i] = copies[i]
      OBVIOUS
  <2>4. unused \subseteq {id} /\ (unused # {} => id # NoCopy)
      OBVIOUS
  <2> HIDE DEF read, unused
  <2> QED
      BY <1>1, <1>3, <2>1, <2>2, <2>3, <2>4, RetireSpares DEF SparesOthers
<1>6. CASE x = s
  <2>1. /\ tickets[s] = NoTicket /\ KV[s] = Sessions!Idle(rec[s].version, Context(s))
        /\ rec[s].version \in Nat /\ Context(s) \in Nat
      BY <1>1, ViewNow
  <2>2. rec'[s] = r /\ tickets'[s] = pl
      BY <1>1, <1>2
  <2>3. rec'[s].state \in Busy /\ rec'[s].version = rec[s].version
      BY <1>2, <2>2 DEF Overtaken, Now, SessionRecords, Busy
  <2>4. KV'[s] = Sessions!Busy(rec[s].version, pl.hit)
      BY <1>2, <1>3, <2>2, <2>3, KVIsView, ViewCases
  <2> QED
      BY <1>4, <1>6, <2>1, <2>4, AbstractSteps DEF Refined
<1>7. CASE x # s
    BY <1>1, <1>2, <1>5, <1>7, OthersKept
<1> QED
    BY <1>6, <1>7

LEMMA CompletePrepareRefines ==
    ASSUME TierInv, TierInv', NEW s \in Session, CompletePrepare(s), NEW x \in Session
    PROVE  Refined(x)
<1> DEFINE t == tickets[s]
           left == ReadOut(t)
           shed == Shed(t, left)
           cut == Shortened(t, left)
           kept == Retire(cut, shed)
           gone == DOMAIN copies \ DOMAIN kept
           held == IF rec[s].primary \in gone THEN NoCopy ELSE rec[s].primary
           size == IF cut # left THEN cut[t.base].tokens ELSE rec[s].tokens
           r == Now(rec[s], "active", held, size)
           b == IF t.base \in shed THEN NoCopy ELSE t.base
           u == Restored(t, b)
<1>1. /\ t # NoTicket /\ rec[s].state = "preparing" /\ ~t.restored
      /\ copies' = kept
      /\ rec' = [rec EXCEPT ![s] = r]
      /\ tickets' = [tickets EXCEPT ![s] = u]
    BY DEF CompletePrepare
<1>2. /\ rec[s] \in SessionRecords /\ rec \in [Session -> SessionRecords]
      /\ tickets \in [Session -> TicketRecords \cup {NoTicket}] /\ t \in TicketRecords
      /\ tickets' \in [Session -> TicketRecords \cup {NoTicket}]
      /\ rec'[s] \in SessionRecords
    BY <1>1, Typed DEF TierInv, TierTypeOK
<1>3. SparesOthers(s)
  <2> SUFFICES ASSUME NEW i \in DOMAIN copies \cap DOMAIN copies', copies[i].session # s
               PROVE  copies'[i] = copies[i]
      BY DEF SparesOthers
  <2>1. i # t.copy /\ i # t.base
    <3>1. TicketMatches(s) /\ NoCopy \notin DOMAIN copies
      <4> HIDE DEF t, kept, r, u
      <4>1. DOMAIN copies \subseteq CopyId /\ \A y \in Session : tickets[y] # NoTicket => TicketMatches(y)
          BY DEF TierInv, Links, TierTypeOK
      <4> QED
          BY <1>1, <4>1, NamesAssumption DEF t
    <3>2. t.base # NoCopy => copies[t.base].session = s
        BY <3>1 DEF TicketMatches, TierInv, OneAuthority
    <3> QED
        BY <1>1, <3>1, <3>2 DEF TicketMatches
  <2>2. i \notin shed /\ shed \subseteq {t.base}
      BY <2>1 DEF Shed
  <2> HIDE DEF shed, cut
  <2>3. i \in DOMAIN cut /\ copies'[i] = cut[i]
      BY <1>1, <2>2, RetireSpares
  <2>4. i \in DOMAIN left /\ cut[i] = left[i]
    <3> HIDE DEF left
    <3> QED
        BY <2>1, <2>3 DEF cut, Shortened
  <2> DEFINE unpin == [k \in DOMAIN copies |->
                         IF k = t.copy THEN [copies[k] EXCEPT !.foreground = @ - 1]
                         ELSE copies[k]]
             spent == {k \in DOMAIN copies : k = t.copy /\ copies[k].retired}
  <2>5. left = Retire(unpin, spent) /\ i \notin spent /\ unpin[i] = copies[i]
      BY <2>1 DEF ReadOut
  <2> HIDE DEF unpin, spent, left
  <2> QED
      BY <2>3, <2>4, <2>5, RetireSpares
<1> HIDE DEF held, size, u
<1>4. CASE x = s
  <2>1. rec'[s] = r /\ tickets'[s] = u
      BY <1>1, <1>2
  <2>2. rec'[s].state \in Busy /\ rec'[s].version = rec[s].version
      BY <1>2, <2>1 DEF Now, SessionRecords, Busy
  <2>3. tickets'[s].hit = t.hit /\ tickets'[s] # NoTicket
    <3>1. tickets'[s] # NoTicket
        BY <2>2 DEF TierInv, OneAuthority
    <3>2. u.hit = t.hit
        BY <1>2 DEF u, Restored, TicketRecords
    <3> QED
        BY <2>1, <3>1, <3>2
  <2>4. KV'[s] = Sessions!Busy(rec[s].version, t.hit)
      BY <1>2, <2>2, <2>3, KVIsView, ViewCases
  <2>5. KV[s] = Sessions!Busy(rec[s].version, t.hit)
      BY <1>1, ViewNow DEF Busy
  <2> QED
      BY <1>4, <2>4, <2>5 DEF Refined
<1>5. CASE x # s
    BY <1>1, <1>2, <1>3, <1>5, OthersKept
<1> QED
    BY <1>4, <1>5

LEMMA PublishRefines ==
    ASSUME TierInv, TierInv', NEW s \in Session, NEW id \in CopyId, Publish(s, id),
           NEW x \in Session
    PROVE  Refined(x)
<1> DEFINE t == tickets[s]
           vs == Crowded(s)
           spared == {s}
           tier == "d"
           new == NewCopy(s, "d", rec[s].version + 1, rec[s].generation, t.final)
           old == CopiesOf(s) \ {id}
           kept == [i \in DOMAIN copies \ Ousted(vs) |-> copies[i]]
           left == Retire(kept, old)
           now == Now(rec[s], "d_ready", id, t.final)
           r == [now EXCEPT !.version = @ + 1]
           w == WithoutSessions(vs)
<1>1. /\ t # NoTicket /\ rec[s].state = "active"
      /\ IF InPlace(s) THEN id = t.base ELSE id \in FreshCopies
      /\ copies' = [i \in DOMAIN left \cup {id} |-> IF i = id THEN new ELSE left[i]]
      /\ rec' = [w EXCEPT ![s] = r]
      /\ tickets' = [tickets EXCEPT ![s] = NoTicket]
    BY DEF Publish, CommitDue
<1>2. /\ rec[s] \in SessionRecords /\ t \in TicketRecords
      /\ tickets \in [Session -> TicketRecords \cup {NoTicket}]
      /\ rec' \in [Session -> SessionRecords]
    BY <1>1, Typed, NamesAssumption DEF TierInv, TierTypeOK
<1>3. tier \in Tiers /\ s \in spared /\ vs \subseteq Eligible(tier, spared)
    BY VictimsEligible DEF Tiers, Crowded
<1>4. vs \subseteq Session \ {s} /\ \A v \in vs : rec[v].state \notin Busy \cup {"ended"}
  <2> HIDE DEF vs, spared
  <2>1. Unread(tier, spared, vs)
      BY <1>3, OustedFacts
  <2> QED
      BY <2>1 DEF Unread, spared, ReadyIn
<1> HIDE DEF vs
<1>5. /\ w \in [Session -> SessionRecords]
      /\ \A y \in Session \ vs : w[y] = rec[y]
      /\ \A y \in vs : w[y].state = "lost" /\ w[y].primary = NoCopy
                       /\ w[y].version = rec[y].version
    BY <1>4, WithoutFacts DEF TierInv
<1>6. SparesOthers(s)
  <2> SUFFICES ASSUME NEW i \in DOMAIN copies \cap DOMAIN copies', copies[i].session # s
               PROVE  copies'[i] = copies[i]
      BY DEF SparesOthers
  <2>1. i # id
    <3>1. TicketMatches(s)
        BY <1>1 DEF TierInv, Links
    <3>2. InPlace(s) => copies[id].session = s
      <4> HAVE InPlace(s)
      <4>1. id = t.base /\ t.base # NoCopy
          BY <1>1, NamesAssumption
      <4>2. rec[s].primary = id /\ rec[s].primary # NoCopy
          BY <3>1, <4>1 DEF TicketMatches
      <4> QED
          BY <4>2 DEF TierInv, OneAuthority
    <3> QED
        BY <1>1, <3>2 DEF FreshCopies
  <2>2. i \notin old /\ \A k \in DOMAIN kept : kept[k] = copies[k]
      BY DEF CopiesOf
  <2> HIDE DEF old, kept, new
  <2>3. i \in DOMAIN left /\ copies'[i] = left[i]
      BY <1>1, <2>1
  <2> QED
      BY <2>2, <2>3, RetireSpares
<1>7. new.tokens = t.final
    BY DEF NewCopy
<1> HIDE DEF w, new
<1>8. CASE x = s
  <2>1. /\ rec[s].version \in Nat /\ t.hit \in Nat /\ t.final \in Nat /\ t.hit < t.final
        /\ KV[s] = Sessions!Busy(rec[s].version, t.hit)
      BY <1>1, ViewNow DEF Busy, TierInv, Links, TicketMatches
  <2>2. rec'[s] = r /\ tickets'[s] = NoTicket /\ copies'[id].tokens = t.final
      BY <1>1, <1>2, <1>5, <1>7
  <2>3. /\ rec'[s].state = "d_ready" /\ rec'[s].version = rec[s].version + 1
        /\ rec'[s].primary = id /\ rec'[s] \in SessionRecords
    <3>1. /\ now.state = "d_ready" /\ now.primary = id /\ now.version = rec[s].version
          /\ now \in SessionRecords
      <4>1. "d_ready" \in States /\ id \in CopyId \cup {NoCopy}
          BY DEF States
      <4> QED
          BY <1>2, <2>1, <4>1, NowFacts
    <3> HIDE DEF now
    <3> QED
        BY <1>2, <2>2, <3>1 DEF SessionRecords
  <2>4. KV'[s] = Sessions!Idle(rec[s].version + 1, t.final)
    <3>1. rec'[s].state \notin Busy \cup {"ended"} /\ rec'[s].primary # NoCopy
        BY <2>3, NamesAssumption DEF Busy
    <3> HIDE DEF t, left, now, r
    <3>2. KV'[s] = View(rec'[s], tickets'[s], copies')
        BY KVIsView
    <3>3. KV'[s] = Sessions!Idle(rec'[s].version, copies'[rec'[s].primary].tokens)
        BY <2>2, <2>3, <3>1, <3>2, ViewCases
    <3> QED
        BY <2>2, <2>3, <3>3
  <2> QED
      BY <1>8, <2>1, <2>4, AbstractSteps DEF Refined
<1>9. CASE x \in vs
  <2>1. rec'[x] = w[x] /\ tickets'[x] = tickets[x] /\ rec'[x] \in SessionRecords
      BY <1>1, <1>2, <1>4, <1>5, <1>9
  <2> QED
      BY <1>4, <1>5, <1>9, <2>1, Loses
<1>10. CASE x \notin vs /\ x # s
  <2>1. rec'[x] = rec[x] /\ tickets'[x] = tickets[x]
      BY <1>1, <1>2, <1>5, <1>10
  <2> QED
      BY <1>6, <1>10, <2>1, OthersKept
<1> QED
    BY <1>8, <1>9, <1>10

-----------------------------------------------------------------------------
LEMMA StepRefines ==
    ASSUME TierInv, TierInv', TierNext, NEW x \in Session
    PROVE  Refined(x)
<1>1. ASSUME NEW s \in Session, Move(s)
      PROVE  Refined(x)
    BY <1>1, MoveRefines
<1>2. ASSUME NEW s \in Session, Serve(s)
      PROVE  Refined(x)
    BY <1>2, BeginPrepareRefines, CompletePrepareRefines, ReleasePRefines, FinishRefines,
       PublishRefines DEF Serve
<1>3. ASSUME NEW s \in Session, Leave(s)
      PROVE  Refined(x)
    BY <1>3, EndRefines, RestartEndedRefines, BeginExportRefines DEF Leave
<1>4. ASSUME NEW c \in CopyId, Stage(c)
      PROVE  Refined(x)
    BY <1>4, StageRefines
<1> QED
    BY <1>1, <1>2, <1>3, <1>4 DEF TierNext

LEMMA InitRefines ==
    ASSUME TierInit, TierInv
    PROVE  Sessions!KVInit
<1> SUFFICES ASSUME NEW s \in Session PROVE KV[s] \in Sessions!Fresh
    BY DEF Sessions!KVInit, KV
<1>1. /\ rec[s] \in SessionRecords /\ tickets[s] = NoTicket
      /\ rec[s].state \notin Busy \cup {"ended"}
  <2>1. tickets[s] = NoTicket
      BY DEF TierInit
  <2>2. rec[s] \in SessionRecords /\ rec[s].state \notin Busy
      BY <2>1, Typed DEF TierInv, OneAuthority
  <2>3. rec[s].state # "ended"
    <3>1. CASE Held(s) = {}
        BY <3>1 DEF TierInit
    <3>2. CASE Held(s) # {}
      <4>1. PICK i \in Held(s) : rec[s].state = ReadyIn[setup.stored[i].tier]
          BY <3>2 DEF TierInit
      <4>2. setup.stored[i].tier \in Tiers
          BY <4>1, SetupsAssumption DEF TierInit, Held
      <4> QED
          BY <4>1, <4>2 DEF ReadyIn, Tiers
    <3> QED
        BY <3>1, <3>2
  <2> QED
      BY <2>1, <2>2, <2>3
<1>2. KV[s] = Sessions!Idle(rec[s].version, Context(s))
      /\ rec[s].version \in Nat /\ Context(s) \in Nat
    BY <1>1, ViewNow
<1> QED
    BY <1>2 DEF Sessions!Idle, Sessions!Fresh

(* The lifecycle implements the cache a session expects (SessionKV):       *)
(* whatever is demoted, evicted, exported, overtaken or restored, a call   *)
(* reuses no more than the context the call before it published, and only  *)
(* the end of a call publishes one.                                        *)
THEOREM CacheRefined == TierSpec => CacheRefinesSessions
<1>1. TierInit => Sessions!KVInit
    BY InitHolds, InitRefines
<1>2. TierInv /\ TierInv' /\ [TierNext]_tierVars => [Sessions!KVNext]_KV
  <2> SUFFICES ASSUME TierInv, TierInv', [TierNext]_tierVars
               PROVE  Sessions!KVNext \/ KV' = KV
      OBVIOUS
  <2>1. CASE TierNext
    <3>1. \A s \in Session : KV'[s] = KV[s] \/ Sessions!Step(KV[s], KV'[s])
        BY <2>1, StepRefines DEF Refined
    <3>2. KV' = [s \in Session |-> KV'[s]]
        BY DEF KV
    <3> QED
        BY <3>1, <3>2 DEF Sessions!KVNext
  <2>2. CASE UNCHANGED tierVars
      BY <2>2 DEF tierVars, KV
  <2> QED
      BY <2>1, <2>2
<1> QED
    BY <1>1, <1>2, TierInvariant, PTL DEF TierSpec, CacheRefinesSessions, Sessions!KVSpec

-----------------------------------------------------------------------------
(* The node implements the lifecycle.                                      *)

\* Sessions that have submitted a call.
Callers == {s \in Session : submitted[s] \in 1..Len(setup.script[s])}

NodeInv ==
  /\ TierInv
  /\ setup \in Setups
  /\ submitted \in [Session -> Nat]
  /\ pending \in Seq(Callers) /\ scan \in Seq(Callers)
  /\ victims \subseteq Session
  /\ phase = "reclaim" => scan # <<>>

LEMMA SubsetSeq ==
    ASSUME NEW S, NEW T, S \subseteq T, NEW q \in Seq(S)
    PROVE  q \in Seq(T)
OBVIOUS

LEMMA TailSeq ==
    ASSUME NEW S, NEW q \in Seq(S), q # <<>>
    PROVE  Head(q) \in S /\ Tail(q) \in Seq(S)
OBVIOUS

LEMMA TierKeepsSetup ==
    ASSUME [TierNext]_tierVars
    PROVE  setup' = setup
<1>1. ASSUME NEW s \in Session, Move(s)
      PROVE  setup' = setup
    BY <1>1 DEF Move, Drop, DemoteToCpu, DemoteToSsd, Spill, StartMove, CompleteMove
<1>2. ASSUME NEW s \in Session, Serve(s)
      PROVE  setup' = setup
    BY <1>2 DEF Serve, BeginPrepare, CompletePrepare, ReleaseP, Finish, Publish
<1>3. ASSUME NEW s \in Session, Leave(s)
      PROVE  setup' = setup
    BY <1>3 DEF Leave, End, RestartEnded, BeginExport
<1>4. ASSUME NEW c \in CopyId, Stage(c)
      PROVE  setup' = setup
    BY <1>4 DEF Stage, CompleteExport, FinishExport, AbortExport, ReleaseExport
<1>5. ASSUME UNCHANGED tierVars
      PROVE  setup' = setup
    BY <1>5 DEF tierVars
<1> QED
    BY <1>1, <1>2, <1>3, <1>4, <1>5, ZenonT(60) DEF TierNext

\* The call at the head of the walk is one of the calls considered.
LEMMA CallerCalls ==
    ASSUME NodeInv, NEW s \in Callers
    PROVE  s \in Session /\ PendingCall(s) \in Calls
<1> DEFINE k == submitted[s]
           script == setup.script[s]
<1>1. k \in DOMAIN script /\ s \in Session /\ setup \in Setups
      /\ script \in Seq([input : Nat \ {0}, output : Nat \ {0}, reuse : Nat])
    BY ScriptsAssumption DEF Callers, NodeInv
<1>2. [input |-> script[k].input, output |-> script[k].output, reuse |-> script[k].reuse,
       successor |-> k < Len(script)] \in Calls
    BY <1>1, ScriptsAssumption
<1> QED
    BY <1>1, <1>2 DEF PendingCall

LEMMA NewIdFresh ==
    ASSUME FreshCopies # {}
    PROVE  NewId \in FreshCopies /\ NewId \in CopyId
BY DEF NewId, FreshCopies

-----------------------------------------------------------------------------
(* Every step of the node is an operation of the lifecycle, or none.       *)

LEMMA EndsIsTier ==
    ASSUME NodeInv, Ends
    PROVE  [TierNext]_tierVars
<1>1. ASSUME NEW c \in CopyId, MoveEnds(c)
      PROVE  TierNext
  <2>1. NewId \in FreshCopies /\ CompleteMove(c, NewId)
      BY <1>1, NewIdFresh DEF MoveEnds
  <2>2. PICK s \in Session : s = moves[c].session
      BY <2>1 DEF CompleteMove, NodeInv, TierInv, TierTypeOK
  <2> QED
      BY <2>1, <2>2 DEF TierNext, Move
<1>2. ASSUME NEW c \in CopyId, ExportEnds(c)
      PROVE  TierNext
    BY <1>2 DEF ExportEnds, TierNext, Stage
<1>3. ASSUME NEW s \in Session, RestoreEnds(s)
      PROVE  TierNext
    BY <1>3 DEF RestoreEnds, TierNext, Serve
<1>4. ASSUME NEW s \in Session, HandoffEnds(s)
      PROVE  TierNext
    BY <1>4 DEF HandoffEnds, TierNext, Serve
<1>5. ASSUME NEW s \in Session, UserDone(s)
      PROVE  UNCHANGED tierVars
    BY <1>5 DEF UserDone
<1>6. ASSUME NEW s \in Session, FinishInternal(s)
      PROVE  TierNext
  <2> DEFINE id == IF InPlace(s) THEN tickets[s].base ELSE NewId
  <2>1. Publish(s, id) \/ Finish(s)
      BY <1>6 DEF FinishInternal
  <2>2. id \in CopyId
    <3>1. InPlace(s) => tickets[s].base \in CopyId
        BY DEF InPlace, Reusable, NodeInv, TierInv, TierTypeOK
    <3> QED
        BY <1>6, <3>1, NewIdFresh DEF FinishInternal
  <2> QED
      BY <2>1, <2>2 DEF TierNext, Serve
<1> QED
    BY <1>1, <1>2, <1>3, <1>4, <1>5, <1>6 DEF Ends

LEMMA UsersIsTier ==
    ASSUME NodeInv, Users
    PROVE  [TierNext]_tierVars
<1>1. ASSUME NEW s \in Session, Submit(s)
      PROVE  [TierNext]_tierVars
  <2>1. CASE RestartEnded(s)
      BY <2>1 DEF TierNext, Leave
  <2>2. CASE rec[s].primary \in DOMAIN exports /\ AbortExport(rec[s].primary)
    <3>1. rec[s].primary \in CopyId
        BY <2>2 DEF NodeInv, TierInv, SourcesPinned, TierTypeOK
    <3> QED
        BY <2>2, <3>1 DEF TierNext, Stage
  <2>3. CASE UNCHANGED tierVars
      BY <2>3
  <2> QED
      BY <1>1, <2>1, <2>2, <2>3 DEF Submit
<1>2. ASSUME NEW s \in Session, Offload(s)
      PROVE  TierNext
    BY <1>2 DEF Offload, TierNext, Move
<1>3. ASSUME NEW s \in Session, StartExport(s)
      PROVE  TierNext
    BY <1>3 DEF StartExport, TierNext, Leave
<1> QED
    BY <1>1, <1>2, <1>3 DEF Users

\* Sparing nobody, or the session a walk looks at.
LEMMA SpillIsTier ==
    ASSUME NEW v \in Session, NEW spared \in {{}} \cup {{x} : x \in Session},
           Spill(v, spared)
    PROVE  TierNext
<1>1. Move(v)
    BY DEF Move
<1> QED
    BY <1>1 DEF TierNext

LEMMA WalkIsTier ==
    ASSUME NodeInv, Walk
    PROVE  [TierNext]_tierVars
<1>1. CASE StartWalk \/ SkipCall \/ ShortOfD \/ EndWalk \/ EnoughD \/ NoVictimLeft
    BY <1>1 DEF StartWalk, SkipCall, ShortOfD, EndWalk, EnoughD, NoVictimLeft
<1>2. scan # <<>> => NextToAdmit \in Callers
    BY TailSeq DEF NodeInv, NextToAdmit
<1>3. CASE ShortOfBounce
  <2> DEFINE s == NextToAdmit
  <2>1. s \in Session
      BY <1>2, <1>3, CallerCalls DEF ShortOfBounce, Looking
  <2>2. UNCHANGED tierVars \/ \E v \in Session : Spill(v, {s})
      BY <1>3 DEF ShortOfBounce, Eligible
  <2> HIDE DEF s
  <2> QED
      BY <2>1, <2>2, SpillIsTier
<1>4. CASE Admit
  <2> DEFINE s == NextToAdmit
  <2>1. s \in Session /\ PendingCall(s) \in Calls /\ BeginPrepare(s, PendingCall(s))
      BY <1>2, <1>4, CallerCalls DEF Admit, Looking
  <2> HIDE DEF s
  <2> QED
      BY <2>1 DEF TierNext, Serve
<1>5. ASSUME NEW v \in victims, ReclaimByDrop(v)
      PROVE  TierNext
    BY <1>5 DEF ReclaimByDrop, NodeInv, TierNext, Move
<1>6. ASSUME NEW v \in victims, ReclaimToSsd(v)
      PROVE  [TierNext]_tierVars
    BY <1>6 DEF ReclaimToSsd, NodeInv, TierNext, Move
<1>7. ASSUME NEW v \in victims, ReclaimToCpu(v)
      PROVE  TierNext
    BY <1>7 DEF ReclaimToCpu, NodeInv, TierNext, Move
<1>8. ASSUME NEW v \in victims, ReclaimBySpill(v)
      PROVE  [TierNext]_tierVars
  <2>1. UNCHANGED tierVars \/ \E x \in Session : Spill(x, {})
      BY <1>8 DEF ReclaimBySpill, Eligible
  <2> QED
      BY <2>1, SpillIsTier
<1>9. ASSUME NEW s \in Session, MissReady(s)
      PROVE  TierNext
    BY <1>9 DEF MissReady, TierNext, Serve
<1> QED
    BY <1>1, <1>3, <1>4, <1>5, <1>6, <1>7, <1>8, <1>9 DEF Walk

LEMMA NodeStepIsTier ==
    ASSUME NodeInv, [Next]_vars
    PROVE  [TierNext]_tierVars
<1>1. ASSUME NEW c \in CopyId, ImportCommits(c)
      PROVE  TierNext
    BY <1>1 DEF ImportCommits, TierNext, Stage
<1>2. CASE UNCHANGED vars
    BY <1>2 DEF vars
<1> QED
    BY <1>1, <1>2, EndsIsTier, UsersIsTier, WalkIsTier DEF Next, Imports

-----------------------------------------------------------------------------
(* The queues of the node hold sessions with a call to serve.              *)

\* What a step may do to them.
QueueStep ==
  /\ \/ UNCHANGED <<submitted, pending, scan>>
     \/ \E s \in Session : /\ submitted[s] < Len(setup.script[s])
                           /\ submitted' = [submitted EXCEPT ![s] = @ + 1]
                           /\ pending' = Append(pending, s) /\ scan' = scan
     \/ submitted' = submitted /\ scan' = pending /\ pending' = <<>>
     \/ submitted' = submitted /\ scan # <<>> /\ Defer
     \/ submitted' = submitted /\ scan # <<>> /\ scan' = Tail(scan) /\ pending' = pending
  /\ victims' \subseteq Session
  /\ phase' = "reclaim" => scan' # <<>>

LEMMA QueuesKeep ==
    ASSUME NodeInv, QueueStep, setup' = setup, TierInv'
    PROVE  NodeInv'
<1>1. setup' \in Setups /\ victims' \subseteq Session /\ (phase' = "reclaim" => scan' # <<>>)
    BY DEF NodeInv, QueueStep
<1>2. CASE \E s \in Session : /\ submitted[s] < Len(setup.script[s])
                              /\ submitted' = [submitted EXCEPT ![s] = @ + 1]
                              /\ pending' = Append(pending, s) /\ scan' = scan
  <2>1. PICK s \in Session : /\ submitted[s] < Len(setup.script[s])
                             /\ submitted' = [submitted EXCEPT ![s] = @ + 1]
                             /\ pending' = Append(pending, s) /\ scan' = scan
      BY <1>2
  <2>2. submitted' \in [Session -> Nat] /\ setup.script[s] \in Seq([input : Nat \ {0}, output : Nat \ {0}, reuse : Nat])
      BY <2>1, ScriptsAssumption DEF NodeInv
  <2>3. Callers \subseteq Callers' /\ s \in Callers'
    <3>1. \A x \in Session : x # s => submitted'[x] = submitted[x]
        BY <2>1 DEF NodeInv
    <3>2. submitted'[s] = submitted[s] + 1 /\ submitted[s] \in Nat /\ Len(setup.script[s]) \in Nat
        BY <2>1, <2>2 DEF NodeInv
    <3>3. s \in Callers'
        BY <2>1, <3>2 DEF Callers
    <3> QED
        BY <3>1, <3>3 DEF Callers
  <2>4. pending \in Seq(Callers') /\ scan \in Seq(Callers')
      BY <2>3, SubsetSeq DEF NodeInv
  <2>5. pending' \in Seq(Callers') /\ scan' \in Seq(Callers')
      BY <2>1, <2>3, <2>4
  <2> QED
      BY <1>1, <2>2, <2>5 DEF NodeInv
<1>3. CASE submitted' = submitted
  <2>1. Callers' = Callers
      BY <1>3 DEF Callers
  <2>2. scan # <<>> => Head(scan) \in Callers /\ Tail(scan) \in Seq(Callers)
      BY TailSeq DEF NodeInv
  <2>3. pending' \in Seq(Callers) /\ scan' \in Seq(Callers)
    <3>1. CASE UNCHANGED <<submitted, pending, scan>>
        BY <3>1 DEF NodeInv
    <3>2. CASE scan' = pending /\ pending' = <<>>
        BY <3>2 DEF NodeInv
    <3>3. CASE scan # <<>> /\ Defer
        BY <2>2, <3>3 DEF NodeInv, Defer
    <3>4. CASE scan # <<>> /\ scan' = Tail(scan) /\ pending' = pending
        BY <2>2, <3>4 DEF NodeInv
    <3>5. CASE \E s \in Session : /\ submitted[s] < Len(setup.script[s])
                                  /\ submitted' = [submitted EXCEPT ![s] = @ + 1]
      <4>1. PICK s \in Session : submitted'[s] = submitted[s] + 1 /\ submitted[s] \in Nat
          BY <3>5 DEF NodeInv
      <4> QED
          BY <1>3, <4>1
    <3> QED
        BY <3>1, <3>2, <3>3, <3>4, <3>5 DEF QueueStep
  <2> QED
      BY <1>1, <1>3, <2>1, <2>3 DEF NodeInv
<1> QED
    BY <1>2, <1>3 DEF QueueStep

LEMMA EventKeepsQueues ==
    ASSUME NodeInv, Event, UNCHANGED <<submitted, pending>>
    PROVE  QueueStep
BY DEF Event, QueueStep, NodeInv

LEMMA NodeStepQueues ==
    ASSUME NodeInv, [Next]_vars
    PROVE  QueueStep
<1>1. CASE Ends
    BY <1>1, EventKeepsQueues
       DEF Ends, MoveEnds, ExportEnds, RestoreEnds, HandoffEnds, UserDone, FinishInternal
<1>2. ASSUME NEW s \in Session, Submit(s)
      PROVE  QueueStep
    BY <1>2 DEF Submit, Event, QueueStep, NodeInv
<1>3. ASSUME NEW s \in Session, Offload(s) \/ StartExport(s)
      PROVE  QueueStep
    BY <1>3, EventKeepsQueues DEF Offload, StartExport
<1>4. CASE Imports
    BY <1>4, EventKeepsQueues DEF Imports, ImportCommits
<1>5. CASE UNCHANGED vars
    BY <1>5 DEF vars, nodeVars, QueueStep, NodeInv
<1>6. CASE Walk
  <2>1. CASE StartWalk \/ EndWalk \/ EnoughD \/ \E s \in Session : MissReady(s)
      BY <2>1 DEF StartWalk, EndWalk, EnoughD, MissReady, QueueStep, NodeInv
  <2>2. CASE SkipCall \/ ShortOfBounce \/ Admit
      BY <2>2 DEF SkipCall, ShortOfBounce, Admit, Looking, QueueStep, NodeInv
  <2>3. CASE ShortOfD
      BY <2>3 DEF ShortOfD, Looking, Eligible, QueueStep
  <2>4. NoVictimLeft \/ (\E v \in victims : \/ ReclaimByDrop(v) \/ ReclaimToSsd(v)
                                             \/ ReclaimToCpu(v) \/ ReclaimBySpill(v))
        => /\ UNCHANGED submitted /\ scan # <<>>
           /\ GiveUp \/ \E v \in victims : NextVictim(v)
      BY DEF NoVictimLeft, ReclaimByDrop, ReclaimToSsd, ReclaimToCpu, ReclaimBySpill,
             Reclaim, Reclaiming, NodeInv
  <2>5. ASSUME UNCHANGED submitted, NEW v \in victims, NextVictim(v)
        PROVE  QueueStep
      BY <2>5 DEF NextVictim, QueueStep, NodeInv
  <2>6. ASSUME UNCHANGED submitted, GiveUp, scan # <<>>
        PROVE  QueueStep
      BY <2>6 DEF GiveUp, QueueStep
  <2> QED
      BY <1>6, <2>1, <2>2, <2>3, <2>4, <2>5, <2>6 DEF Walk
<1> QED
    BY <1>1, <1>2, <1>3, <1>4, <1>5, <1>6 DEF Next, Users

LEMMA NodeInvHolds ==
    Spec => []NodeInv
<1>1. NodeInit => NodeInv
  <2> SUFFICES ASSUME NodeInit PROVE NodeInv
      OBVIOUS
  <2>1. TierInv /\ setup \in Setups
      BY InitHolds DEF NodeInit, TierInit
  <2>2. \A S : <<>> \in Seq(S)
      OBVIOUS
  <2> QED
      BY <2>1, <2>2 DEF NodeInit, NodeInv
<1>2. NodeInv /\ [Next]_vars => NodeInv'
  <2> SUFFICES ASSUME NodeInv, [Next]_vars PROVE NodeInv'
      OBVIOUS
  <2>1. [TierNext]_tierVars
      BY NodeStepIsTier
  <2>2. TierInv'
      BY <2>1, StepKeeps, StutterKeeps DEF NodeInv
  <2> QED
      BY <2>1, <2>2, TierKeepsSetup, NodeStepQueues, QueuesKeep
<1> QED
    BY <1>1, <1>2, PTL DEF Spec

(* The node takes no liberty with the lifecycle: its events, its walks     *)
(* over the pending calls and its reclaims are operations of the           *)
(* lifecycle, so the theorems about the lifecycle hold of the node.        *)
THEOREM NodeImplementsLifecycle == Spec => TierSpec
<1>1. NodeInit => TierInit
    BY DEF NodeInit
<1>2. NodeInv /\ [Next]_vars => [TierNext]_tierVars
    BY NodeStepIsTier
<1> QED
    BY <1>1, <1>2, NodeInvHolds, PTL DEF Spec, TierSpec

(* Whatever the node does, no transfer reads a copy that is gone, no copy  *)
(* outlives its readers, a session has one authoritative context, a call   *)
(* reuses only that, and the ledgers of P, D, CPU and SSD hold exactly     *)
(* what is stored, reserved and in flight.                                 *)
THEOREM NodeKeepsCopies ==
    Spec => [](/\ TierTypeOK /\ SourcesPinned /\ RetiredIsRead /\ OneAuthority
               /\ HitsAreCurrent /\ LedgersBalance)
<1>1. TierInv => TierTypeOK /\ SourcesPinned /\ RetiredIsRead /\ OneAuthority /\ HitsAreCurrent
    BY DEF TierInv
<1> QED
    BY <1>1, NodeImplementsLifecycle, TierInvariant, LedgersNeverDrift, PTL

(* A call of the node owns its session, and the node implements the cache  *)
(* a session expects.                                                      *)
THEOREM NodeRefinesCache == Spec => CallOwnsSession /\ CacheRefinesSessions
    BY NodeImplementsLifecycle, CallOwns, CacheRefined
=============================================================================
