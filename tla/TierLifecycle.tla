---------------------------- MODULE TierLifecycle ----------------------------
(***************************************************************************)
(* TieredPDKVLifecycle: where the KV cache of every session of one P4D4    *)
(* node lives (D HBM, CPU memory, SSD), the copies that transfers in       *)
(* flight read, the reservations of the calls being served, and the four   *)
(* byte ledgers.  A resume may overtake a demotion of the same session:    *)
(* the transfer cannot be stopped, so its source stays pinned and its      *)
(* result is thrown away when it ends.                                     *)
(*                                                                         *)
(* Time is abstract: a transfer that runs may complete at any step.  LRU   *)
(* order (last_access_ns) is the sequence lru, oldest first.               *)
(***************************************************************************)
EXTENDS Integers, Sequences, FiniteSets, FiniteSetsExt, SequencesExt, Queues

CONSTANTS Session, CopyId, NoCopy, NoTicket,
          Tp,         \* GPUs of a rank group: aggregate bytes per byte of a rank
          Block,      \* tokens of a KV block
          Calls,      \* [input, output, reuse, successor] of the calls considered
          Setups      \* the nodes considered: policies, capacities, sessions already stored

ASSUME SizesAssumption == Tp \in Nat \ {0} /\ Block \in Nat \ {0} /\ IsFiniteSet(Session)

VARIABLES setup,      \* the constructor's arguments, never changed
          rec,        \* [Session -> TierSession]
          lru,        \* sessions by last_access_ns
          copies,     \* copy id -> TierCopy, for the copies that exist
          moves,      \* source copy id -> demotion in flight
          tickets,    \* [Session -> the uncommitted PrepareTicket, or NoTicket]
          exports,    \* source copy id -> unreleased SSDExportTicket
          used        \* bytes reserved in each ledger

CallRecords ==
  [input : Nat \ {0}, output : Nat \ {0}, reuse : Nat, successor : BOOLEAN]
ASSUME CallsAssumption == Calls \subseteq CallRecords

tierVars == <<setup, rec, lru, copies, moves, tickets, exports, used>>

Tiers == {"d", "cpu", "ssd"}
Ledgers == Tiers \cup {"p"}
ReadyIn == [d |-> "d_ready", cpu |-> "cpu_ready", ssd |-> "ssd_ready"]
Demoting == {"d_demoting_cpu", "d_demoting_ssd", "cpu_demoting_ssd"}
TicketRecords ==
  [tier : Tiers \cup {"none"}, copy : CopyId \cup {NoCopy}, hit : Nat, final : Nat,
   output : Nat, successor : BOOLEAN, needsD : BOOLEAN, p : Nat, target : Nat,
   base : CopyId \cup {NoCopy}, d : Nat, bounce : Nat, restored : BOOLEAN,
   pReleased : BOOLEAN]
ASSUME NamesAssumption == NoCopy \notin CopyId /\ NoTicket \notin TicketRecords

(* The sessions a node starts with: at most one idle context of each.      *)
ASSUME SetupsAssumption ==
  \A st \in Setups : \A i \in DOMAIN st.stored :
    /\ i \in CopyId
    /\ st.stored[i] \in [session : Session, tier : Tiers, tokens : Nat]
    /\ \A j \in DOMAIN st.stored : st.stored[j].session = st.stored[i].session => j = i

Busy == {"preparing", "active"}
States == {"lost", "ended", "d_ready", "cpu_ready", "ssd_ready"} \cup Demoting \cup Busy

(* Bytes of a context in a ledger: of one rank in HBM, of all ranks below. *)
BytesOn(tier, tokens) ==
  ((tokens + Block - 1) \div Block) * (IF tier \in {"p", "d"} THEN 1 ELSE Tp)

Free(l) == setup.cap[l] - used[l]
Pins(c) == c.demotion + c.foreground + c.export
Touch(s) == Append(Only(lru, Session \ {s}), s)
FreshCopies == CopyId \ DOMAIN copies

(* A session that changes state; moving its generation makes every         *)
(* transfer started for it before stale.                                   *)
Now(r, state, primary, tokens) ==
  [r EXCEPT !.state = state, !.primary = primary, !.tokens = tokens]
Overtaken(r) == [r EXCEPT !.generation = @ + 1]
Lost(r) == Overtaken(Now(r, "lost", NoCopy, 0))

\* Mutant: what a transfer still reads is freed too.
DyingAll(cs, gone) == gone

(* The copies of cs once those in gone are retired: the pinned ones stay.  *)
Dying(cs, gone) == {i \in gone : Pins(cs[i]) = 0}
Retire(cs, gone) ==
  [i \in DOMAIN cs \ Dying(cs, gone) |->
     IF i \in gone THEN [cs[i] EXCEPT !.retired = TRUE, !.shadow = FALSE] ELSE cs[i]]
Weight(cs, ids, tier) ==
  SumFunctionOnSet([i \in DOMAIN cs |-> IF cs[i].tier = tier THEN cs[i].bytes ELSE 0], ids)
Spend(l, n) == [used EXCEPT ![l] = @ + n]

\* Mutant: only the authoritative copy of a session is looked at.
CopiesOfPrimary(s) == {rec[s].primary} \cap DOMAIN copies

CopiesOf(s) == {i \in DOMAIN copies : copies[i].session = s}

(* A D copy a call may build on: it is extended in place, not duplicated.  *)
Reusable(cs, id) == id \in DOMAIN cs /\ cs[id].tier = "d" /\ Pins(cs[id]) = 0

NewCopy(s, tier, version, generation, tokens) ==
  [session |-> s, tier |-> tier, version |-> version, generation |-> generation,
   tokens |-> tokens, bytes |-> BytesOn(tier, tokens), retired |-> FALSE,
   shadow |-> FALSE, demotion |-> 0, foreground |-> 0, export |-> 0]

(* Those contexts are known by age, and preload_session found room for     *)
(* each of them in its ledger.                                             *)
Stored(st, l) ==
  SumFunction([i \in DOMAIN st.stored |->
                 IF st.stored[i].tier = l THEN BytesOn(l, st.stored[i].tokens) ELSE 0])
ASSUME SetupsFit ==
  \A st \in Setups :
    /\ IsFiniteSet(DOMAIN st.stored)
    /\ st.order \in Seq(Session)
    /\ \A i \in DOMAIN st.stored : \E n \in DOMAIN st.order : st.order[n] = st.stored[i].session
    /\ \A l \in Ledgers : st.cap[l] \in Nat /\ Stored(st, l) <= st.cap[l]

-----------------------------------------------------------------------------
(* _eligible_lru: idle sessions of a tier whose copy nobody reads.         *)
Eligible(tier, spared) ==
  {s \in Session \ spared : /\ rec[s].state = ReadyIn[tier]
                            /\ Pins(copies[rec[s].primary]) = 0}
IsOldest(s, among) ==
  \E n \in DOMAIN lru : lru[n] = s /\ \A k \in 1..(n - 1) : lru[k] \notin among

Ousted(vs) == {rec[v].primary : v \in vs}

(* What a tier has once the sessions vs have lost their copy there; the    *)
(* victims are the least recently used ones that make need bytes.          *)
FreeWithout(vs, tier) ==
  Free(tier) + Weight(copies, Ousted(vs), tier)
CanEvict(tier, spared, need) == FreeWithout(Eligible(tier, spared), tier) >= need
Victims(tier, spared, need) ==
  LET oldest(n) == Eligible(tier, spared) \cap {lru[k] : k \in 1..n}
  IN  oldest(Min({n \in 0..Len(lru) : FreeWithout(oldest(n), tier) >= need}))

WithoutSessions(vs) == [s \in Session |-> IF s \in vs THEN Lost(rec[s]) ELSE rec[s]]
TouchAll(vs) == Only(lru, Session \ vs) \o Only(lru, vs)

-----------------------------------------------------------------------------
(* Demotions.                                                              *)

(* Bytes of the idle copy of s below HBM.                                  *)
Aggregate(s) ==
  LET c == copies[rec[s].primary] IN IF c.tier = "d" THEN Tp * c.bytes ELSE c.bytes

(* A demotion of session s to dest starts, the sessions vs losing their    *)
(* SSD copy to make room for it.                                           *)
StartMove(s, dest, bounce, state, vs) ==
  LET c     == rec[s].primary
      bytes == Aggregate(s)
      kept  == [i \in DOMAIN copies \ Ousted(vs) |-> copies[i]]
  IN  /\ copies' = [kept EXCEPT ![c].demotion = @ + 1]
      /\ rec' = [WithoutSessions(vs) EXCEPT ![s] = Now(rec[s], state, c, rec[s].tokens)]
      /\ lru' = TouchAll(vs)
      /\ moves' = [i \in DOMAIN moves \cup {c} |->
                     IF i = c THEN [session |-> s, dest |-> dest, bytes |-> bytes,
                                    bounce |-> bounce, version |-> rec[s].version,
                                    generation |-> rec[s].generation]
                     ELSE moves[i]]
      /\ used' = [l \in Ledgers |->
                    used[l] - (IF l = "ssd" THEN Weight(copies, Ousted(vs), "ssd") ELSE 0)
                            + (IF l = dest THEN bytes ELSE 0)
                            + (IF l = "cpu" THEN bounce ELSE 0)]
      /\ UNCHANGED <<setup, tickets, exports>>

(* _start_cpu_spill of v, sparing the sessions in spared on the SSD.       *)
CanSpill(v, spared) == CanEvict("ssd", {v} \cup spared, Aggregate(v))
Spill(v, spared) ==
  /\ rec[v].state = "cpu_ready"
  /\ CanSpill(v, spared)
  /\ StartMove(v, "ssd", 0, "cpu_demoting_ssd",
               Victims("ssd", {v} \cup spared, Aggregate(v)))

Drop(s) ==
  /\ rec[s].state = "d_ready"
  /\ rec' = [rec EXCEPT ![s] = Lost(rec[s])]
  /\ lru' = Touch(s)
  /\ used' = Spend("d", -copies[rec[s].primary].bytes)
  /\ copies' = Retire(copies, {rec[s].primary})
  /\ UNCHANGED <<setup, moves, tickets, exports>>

DemoteToCpu(s) ==
  /\ setup.policy = "cpu_ssd"
  /\ rec[s].state = "d_ready"
  /\ Free("cpu") >= Aggregate(s)
  /\ StartMove(s, "cpu", 0, "d_demoting_cpu", {})

CanDemoteToSsd(s) ==
  /\ Free("cpu") >= Aggregate(s)
  /\ CanEvict("ssd", {s}, Aggregate(s))
DemoteToSsd(s) ==
  /\ setup.policy = "ssd_direct"
  /\ rec[s].state = "d_ready"
  /\ CanDemoteToSsd(s)
  /\ StartMove(s, "ssd", Aggregate(s), "d_demoting_ssd",
               Victims("ssd", {s}, Aggregate(s)))

\* Mutants: a demotion a call has overtaken still publishes its result; a
\* source retired meanwhile is left behind.
StillWantedByVersion(c) == rec[moves[c].session].version = moves[c].version
StillWantedBySource(c) == rec[moves[c].session].primary = c
SpentIfWanted(c) == rec[moves[c].session].generation = moves[c].generation

(* _complete_demotion: publish the copy, unless the session has moved on.  *)
StillWanted(c) ==
  LET r == rec[moves[c].session]
  IN  /\ r.version = moves[c].version
      /\ r.generation = moves[c].generation
      /\ r.primary = c
      /\ r.state \in Demoting

(* The source goes when it was moved, or was only kept for this transfer.  *)
Spent(c) == StillWanted(c) \/ copies[c].retired

CompleteMove(c, id) ==
  /\ c \in DOMAIN moves
  /\ LET m     == moves[c]
         src   == copies[c]
         new   == NewCopy(m.session, m.dest, src.version, src.generation, src.tokens)
         unpin == [copies EXCEPT ![c].demotion = @ - 1]
         left  == Retire(unpin, IF Spent(c) THEN {c} ELSE {})
         freed == IF c \in DOMAIN left THEN 0 ELSE src.bytes
     IN  /\ copies' = IF StillWanted(c)
                      THEN [i \in DOMAIN left \cup {id} |->
                              IF i = id THEN new ELSE left[i]]
                      ELSE left
         /\ rec' = IF StillWanted(c)
                   THEN [rec EXCEPT ![m.session] =
                           Now(rec[m.session], ReadyIn[m.dest], id, src.tokens)]
                   ELSE rec
         /\ used' = [l \in Ledgers |->
                       used[l] - (IF l = src.tier THEN freed ELSE 0)
                               - (IF l = m.dest THEN m.bytes ELSE 0)
                               + (IF l = m.dest /\ StillWanted(c) THEN new.bytes ELSE 0)
                               - (IF l = "cpu" THEN m.bounce ELSE 0)]
         /\ moves' = [i \in DOMAIN moves \ {c} |-> moves[i]]
         /\ UNCHANGED <<setup, lru, tickets, exports>>

-----------------------------------------------------------------------------
(* Calls: c is [input, output, reuse, successor].                          *)

\* Mutant: the prefix the trace promises, not what the copy still holds.
HitPromised(c, held) == IF held = 0 THEN 0 ELSE Min({c.reuse, c.input - 1})

(* Tokens reused; at least one prompt token is always computed.            *)
Hit(c, held) == Min({c.reuse, held, c.input - 1})

(* What begin_prepare and _prepare_capacity compute for call c of s.       *)
Plan(s, c) ==
  LET id     == rec[s].primary
      source == IF id = NoCopy THEN 0 ELSE copies[id].tokens
      hit    == Hit(c, source)
      tier   == IF hit = 0 THEN "none" ELSE copies[id].tier
      final  == c.input + c.output - 1
      needsD == c.output > 1 \/ c.successor
      base   == Reusable(copies, id)
      target == IF needsD THEN BytesOn("d", final) ELSE 0
      admit  == IF setup.reserve = "final_context_upfront" \/ ~needsD THEN target
                ELSE BytesOn("d", c.input)
  IN  [tier |-> tier, copy |-> IF hit = 0 THEN NoCopy ELSE id, hit |-> hit,
       final |-> final, output |-> c.output, successor |-> c.successor, needsD |-> needsD,
       p |-> BytesOn("p", c.input), target |-> target,
       base |-> IF base THEN id ELSE NoCopy,
       d |-> IF ~needsD THEN 0
             ELSE IF base THEN Max({0, admit - copies[id].bytes}) ELSE admit,
       bounce |-> IF tier = "ssd" THEN BytesOn("cpu", hit) ELSE 0,
       restored |-> FALSE, pReleased |-> FALSE]

PlanFits(pl) ==
  Free("p") >= pl.p /\ Free("d") >= pl.d /\ Free("cpu") >= pl.bounce

(* The copy a call reads: consumed on the CPU, a shadow on the SSD.        *)
ReadBy(copy, tier) ==
  [copy EXCEPT !.foreground = copy.foreground + 1,
               !.retired = copy.retired \/ tier = "cpu",
               !.shadow = copy.shadow \/ tier = "ssd"]

(* Any demotion of s still in flight is overtaken: the generation moves.   *)
BeginPrepare(s, c) ==
  /\ rec[s].state \notin Busy \cup {"ended"}
  /\ PlanFits(Plan(s, c))
  /\ LET pl    == Plan(s, c)
         id    == rec[s].primary
         below == id # NoCopy /\ copies[id].tier # "d"
         unused == IF below /\ pl.tier = "none" THEN {id} ELSE {}
         read  == [i \in DOMAIN copies |->
                     IF i = pl.copy THEN ReadBy(copies[i], pl.tier) ELSE copies[i]]
     IN  /\ copies' = Retire(read, unused)
         /\ rec' = [rec EXCEPT ![s] =
                      Overtaken(Now(rec[s], "preparing", IF below THEN NoCopy ELSE id,
                                    rec[s].tokens))]
         /\ lru' = Touch(s)
         /\ tickets' = [tickets EXCEPT ![s] = pl]
         /\ used' = [l \in Ledgers |->
                       used[l] + (IF l = "p" THEN pl.p ELSE 0) + (IF l = "d" THEN pl.d ELSE 0)
                               + (IF l = "cpu" THEN pl.bounce ELSE 0)
                               - Weight(read, Dying(read, unused), l)]
         /\ UNCHANGED <<setup, moves, exports>>

Restored(t, base) == [t EXCEPT !.restored = TRUE, !.base = base]
Trimmed(copy, bytes, tokens) == [copy EXCEPT !.bytes = bytes, !.tokens = tokens]

(* The copies once the prefix of ticket t has been read: its source loses  *)
(* the pin, and goes when the call consumed it.                            *)
ReadOut(t) ==
  Retire([i \in DOMAIN copies |->
            IF i = t.copy THEN [copies[i] EXCEPT !.foreground = @ - 1] ELSE copies[i]],
         {i \in DOMAIN copies : i = t.copy /\ copies[i].retired})

(* The D copy the call builds on is given up when D is not needed, and     *)
(* otherwise cut to the context the call ends with.                        *)
Shed(t, cs) == IF Reusable(cs, t.base) /\ ~t.needsD THEN {t.base} ELSE {}
Shortened(t, cs) ==
  IF Reusable(cs, t.base) /\ t.needsD /\ t.target < cs[t.base].bytes
  THEN [cs EXCEPT ![t.base] =
          Trimmed(cs[t.base], t.target, Min({cs[t.base].tokens, t.final}))]
  ELSE cs

(* _complete_prepare, then mark_active, which the node calls at once.      *)
CompletePrepare(s) ==
  /\ tickets[s] # NoTicket
  /\ rec[s].state = "preparing"
  /\ ~tickets[s].restored
  /\ LET t    == tickets[s]
         left == ReadOut(t)
         shed == Shed(t, left)
         cut  == Shortened(t, left)
         gone == DOMAIN copies \ DOMAIN Retire(cut, shed)
     IN  /\ copies' = Retire(cut, shed)
         /\ rec' = [rec EXCEPT ![s] =
                      Now(rec[s], "active",
                          IF rec[s].primary \in gone THEN NoCopy ELSE rec[s].primary,
                          IF cut # left THEN cut[t.base].tokens ELSE rec[s].tokens)]
         /\ lru' = Touch(s)
         /\ tickets' = [tickets EXCEPT ![s] =
                          Restored(t, IF t.base \in shed THEN NoCopy ELSE t.base)]
         /\ used' = [l \in Ledgers |->
                       used[l] - Weight(copies, gone, l)
                               - (IF l = "cpu" THEN t.bounce ELSE 0)
                               - (IF l = "d" /\ cut # left
                                  THEN left[t.base].bytes - t.target ELSE 0)]
         /\ UNCHANGED <<setup, moves, exports>>

\* Mutant: the release is not recorded, and is done again.
ReleasePAgain(s) ==
  /\ rec[s].state = "active"
  /\ tickets[s].needsD /\ ~tickets[s].pReleased
  /\ used' = Spend("p", -tickets[s].p)
  /\ UNCHANGED <<setup, rec, lru, copies, moves, tickets, exports>>

(* The prompt has reached D: P is free for the next prefill.               *)
ReleaseP(s) ==
  /\ rec[s].state = "active"
  /\ tickets[s].needsD /\ ~tickets[s].pReleased
  /\ used' = Spend("p", -tickets[s].p)
  /\ tickets' = [tickets EXCEPT ![s] = [tickets[s] EXCEPT !.pReleased = TRUE]]
  /\ UNCHANGED <<setup, rec, lru, copies, moves, exports>>

(* What D lacks to publish the context a call ends with: the growth that   *)
(* prompt_upfront_growth_at_commit did not reserve.                        *)
InPlace(s) == Reusable(copies, tickets[s].base)
Growth(s) ==
  IF tickets[s].successor /\ setup.reserve # "final_context_upfront"
  THEN Max({0, tickets[s].target - tickets[s].d
                 - (IF InPlace(s) THEN copies[tickets[s].base].bytes ELSE 0)})
  ELSE 0
GrowthFits(s) == CanEvict("d", {s}, Growth(s))
Crowded(s) == Victims("d", {s}, Growth(s))

CommitDue(s) ==
  /\ tickets[s] # NoTicket
  /\ rec[s].state = "active"
  /\ tickets[s].needsD => tickets[s].pReleased

(* commit_d_ready of a call with a successor: the context becomes the D    *)
(* copy id, which is the reused copy when there is one.                    *)
Publish(s, id) ==
  /\ CommitDue(s)
  /\ tickets[s].successor
  /\ GrowthFits(s)
  /\ IF InPlace(s) THEN id = tickets[s].base ELSE id \in FreshCopies
  /\ LET t    == tickets[s]
         vs   == Crowded(s)
         new  == NewCopy(s, "d", rec[s].version + 1, rec[s].generation, t.final)
         old  == CopiesOf(s) \ {id}
         kept == [i \in DOMAIN copies \ Ousted(vs) |-> copies[i]]
         left == Retire(kept, old)
     IN  /\ copies' = [i \in DOMAIN left \cup {id} |-> IF i = id THEN new ELSE left[i]]
         /\ rec' = [WithoutSessions(vs) EXCEPT ![s] =
                      [Now(rec[s], "d_ready", id, t.final) EXCEPT !.version = @ + 1]]
         /\ lru' = Append(Only(TouchAll(vs), Session \ {s}), s)
         /\ tickets' = [tickets EXCEPT ![s] = NoTicket]
         /\ used' = [l \in Ledgers |->
                       used[l] - Weight(copies, Ousted(vs) \cup Dying(kept, old), l)
                               - (IF l = "p" /\ ~t.pReleased THEN t.p ELSE 0)
                               + (IF l # "d" THEN 0
                                  ELSE new.bytes - t.d
                                         - (IF InPlace(s) THEN copies[id].bytes ELSE 0))]
         /\ UNCHANGED <<setup, moves, exports>>

(* commit_d_ready of the last call of a session.                           *)
Finish(s) ==
  /\ CommitDue(s)
  /\ ~tickets[s].successor
  /\ LET t == tickets[s]
     IN  /\ copies' = Retire(copies, CopiesOf(s))
         /\ rec' = [rec EXCEPT ![s] = Now(rec[s], "ended", NoCopy, 0)]
         /\ lru' = Touch(s)
         /\ tickets' = [tickets EXCEPT ![s] = NoTicket]
         /\ used' = [l \in Ledgers |->
                       used[l] - Weight(copies, Dying(copies, CopiesOf(s)), l)
                               - (IF l = "p" /\ ~t.pReleased THEN t.p ELSE 0)
                               - (IF l = "d" THEN t.d ELSE 0)]
         /\ UNCHANGED <<setup, moves, exports>>

(* end, of an idle session: a demotion of it in flight keeps its source.   *)
End(s) ==
  /\ rec[s].state \notin Busy \cup {"ended"}
  /\ copies' = Retire(copies, CopiesOf(s))
  /\ rec' = [rec EXCEPT ![s] = Overtaken(Now(rec[s], "ended", NoCopy, 0))]
  /\ lru' = Touch(s)
  /\ used' = [l \in Ledgers |-> used[l] - Weight(copies, Dying(copies, CopiesOf(s)), l)]
  /\ UNCHANGED <<setup, moves, tickets, exports>>

Drained(s) ==
  /\ rec[s].state = "ended"
  /\ CopiesOf(s) = {}
RestartEnded(s) ==
  /\ Drained(s)
  /\ rec' = [rec EXCEPT ![s] = Overtaken(Now(rec[s], "lost", NoCopy, 0))]
  /\ lru' = Touch(s)
  /\ UNCHANGED <<setup, copies, moves, tickets, exports, used>>

-----------------------------------------------------------------------------
(* Exports: an idle SSD copy is staged in pinned CPU memory for another    *)
(* device to import.                                                       *)

BeginExport(s) ==
  /\ rec[s].state = "ssd_ready"
  /\ LET c == rec[s].primary
     IN  /\ copies[c].export = 0
         /\ Free("cpu") >= copies[c].bytes
         /\ copies' = [copies EXCEPT ![c].export = @ + 1]
         /\ exports' = [i \in DOMAIN exports \cup {c} |->
                          IF i = c THEN [session |-> s, status |-> "running",
                                         version |-> rec[s].version,
                                         generation |-> rec[s].generation,
                                         tokens |-> copies[c].tokens,
                                         bytes |-> copies[c].bytes]
                          ELSE exports[i]]
         /\ used' = Spend("cpu", copies[c].bytes)
  /\ UNCHANGED <<setup, rec, lru, moves, tickets>>

(* ssd_export_publication_valid *)
PublicationValid(c) ==
  LET r == rec[exports[c].session]
  IN  /\ exports[c].status \in {"running", "ready"}
      /\ r.state = "ssd_ready"
      /\ r.primary = c
      /\ r.version = exports[c].version /\ copies[c].version = exports[c].version
      /\ r.generation = exports[c].generation
      /\ copies[c].generation = exports[c].generation
      /\ copies[c].tokens = exports[c].tokens /\ copies[c].bytes = exports[c].bytes
      /\ ~copies[c].retired /\ ~copies[c].shadow

(* _release_ssd_export_resources *)
ReleaseExport(c) ==
  LET unpin == [copies EXCEPT ![c].export = @ - 1]
      spent == IF copies[c].retired THEN {c} ELSE {}
  IN  /\ copies' = Retire(unpin, spent)
      /\ used' = [l \in Ledgers |->
                    used[l] - (IF l = "cpu" THEN exports[c].bytes ELSE 0)
                            - Weight(unpin, Dying(unpin, spent), l)]
      /\ exports' = [i \in DOMAIN exports \ {c} |-> exports[i]]
      /\ UNCHANGED <<setup, rec, lru, moves, tickets>>

CompleteExport(c) ==
  /\ c \in DOMAIN exports
  /\ \/ /\ exports[c].status = "running"
        /\ exports' = [exports EXCEPT ![c].status = "ready"]
        /\ UNCHANGED <<setup, rec, lru, copies, moves, tickets, used>>
     \/ /\ exports[c].status = "abort_pending"
        /\ ReleaseExport(c)

(* finish_ssd_export once the other device holds the context, and end.     *)
FinishExport(c) ==
  /\ c \in DOMAIN exports
  /\ exports[c].status = "ready"
  /\ PublicationValid(c)
  /\ LET s     == exports[c].session
         unpin == [copies EXCEPT ![c].export = @ - 1]
     IN  /\ copies' = Retire(unpin, CopiesOf(s))
         /\ rec' = [rec EXCEPT ![s] = Overtaken(Now(rec[s], "ended", NoCopy, 0))]
         /\ lru' = Touch(s)
         /\ used' = [l \in Ledgers |->
                       used[l] - (IF l = "cpu" THEN exports[c].bytes ELSE 0)
                               - Weight(unpin, Dying(unpin, CopiesOf(s)), l)]
  /\ exports' = [i \in DOMAIN exports \ {c} |-> exports[i]]
  /\ UNCHANGED <<setup, moves, tickets>>

(* The SSD read cannot be stopped: what it pins is released when it ends.  *)
AbortExport(c) ==
  /\ c \in DOMAIN exports
  /\ \/ /\ exports[c].status = "running"
        /\ exports' = [exports EXCEPT ![c].status = "abort_pending"]
        /\ UNCHANGED <<setup, rec, lru, copies, moves, tickets, used>>
     \/ /\ exports[c].status = "ready"
        /\ ReleaseExport(c)
-----------------------------------------------------------------------------
(* preload_session: setup.stored maps copy ids to the idle contexts the    *)
(* node starts with, setup.order gives their sessions by age.              *)
Held(s) == {i \in DOMAIN setup.stored : setup.stored[i].session = s}

TierInit ==
  /\ setup \in Setups
  /\ copies = [i \in DOMAIN setup.stored |->
                 NewCopy(setup.stored[i].session, setup.stored[i].tier, 1, 0,
                         setup.stored[i].tokens)]
  /\ rec = [s \in Session |->
              IF Held(s) = {}
              THEN [state |-> "lost", generation |-> 0, version |-> 0, tokens |-> 0,
                    primary |-> NoCopy]
              ELSE LET i == CHOOSE i \in Held(s) : TRUE
                   IN  [state |-> ReadyIn[setup.stored[i].tier], generation |-> 0,
                        version |-> 1, tokens |-> setup.stored[i].tokens, primary |-> i]]
  /\ lru = setup.order
  /\ moves = <<>>
  /\ tickets = [s \in Session |-> NoTicket]
  /\ exports = <<>>
  /\ used = [l \in Ledgers |-> Weight(copies, DOMAIN copies, l)]

Move(s) ==
  \/ Drop(s) \/ DemoteToCpu(s) \/ DemoteToSsd(s)
  \/ \E spared \in {{}} \cup {{x} : x \in Session} : Spill(s, spared)
  \/ \E c \in CopyId, id \in FreshCopies : CompleteMove(c, id)
Serve(s) ==
  \/ \E c \in Calls : BeginPrepare(s, c)
  \/ CompletePrepare(s) \/ ReleaseP(s) \/ Finish(s)
  \/ \E id \in CopyId : Publish(s, id)
Leave(s) == End(s) \/ RestartEnded(s) \/ BeginExport(s)
Stage(c) == CompleteExport(c) \/ FinishExport(c) \/ AbortExport(c)

TierNext == (\E s \in Session : Move(s) \/ Serve(s) \/ Leave(s)) \/ (\E c \in CopyId : Stage(c))
TierSpec == TierInit /\ [][TierNext]_tierVars

-----------------------------------------------------------------------------
(* Properties.                                                             *)

SessionRecords ==
  [state : States, generation : Nat, version : Nat, tokens : Nat,
   primary : CopyId \cup {NoCopy}]
CopyRecords ==
  [session : Session, tier : Tiers, version : Nat, generation : Nat, tokens : Nat,
   bytes : Nat, retired : BOOLEAN, shadow : BOOLEAN, demotion : 0..1,
   foreground : 0..1, export : 0..1]

(* Type correctness of sessions, copies and what reads them; a copy has at *)
(* most one reader of each kind.                                           *)
TierTypeOK ==
  /\ DOMAIN copies \subseteq CopyId
  /\ \A i \in DOMAIN copies : copies[i] \in CopyRecords
  /\ rec \in [Session -> SessionRecords]
  /\ tickets \in [Session -> TicketRecords \cup {NoTicket}]
  /\ \A c \in DOMAIN moves :
       moves[c] \in [session : Session, dest : Tiers, bytes : Nat, bounce : Nat,
                     version : Nat, generation : Nat]
  /\ \A c \in DOMAIN exports :
       exports[c] \in [session : Session, status : {"running", "ready", "abort_pending"},
                       version : Nat, generation : Nat, tokens : Nat, bytes : Nat]

Reading(i) ==
  LET t == tickets[copies[i].session] IN t # NoTicket /\ ~t.restored /\ t.copy = i

(* A transfer in flight reads a copy that is still there: the pins of a    *)
(* copy are exactly the demotion, the restore and the export that read it, *)
(* whatever happened to its session since they started.                    *)
SourcesPinned ==
  /\ DOMAIN moves \cup DOMAIN exports \subseteq DOMAIN copies
  /\ \A s \in Session : tickets[s] # NoTicket /\ ~tickets[s].restored
       => tickets[s].copy \in DOMAIN copies \cup {NoCopy}
  /\ \A i \in DOMAIN copies :
       /\ copies[i].demotion = (IF i \in DOMAIN moves THEN 1 ELSE 0)
       /\ copies[i].foreground = (IF Reading(i) THEN 1 ELSE 0)
       /\ copies[i].export = (IF i \in DOMAIN exports THEN 1 ELSE 0)

(* A copy that is no session's context any more stays only as long as a    *)
(* transfer reads it: nothing is leaked when the last reader ends.         *)
RetiredIsRead == \A i \in DOMAIN copies : copies[i].retired => Pins(copies[i]) > 0

(* An idle session has exactly one authoritative copy, on the tier its     *)
(* state names and of its last published version; a lost or ended one has  *)
(* none, and no other copy of it may be resumed from: the SSD shadow a     *)
(* call reads does not outlive the call.                                   *)
OneAuthority ==
  /\ \A s \in Session :
       LET r == rec[s]
       IN  /\ r.primary # NoCopy =>
                /\ r.primary \in DOMAIN copies
                /\ copies[r.primary].session = s
                /\ copies[r.primary].version = r.version
                /\ ~copies[r.primary].retired /\ ~copies[r.primary].shadow
           /\ \A tier \in Tiers : r.state = ReadyIn[tier] =>
                r.primary # NoCopy /\ copies[r.primary].tier = tier
           /\ r.state \in {"lost", "ended"} => r.primary = NoCopy
           /\ r.state \in Demoting => r.primary \in DOMAIN moves
           /\ r.state \in Busy <=> tickets[s] # NoTicket
  /\ \A i \in DOMAIN copies :
       /\ ~copies[i].retired /\ ~copies[i].shadow => rec[copies[i].session].primary = i
       /\ copies[i].shadow => rec[copies[i].session].state \in Busy

(* A call reuses only what the call before it published: the copy it reads *)
(* holds the session's current version and at least the tokens it counts   *)
(* as a hit.                                                               *)
HitsAreCurrent ==
  \A i \in DOMAIN copies : Reading(i) =>
    LET s == copies[i].session
    IN  /\ copies[i].version = rec[s].version
        /\ copies[i].tokens >= tickets[s].hit

(* The ledgers hold exactly the copies, the reservations of calls and the  *)
(* destinations and bounces of transfers, and never more than they can.    *)
MoveOwes(m, l) == (IF m.dest = l THEN m.bytes ELSE 0) + (IF l = "cpu" THEN m.bounce ELSE 0)
TicketOwes(t, l) ==
  IF t = NoTicket THEN 0
  ELSE CASE l = "p" -> IF t.pReleased THEN 0 ELSE t.p
         [] l = "d" -> t.d
         [] l = "cpu" -> IF t.restored THEN 0 ELSE t.bounce
         [] OTHER -> 0
Owed(l) ==
  Weight(copies, DOMAIN copies, l)
  + SumFunction([i \in DOMAIN moves |-> MoveOwes(moves[i], l)])
  + SumFunction([i \in DOMAIN exports |-> IF l = "cpu" THEN exports[i].bytes ELSE 0])
  + SumFunction([s \in Session |-> TicketOwes(tickets[s], l)])
LedgersBalance == \A l \in Ledgers : used[l] = Owed(l) /\ used[l] <= setup.cap[l]

(* The cache as SessionKV describes it.                                    *)
KV ==
  [s \in Session |->
    [phase |-> CASE rec[s].state \in Busy -> "busy" [] rec[s].state = "ended" -> "ended"
                 [] OTHER -> "idle",
     version |-> rec[s].version,
     context |-> IF rec[s].state \in Busy \/ rec[s].primary = NoCopy THEN 0
                 ELSE copies[rec[s].primary].tokens,
     reused |-> IF tickets[s] = NoTicket THEN 0 ELSE tickets[s].hit]]

(* The tiers, transfers and evictions implement the abstract cache.        *)
Sessions == INSTANCE SessionKV WITH kv <- KV
CacheRefinesSessions == Sessions!KVSpec

(* The call of a session is the only thing that changes its context while  *)
(* it runs: a demotion it overtook ends without publishing anything.       *)
CallOwnsSession ==
  [][\A s \in Session :
       /\ tickets[s] # NoTicket /\ tickets'[s] # NoTicket
       => /\ rec'[s].version = rec[s].version
          /\ rec'[s].generation = rec[s].generation
          /\ rec'[s].state \in Busy
          /\ rec'[s].primary \in {rec[s].primary, NoCopy}]_tierVars
=============================================================================
