----------------------------- MODULE HBFServing -----------------------------
(***************************************************************************)
(* FullModelHBFServingPool over the lifecycle of HBFLifecycle, driven as   *)
(* the online adapter (setup.native) and the hybrid systems drive it:      *)
(* calls are routed to the GPUs or to the HBF server that holds their      *)
(* context, one batch per replica group runs at a time, a drained prompt   *)
(* gates its decode, and the completion callbacks of migrations and        *)
(* appends arrive in any order between all of it.                          *)
(*                                                                         *)
(* Budgets and the mixed-prefill guard are left open: a batch is any       *)
(* nonempty set of runnable requests, a prefill chunk any length up to     *)
(* setup.chunk. The turn a GPU runs is one stage that may end at any time. *)
(***************************************************************************)
EXTENDS HBFLifecycle

VARIABLES turn,       \* the live call of every session, as the pool sees it
          batch,      \* per group: tokens granted to the sessions in flight
          offered     \* calls of its script every session has offered

vars == <<setup, hbf, turn, batch, offered>>

(* reused: cached tokens; done: prompt tokens computed; hbf, published:    *)
(* the placement the pool last copied from the lifecycle.                  *)
NoTurn == [stage |-> "none", reused |-> 0, done |-> 0, generated |-> 0,
           hbf |-> 0, published |-> 0]
OnHbf == {"prefill", "decode", "gate", "waiting", "bound", "complete"}
Live(s) == turn[s].stage # "none"
Call(s) == setup.script[s][offered[s]]
HasSuccessor(s) == offered[s] < Len(setup.script[s])

Remaining(s) == Call(s).input - turn[s].reused - turn[s].done
Materialized(t) == t.reused + t.done + Max({0, t.generated - 1})
ActiveLpddr(t) == Materialized(t) - t.hbf
FinalTokens(s) == Call(s).input + Call(s).output - 1

(* What the pool copies: the placement of b.                               *)
Copied(t, r) == [t EXCEPT !.hbf = r.committed, !.published = r.committed + r.lpddr]

\* Mutant: the pool keeps the placement it launched with.
RefreshedNever(b) == turn

(* _refresh_live_hbf_placements: after a lifecycle callback the hosts that *)
(* do so (setup.refresh) publish the moved boundary to the pool.           *)
Refreshed(b) ==
  [s \in Session |-> IF setup.refresh /\ turn[s].stage \in OnHbf
                     THEN [turn[s] EXCEPT !.hbf = b.rec[s].committed] ELSE turn[s]]
Misread(b, s) == LET r == b.rec[s] IN r.committed + r.lpddr # turn[s].published

-----------------------------------------------------------------------------
(* Routing a call (offer_raw_request, _route_call) and its submission to   *)
(* the pool of the group that holds its context.                           *)

NextCall(s) == setup.script[s][offered[s] + 1]
Reuse(s) ==
  LET r    == hbf.rec[s]
      kept == Min({NextCall(s).reuse, r.total, NextCall(s).input})
  IN  IF r.state = "hbf_ready" \/ ~setup.native THEN kept
      ELSE IF setup.recompute THEN 0
      ELSE Min({kept, NextCall(s).input - 1})

Submit(b, s) ==
  LET r == b.rec[s] IN SetBytes(b, r.group, Holder(s), Stripe(r.committed, r.lpddr))

Offer(s) ==
  LET r      == hbf.rec[s]
      call   == NextCall(s)
      b      == Touch(hbf, s)
      routed == IF r.state = "hbf_ready"
                THEN RouteHbf(b, s, Reuse(s), call.input - Reuse(s) + call.output - 1)
                ELSE RouteGpu(b, s, Reuse(s))
      onHbf  == routed.rec[s].state = "hbf_active"
      lost   == r.state = "evicted" \/ (r.state = "hbf_ready" /\ ~onHbf)
      new    == [NoTurn EXCEPT !.stage = IF onHbf THEN "prefill" ELSE "gpu",
                               !.reused = IF lost THEN 0 ELSE Reuse(s)]
  IN  /\ ~Live(s) /\ offered[s] < Len(setup.script[s]) /\ r.state # "ended"
      /\ hbf' = IF onHbf THEN Submit(routed, s) ELSE routed
      /\ turn' = [turn EXCEPT ![s] = IF onHbf THEN Copied(new, routed.rec[s]) ELSE new]
      /\ offered' = [offered EXCEPT ![s] = @ + 1]
      /\ UNCHANGED <<setup, batch>>

-----------------------------------------------------------------------------
(* Batches of a replica group.                                             *)

Idle == [s \in {} |-> 0]
Runnable(g) == {s \in Session : turn[s].stage \in {"prefill", "decode"} /\ hbf.rec[s].group = g}

(* The first decode of a fully cached prompt materialises no token.        *)
Grants(s) ==
  IF turn[s].stage = "decode" THEN {1}
  ELSE IF Remaining(s) = 0 THEN {0} ELSE 1..Min({Remaining(s), setup.chunk})
Growth(s, n) == Stripe(Materialized(turn[s]), n)

(* _refresh_request_placement                                              *)
Disagrees(s) ==
  LET c == hbf.rec[s].committed
  IN  \/ Misread(hbf, s)
      \/ Held(hbf, Holder(s)) # Stripe(c, Materialized(turn[s]) - c)

Launch(g) ==
  /\ batch[g] = Idle
  /\ \E S \in SUBSET Runnable(g) \ {{}} : \E items \in [S -> 0..setup.chunk] :
       /\ \A s \in S : /\ items[s] \in Grants(s)
                       /\ Within(Growth(s, items[s]), Held(hbf, Headroom(s)))
       /\ batch' = [batch EXCEPT ![g] = items]
       /\ hbf' = IF \E s \in S : Disagrees(s) THEN Raise(hbf) ELSE hbf
       /\ turn' = [s \in Session |-> IF s \in S THEN Copied(turn[s], hbf.rec[s]) ELSE turn[s]]
  /\ UNCHANGED <<setup, offered>>

(* The token boundary that ends a prompt also yields the first token; it   *)
(* gates the decode when enough of the prompt is left in LPDDR.            *)
Gates(t) ==
  LET drainable == ActiveLpddr(t) - setup.tail
  IN  setup.tail >= 0 /\ drainable > 0 /\ drainable >= setup.minDrain
Progress(s, n) ==
  LET t     == turn[s]
      token == t.stage = "decode" \/ Remaining(s) = n
      u     == [t EXCEPT !.done = @ + (IF t.stage = "prefill" THEN n ELSE 0),
                         !.generated = @ + (IF token THEN 1 ELSE 0)]
  IN  [u EXCEPT !.stage =
         IF u.generated = Call(s).output THEN "complete"
         ELSE IF ~token THEN "prefill"
         ELSE IF t.stage = "prefill" /\ Gates(u) THEN "gate" ELSE "decode"]

(* _commit_lpddr_growth: what a request has materialised moves from its    *)
(* headroom to the session's own bytes; a complete one has none left.      *)
Grown(s, n) == Stripe(turn[s].hbf, ActiveLpddr(turn[s]) + n)
Left(s, n) == Minus(Held(hbf, Headroom(s)), Growth(s, n))
Commits(s, n) ==
  /\ IF n = 0 THEN Held(hbf, Holder(s)) = Grown(s, n)
              ELSE Within(Growth(s, n), Held(hbf, Headroom(s)))
  /\ Progress(s, n).stage = "complete" => Left(s, n) = Zero
Commit(g, items) ==
  LET moves == {s \in DOMAIN items : items[s] > 0}
      l == [o \in Owner |-> LET s == o[2] IN
              IF s \notin moves THEN hbf.lpddr[o]
              ELSE Entry(g, IF o = Holder(s) THEN Grown(s, items[s]) ELSE Left(s, items[s]))]
  IN  IF Holds(l, g) /\ \A s \in DOMAIN items : Commits(s, items[s])
      THEN [hbf EXCEPT !.lpddr = l] ELSE Raise(hbf)

FinishBatch(g) ==
  LET items == batch[g]
  IN  /\ items # Idle
      /\ hbf' = Commit(g, items)
      /\ turn' = [s \in Session |-> IF s \in DOMAIN items THEN Progress(s, items[s])
                                                          ELSE turn[s]]
      /\ batch' = [batch EXCEPT ![g] = Idle]
      /\ UNCHANGED <<setup, offered>>

-----------------------------------------------------------------------------
(* The prefill drain: the decode stays gated while an append moves the     *)
(* prompt; an older append of the session is waited for first.             *)

AfterDrain(t, b, s) ==
  LET c == Drain(b, s, Call(s).input)
  IN  [Copied(t, c.rec[s]) EXCEPT !.stage =
         IF JobsOf(b, s, "append") # {} THEN "waiting"
         ELSE IF JobsOf(c, s, "append") # {} THEN "bound" ELSE "decode"]

StartDrain(s) ==
  /\ turn[s].stage = "gate"
  /\ hbf' = Drain(hbf, s, Call(s).input)
  /\ turn' = [turn EXCEPT ![s] = AfterDrain(turn[s], hbf, s)]
  /\ UNCHANGED <<setup, batch, offered>>

\* Mutant: the completion of an older append forgets who waited for it.
ResumesGateBound(t) == t.stage = "bound"

(* What the callback of an append does for a gated session: it is released *)
(* when only the tail is left, and drains again otherwise.                 *)
ResumesGate(t) == t.stage \in {"bound", "waiting"}
Satisfied(t) == t.stage = "bound" /\ ActiveLpddr(t) <= setup.tail

Finish(j) ==
  LET s == j.session
      b == FinishJob(hbf, j)
      r == Refreshed(b)
  IN  /\ j \in hbf.jobs
      /\ IF \E x \in Session : setup.refresh /\ turn[x].stage \in OnHbf /\ Misread(b, x)
         THEN hbf' = Raise(b) /\ turn' = r
         ELSE IF j.kind = "append" /\ ResumesGate(r[s])
         THEN IF Satisfied(r[s])
              THEN hbf' = b /\ turn' = [r EXCEPT ![s].stage = "decode"]
              ELSE /\ hbf' = Drain(b, s, Call(s).input)
                   /\ turn' = [r EXCEPT ![s] = AfterDrain(r[s], b, s)]
         ELSE hbf' = b /\ turn' = r
      /\ UNCHANGED <<setup, batch, offered>>

-----------------------------------------------------------------------------
(* The ends of turns, and what a host does with a context that stays on    *)
(* the GPUs.                                                               *)

CompleteHbf(s) ==
  /\ turn[s].stage = "complete"
  /\ hbf' = CompleteHbfTurn(hbf, s, FinalTokens(s), HasSuccessor(s))
  /\ turn' = [turn EXCEPT ![s] = NoTurn]
  /\ UNCHANGED <<setup, batch, offered>>

(* eager migrates at once; direct after a later turn than the first, while *)
(* its intent is pending; the other policies leave the copy where it is.   *)
StartsNow(s) ==
  CASE setup.policy = "eager" -> {TRUE}
    [] setup.policy = "direct" -> IF offered[s] > 1 THEN BOOLEAN ELSE {FALSE}
    [] OTHER -> {FALSE}
CompleteGpu(s) ==
  /\ turn[s].stage = "gpu"
  /\ \E start \in StartsNow(s) :
       hbf' = CompleteGpuTurn(hbf, s, FinalTokens(s), HasSuccessor(s), start)
  /\ turn' = [turn EXCEPT ![s] = NoTurn]
  /\ UNCHANGED <<setup, batch, offered>>

OnGpu(s) == ~Live(s) /\ hbf.rec[s].state = "gpu_ready"

StartMigration(s) ==
  /\ setup.policy = "deferred" /\ OnGpu(s)
  /\ hbf' = Migrate(hbf, s, "gpu", TRUE)
  /\ UNCHANGED <<setup, turn, batch, offered>>

(* GPU memory pressure drops the oldest context no transfer reads; the     *)
(* hybrid migrates it instead if it can (_relieve_gpu_hbm_pressure).       *)
Reclaimable == {s \in Session : OnGpu(s) /\ ~\E j \in hbf.jobs : j.session = s}
Feasible(s) ==
  \E g \in Group : Fits(hbf, g, Stripe(0, hbf.rec[s].total), Evictable(hbf, g))
EvictGpuReady(s) ==
  /\ setup.pressure /\ s \in Reclaimable
  /\ \E k \in DOMAIN hbf.lru : /\ hbf.lru[k] = s
                               /\ \A i \in 1..(k - 1) : hbf.lru[i] \notin Reclaimable
  /\ setup.native \/ setup.policy = "never" \/ ~Feasible(s)
  /\ LET r == hbf.rec[s]
     IN  hbf' = [hbf EXCEPT !.rec[s] = [r EXCEPT !.state = "evicted", !.generation = @ + 1]]
  /\ UNCHANGED <<setup, turn, batch, offered>>

(* publish_ssd_checkpoint, of a snapshot the session has not left behind.  *)
PublishCheckpoint(s) ==
  /\ setup.policy \in {"direct", "import"} /\ OnGpu(s)
  /\ hbf' = IF \E j \in hbf.jobs : j.session = s THEN Raise(hbf)
            ELSE [Touch(hbf, s) EXCEPT !.rec[s].state = "ssd_ready"]
  /\ UNCHANGED <<setup, turn, batch, offered>>

StartImport(s) ==
  /\ setup.policy = "import" /\ ~Live(s) /\ hbf.rec[s].state = "ssd_ready"
  /\ hbf' = Migrate(hbf, s, "ssd", FALSE)
  /\ UNCHANGED <<setup, turn, batch, offered>>

-----------------------------------------------------------------------------

Init ==
  /\ HbfInit
  /\ turn = [s \in Session |-> NoTurn]
  /\ batch = [g \in Group |-> Idle]
  /\ offered = [s \in Session |-> 0]

(* What the servers do by themselves, and what the clients and the host    *)
(* policies decide.                                                        *)
Serve ==
  \/ \E s \in Session : StartDrain(s) \/ CompleteHbf(s) \/ CompleteGpu(s)
  \/ \E g \in Group : Launch(g) \/ FinishBatch(g)
  \/ \E j \in hbf.jobs : Finish(j)
Decide ==
  \E s \in Session : \/ Offer(s) \/ StartMigration(s) \/ EvictGpuReady(s)
                    \/ PublishCheckpoint(s) \/ StartImport(s)
Next == ~hbf.failed /\ (Serve \/ Decide)

Spec == Init /\ [][Next]_vars

(* The calendars and ASTRA complete every job and batch they were given,   *)
(* and the event loop goes on as long as a request is pending; in which    *)
(* order, and whether another call comes, nobody promises. This is WF of   *)
(* Serve with its ENABLED spelled out, which TLC computes much faster.     *)
Launchable(s) == \E n \in Grants(s) : Within(Growth(s, n), Held(hbf, Headroom(s)))
Pending ==
  /\ ~hbf.failed
  /\ \/ hbf.jobs # {}
     \/ \E s \in Session : turn[s].stage \in {"gate", "complete", "gpu"}
     \/ \E g \in Group : batch[g] # Idle \/ \E s \in Runnable(g) : Launchable(s)
FairSpec == Spec /\ ([]<>~Pending \/ []<><<Serve>>_vars)

-----------------------------------------------------------------------------
(* HBF: what is reserved on a card is what committed contexts and jobs in  *)
(* flight hold there, stale ones included, and never more than the card    *)
(* has. A lost or doubled release shows in a later turn, if at all         *)
(* (_release_group, assert_invariants).                                    *)
HbfBooksExact ==
  \A g \in Group :
    LET kept == [s \in Session |-> IF hbf.rec[s].group = g THEN Committed(hbf.rec[s]) ELSE Zero]
        jobs == [j \in hbf.jobs |-> IF j.group = g THEN JobBytes(j) ELSE Zero]
    IN  /\ hbf.reserved[g] = Plus(SumOf(kept), SumOf(jobs))
        /\ \A c \in Card : hbf.reserved[g][c] <= setup.hbfCap

(* LPDDR: an idle context holds exactly the tokens behind its committed    *)
(* prefix; a live request holds what it has materialised there, and its    *)
(* headroom what it still will; nothing else holds anything, and a card    *)
(* is never overfull.                                                      *)
Owed(s) ==
  LET r == hbf.rec[s]
      m == Materialized(turn[s])
  IN  CASE r.state = "hbf_ready" -> <<Stripe(r.committed, r.lpddr), Zero>>
        [] r.state = "hbf_active" ->
             <<Stripe(r.committed, m - r.committed), Stripe(m, FinalTokens(s) - m)>>
        [] OTHER -> <<Zero, Zero>>
LpddrBooksExact ==
  /\ \A s \in Session :
       /\ <<Held(hbf, Holder(s)), Held(hbf, Headroom(s))>> = Owed(s)
       /\ \A o \in {Holder(s), Headroom(s)} :
            Held(hbf, o) # Zero => hbf.lpddr[o].group = hbf.rec[s].group
  /\ \A g \in Group : Holds(hbf.lpddr, g)

(* A session is migrating exactly while one migration of its current       *)
(* lineage is in flight, to the group it waits for; the appends of that    *)
(* lineage move tokens its LPDDR part has, to the group of its prefix, and *)
(* together never more of them than are there.                             *)
Current(s, kind) == {j \in JobsOf(hbf, s, kind) : j.generation = hbf.rec[s].generation}
JobsFollowSessions ==
  \A s \in Session :
    LET r       == hbf.rec[s]
        appends == Current(s, "append")
    IN
    /\ r.state = "migrating" => \E j \in hbf.jobs : Current(s, "migration") = {j} /\ IsCurrent(hbf, j)
    /\ r.state # "migrating" => Current(s, "migration") = {}
    /\ SumFunctionOnSet([j \in appends |-> j.count], appends) <= r.lpddr
    /\ \A j \in appends : /\ r.state \in Media /\ j.group = r.group
                          /\ j.start + j.count <= r.committed + r.lpddr

(* No RuntimeError of the lifecycle, the ledger or the pool is reached:    *)
(* every guard of a later step is established by the earlier ones, in      *)
(* whatever order callbacks, batches and calls come.                       *)
NeverRaises == ~hbf.failed

(* A call that was offered is answered, whatever drains, appends and       *)
(* migrations are in flight around it.                                     *)
EveryTurnServed == \A s \in Session : Live(s) ~> ~Live(s)

(* The pool's own check between events (assert_invariants): the LPDDR      *)
(* bytes of a live request are those of the placement the pool works with. *)
PoolSeesLedger ==
  \A s \in Session :
    turn[s].stage \in OnHbf \ {"complete"} =>
      Held(hbf, Holder(s)) = Stripe(turn[s].hbf, ActiveLpddr(turn[s]))

(* What a session can resume from: the HBF and LPDDR tokens of a placed    *)
(* context, the source copy of another one, nothing of an evicted one.     *)
Context(r) ==
  IF r.state \in Media THEN r.committed + r.lpddr
  ELSE IF r.state \in {"none", "evicted"} THEN 0 ELSE r.total
SessionView(s) ==
  LET r == hbf.rec[s]
      v == offered[s] - (IF Live(s) \/ r.state = "ended" THEN 1 ELSE 0)
  IN  IF r.state = "ended" THEN [phase |-> "ended", version |-> v, context |-> 0, reused |-> 0]
      ELSE IF Live(s)
           THEN [phase |-> "busy", version |-> v, context |-> 0, reused |-> turn[s].reused]
           ELSE [phase |-> "idle", version |-> v, context |-> Context(r), reused |-> 0]

KV == INSTANCE SessionKV WITH kv <- [s \in Session |-> SessionView(s)]

(* The two media, their jobs and evictions are a session's KV cache: a     *)
(* call resumes from what the last one published or from nothing, and no   *)
(* late callback changes a context behind the session's back.              *)
ServesSessions == KV!KVSpec
=============================================================================
