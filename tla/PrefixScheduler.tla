-------------------------- MODULE PrefixScheduler --------------------------
(***************************************************************************)
(* One instance with prefix caching: schedule_with_prefix and the prefix   *)
(* branches of add_done, over the radix tree that holds all KV.  Running   *)
(* requests own no blocks of their own: what a step computes enters the    *)
(* tree when the step ends, and a request keeps its part of the tree by    *)
(* locking the node of its computed prefix.                                *)
(*                                                                         *)
(* A callback is a schedule (Begin, a MatchNext for each request, Keep, an *)
(* EvictLeaf for each leaf, Dispatch) or an add_done (AddDone, then a      *)
(* Close for each request); phase keeps callbacks apart.  Batches end in   *)
(* the order they were dispatched (module Scheduler has the endpoints).    *)
(* Which unlocked leaf is the least recently used one is left open.  The   *)
(* model has no step where the program raises an error, or locks a node    *)
(* that is no longer in the tree.                                          *)
(***************************************************************************)
EXTENDS RadixTree, Sequences, FiniteSetsExt, Functions

CONSTANTS
    NumReq,             \* requests, numbered by eligibility
    Setups,             \* what is served, by which configuration; a record with
                        \*   input, output : tokens of each request
                        \*   text : pages of each request
                        \*   npu : capacity of the tree, in tokens
                        \*   stages, seqs, tokens, threshold, chunked, first :
                        \*     pp_size, max_num_seqs, max_num_batched_tokens,
                        \*     long_prefill_token_threshold, enable_chunked_prefill
                        \*     and prioritize_prefill
    None,               \* npu_last_node is None
    Gone                \* npu_last_node is a node that was evicted

Req == 1..NumReq

ASSUME SizeAssumption == NumReq \in Nat /\ {None, Gone} \cap (Page \cup {Root}) = {}

ASSUME SetupAssumption ==
    \A u \in Setups :
        /\ u.npu \in Nat /\ u.tokens \in Nat /\ u.threshold \in Nat
        /\ u.chunked \in BOOLEAN
        /\ u.input \in [Req -> Nat \ {0}] /\ u.output \in [Req -> Nat \ {0}]
        /\ \A r \in Req :
              /\ u.text[r] \in Seq(Page)
              /\ Len(u.text[r]) * Block + Block > u.input[r] + u.output[r] - 1
              /\ \A j, k \in DOMAIN u.text[r] : u.text[r][j] \in Upto[u.text[r][k]] <=> j <= k
              /\ \A k \in DOMAIN u.text[r] : Upto[u.text[r][k]] \subseteq Range(u.text[r])

VARIABLES
    setup,      \* the member of Setups that is run
    tree,       \* the radix tree with its lock counts
    evictable, protected,   \* evictable_size_, protected_size_
    npuUsed,    \* npu_used less the weights
    request,    \* the queue: a set, ordered by request number
    inflight,   \* batches under way, oldest first
    done,       \* requests that have finished
    computed, chunk, generated,
    lastNode,   \* npu_last_node
    locked,     \* _prefix_locked
    evict,      \* the evict flag
    fresh,      \* is_init
    phase,      \* "run" between callbacks, "match" and "evict" in schedule,
                \* "close" in add_done
    todo, gen,  \* batch_req, what is left of it to go through, and gen_req of schedule
    batch,      \* the batch that schedule forms or add_done goes through
    room        \* in schedule: what is left of the token budget, then the tokens
                \* that evict has still to find

treeVars == <<tree, evictable, protected, npuUsed>>
reqVars  == <<computed, chunk, generated, lastNode, locked, evict, fresh>>
callVars == <<phase, todo, gen, batch, room>>
vars == <<setup, treeVars, request, inflight, done, reqVars, callVars>>

Smaller(a, b) == IF a <= b THEN a ELSE b
Larger(a, b)  == IF a >= b THEN a ELSE b
Blocks(tokens) == (tokens + Block - 1) \div Block

----------------------------------------------------------------------------
(* Requests *)

Input(r)  == setup.input[r]
Output(r) == setup.output[r]

\* The key of the first tokens of a request: its full pages.
Key(r, tokens) ==
    LET k == tokens \div Block IN IF k = 0 THEN Root ELSE setup.text[r][k]

IsPrefill(r) == computed[r] < Input(r)
Running      == UNION {Range(inflight[i]) : i \in DOMAIN inflight}
Arrived      == request \cup Running \cup done \cup Range(batch)

----------------------------------------------------------------------------
Init ==
    /\ setup \in Setups
    /\ tree = [n \in {} |-> 0] /\ evictable = 0 /\ protected = 0 /\ npuUsed = 0
    /\ request = {} /\ inflight = <<>> /\ done = {}
    /\ computed = [r \in Req |-> 0]
    /\ chunk = [r \in Req |-> 0]
    /\ generated = [r \in Req |-> 0]
    /\ lastNode = [r \in Req |-> None]
    /\ locked = [r \in Req |-> FALSE]
    /\ evict = [r \in Req |-> FALSE]
    /\ fresh = [r \in Req |-> TRUE]
    /\ phase = "run" /\ todo = {} /\ gen = {} /\ batch = <<>> /\ room = 0

Arrive(r) ==
    /\ phase = "run"
    /\ r \notin Arrived /\ \A q \in 1..(r - 1) : q \in Arrived
    /\ request' = request \cup {r}
    /\ UNCHANGED <<setup, treeVars, inflight, done, reqVars, callVars>>

\* The locks of the nodes of t become those of u; t has grown by `grown` tokens.
Relock(t, u, grown) ==
    /\ tree' = u
    /\ evictable' = evictable + grown - NewlyLocked(t, u) + NewlyFree(t, u)
    /\ protected' = protected + NewlyLocked(t, u) - NewlyFree(t, u)
    /\ npuUsed' = npuUsed + grown

----------------------------------------------------------------------------
(* Forming a batch. *)

AvailableSlots == Larger(0, setup.seqs - Cardinality(Running))
BatchReq == {r \in request : Cardinality({q \in request : q < r}) < AvailableSlots}
Decodes  == {r \in BatchReq : ~IsPrefill(r)}

Considered ==
    IF setup.first /\ ~setup.chunked /\ BatchReq # Decodes
    THEN BatchReq \ Decodes
    ELSE BatchReq

Before(q, r) ==
    IF setup.chunked /\ IsPrefill(q) # IsPrefill(r) THEN IsPrefill(r) ELSE q < r

Begin ==
    /\ phase = "run"
    /\ Len(inflight) < setup.stages
    /\ Considered # {}
    /\ todo' = Considered
    /\ gen' = Decodes \cap Considered
    /\ room' = setup.tokens
    /\ phase' = "match"
    /\ UNCHANGED <<setup, treeVars, request, inflight, done, reqVars, batch>>

\* prefix_match: a request that has computed nothing starts behind its hit.
HitNode(r) == Match(tree, Key(r, Input(r)))
Fresh(r)   == computed[r] = 0
Ready(r)   == IF Fresh(r) THEN Block * Cardinality(Up(HitNode(r))) ELSE computed[r]

Wanted(r) ==
    LET remaining == Input(r) - Ready(r)
    IN  IF ~IsPrefill(r) THEN 1
        ELSE IF ~setup.chunked THEN Larger(remaining, 1)
        ELSE Smaller(IF 0 < setup.threshold THEN Smaller(setup.threshold, remaining) ELSE remaining, room)

\* Steps 0 and 1 for the next request.  With chunking it gets what is left of
\* the budget, and a prompt found whole in the cache ends the search for
\* more; without, every request is matched and the batch is cut at the budget.
MatchNext(r) ==
    /\ phase = "match" /\ r \in todo /\ \A q \in todo \ {r} : Before(r, q)
    /\ \/ ~setup.chunked \/ room > 0
    /\ LET hit == Fresh(r)
           grant == Wanted(r)
           joins == 0 < grant /\ grant <= room
       IN  /\ tree' = IF hit THEN WithNodes(tree, {HitNode(r)}) ELSE tree
           /\ computed' = [computed EXCEPT ![r] = Ready(r)]
           /\ lastNode' = [lastNode EXCEPT ![r] = IF hit THEN HitNode(r) ELSE @]
           /\ chunk' = [chunk EXCEPT ![r] = IF IsPrefill(r) /\ grant > 0 THEN grant ELSE @]
           /\ batch' = IF joins THEN Append(batch, r) ELSE batch
           /\ room' = room - grant
           /\ todo' = IF grant = 0 THEN {} ELSE todo \ {r}
    /\ UNCHANGED <<setup, evictable, protected, npuUsed, request, inflight, done, generated,
                   locked, evict, fresh, phase, gen>>

Matched == phase = "match" /\ (todo = {} \/ (setup.chunked /\ room <= 0))

\* get_block_kv, in tokens.
Grant(r) == IF IsPrefill(r) THEN chunk[r] ELSE 1
Need(R)  == Block * MapThenSumSet(LAMBDA r : Blocks(computed[r] + Grant(r)) - Blocks(computed[r]), R)
Avail    == Larger(0, setup.npu - Tokens(tree, DOMAIN tree))

Joining == {r \in Range(batch) : IsPrefill(r) /\ lastNode[r] # None /\ ~locked[r]}

\* Steps 1.5 to 3: lock the prefills, and keep what fits.  The prefills left
\* out lose their lock and their match.  Nothing is preempted when nothing
\* fits: the decodes are only marked.
Keep ==
    /\ Matched
    /\ Gone \notin {lastNode[r] : r \in Joining}
    /\ \E fit \in 0..Len(batch) :
       LET pinned == LockedBy(tree, Joining, lastNode)
           usable == Avail + evictable - NewlyLocked(tree, pinned)
           upto(i) == {batch[j] : j \in 1..i}
           kept   == SubSeq(batch, 1, fit)
           out    == {r \in Range(batch) \ upto(fit) : IsPrefill(r) /\ (locked[r] \/ r \in Joining)}
       IN  /\ Need(upto(fit)) <= usable
           /\ \A i \in (fit + 1)..Len(batch) : Need(upto(i)) > usable
           /\ Relock(tree, UnlockedBy(pinned, out, lastNode), 0)
           /\ lastNode' = [r \in Req |-> IF r \in out THEN None ELSE lastNode[r]]
           /\ locked' = [r \in Req |-> (locked[r] \/ r \in Joining) /\ r \notin out]
           /\ evict' = [r \in Req |-> evict[r] \/ (batch # <<>> /\ fit = 0 /\ r \in gen)]
           /\ batch' = kept
           /\ phase' = IF fit = 0 THEN "run" ELSE "evict"
           /\ room' = IF fit = 0 THEN 0 ELSE Larger(0, Need(upto(fit)) - Avail)
    /\ todo' = {} /\ gen' = {}
    /\ UNCHANGED <<setup, request, inflight, done, computed, chunk, generated, fresh>>

\* evict: unlocked leaves go until there is room.
EvictLeaf(n) ==
    /\ phase = "evict" /\ room > 0 /\ n \in FreeLeaves(tree)
    /\ LET size == Tokens(tree, {n})
       IN  /\ evictable' = evictable - size
           /\ npuUsed' = npuUsed - size
           /\ room' = Larger(0, room - size)
    /\ tree' = Without(tree, n)
    /\ lastNode' = [r \in Req |-> IF lastNode[r] = n THEN Gone ELSE lastNode[r]]
    /\ UNCHANGED <<setup, protected, request, inflight, done, computed, chunk, generated,
                   locked, evict, fresh, phase, todo, gen, batch>>

\* Steps 4 and 5: the batch leaves the queue.  A decode that was marked is
\* matched and locked once more.
Reloaded == {r \in Range(batch) : evict[r]}
Dispatch ==
    /\ phase = "evict" /\ (room = 0 \/ FreeLeaves(tree) = {})
    /\ LET at == [r \in Req |-> IF r \in Reloaded THEN HitNode(r) ELSE lastNode[r]]
           t  == WithNodes(tree, {HitNode(r) : r \in Reloaded})
       IN  /\ Relock(t, LockedBy(t, Reloaded, at), 0)
           /\ lastNode' = at
    /\ evict' = [r \in Req |-> evict[r] /\ r \notin Reloaded]
    /\ request' = request \ Range(batch)
    /\ inflight' = Append(inflight, batch)
    /\ batch' = <<>> /\ phase' = "run" /\ room' = 0
    /\ UNCHANGED <<setup, done, computed, chunk, generated, locked, fresh, todo, gen>>

----------------------------------------------------------------------------
(* A batch ends. *)

AddDone ==
    /\ phase = "run" /\ inflight # <<>>
    /\ batch' = Head(inflight) /\ inflight' = Tail(inflight)
    /\ phase' = "close"
    /\ UNCHANGED <<setup, treeVars, request, done, reqVars, todo, gen, room>>

After(r)    == computed[r] + IF IsPrefill(r) THEN chunk[r] ELSE 1
Emits(r)    == After(r) >= Input(r)
\* Mutant: a request is finished with its last token but one.
FinishesEarly(r) == Emits(r) /\ generated[r] + 2 >= Output(r)

Finishes(r) == Emits(r) /\ generated[r] + 1 >= Output(r)

\* cache_unfinished_req at the end of the prompt (and, for a prompt that was
\* cached whole, before its first decode), then cache_unfinished_req or
\* cache_finished_req of the step's result.
WithPrompt(r) == IF Emits(r) /\ fresh[r] THEN Inserted(tree, Key(r, Input(r))) ELSE tree
Result(r) == Key(r, IF Finishes(r) THEN Input(r) + Output(r) - 1 ELSE After(r))
Grown(r) == Inserted(WithPrompt(r), Result(r))
Growth(r) == Block * Cardinality(Cached(Grown(r)) \ Cached(tree))

\* Mutants: the old node stays locked, and so does that of a finished request.
OldStaysLocked(r) == FALSE
FinishKeepsLock(r) == [q \in {r} |-> Result(r)]

\* dec_lock_ref of the node that was locked, inc_lock_ref of that of the result.
HoldsOld(r) == locked[r]
Fixed(r) == [q \in {r} |-> IF Finishes(r) THEN Root ELSE Result(r)]
Relocked(r) ==
    LockedBy(IF HoldsOld(r) THEN UnlockedBy(Grown(r), {r}, lastNode) ELSE Grown(r), {r}, Fixed(r))

\* MemoryModel.allocate raises a RuntimeError unless the new pages fit.
Fits(r) == npuUsed + Growth(r) <= setup.npu

\* A prompt cached whole was never locked: its node may have been evicted.
LocksGone(r) == ~IsPrefill(r) /\ fresh[r] /\ ~locked[r] /\ lastNode[r] = Gone

Close(r) ==
    /\ phase = "close" /\ r = Head(batch)
    /\ Fits(r) /\ ~LocksGone(r)
    /\ Relock(Grown(r), Relocked(r), Growth(r))
    /\ computed' = [computed EXCEPT ![r] = After(r)]
    /\ chunk' = [chunk EXCEPT ![r] = IF IsPrefill(r) THEN 0 ELSE @]
    /\ generated' = [generated EXCEPT ![r] = IF Emits(r) THEN @ + 1 ELSE @]
    /\ fresh' = [fresh EXCEPT ![r] = @ /\ ~Emits(r)]
    /\ lastNode' = [lastNode EXCEPT ![r] = IF Finishes(r) THEN None ELSE Result(r)]
    /\ locked' = [locked EXCEPT ![r] = ~Finishes(r)]
    /\ request' = IF Finishes(r) THEN request ELSE request \cup {r}
    /\ done' = IF Finishes(r) THEN done \cup {r} ELSE done
    /\ batch' = Tail(batch)
    /\ phase' = IF Tail(batch) = <<>> THEN "run" ELSE "close"
    /\ UNCHANGED <<setup, inflight, evict, todo, gen, room>>

----------------------------------------------------------------------------
Serve ==
    \/ Begin \/ Keep \/ Dispatch \/ AddDone
    \/ \E n \in Page : EvictLeaf(n)
    \/ \E r \in Req : MatchNext(r) \/ Close(r)

Next == Serve \/ \E r \in Req : Arrive(r)
Spec == Init /\ [][Next]_vars /\ WF_vars(Serve)

----------------------------------------------------------------------------
(* Properties. *)

\* However nodes are split, grown, locked and evicted, the counters that
\* admission reads agree with the tree: evictable_size_ with the nodes nobody
\* locks, protected_size_ with the others, npu_used with all of them.
BooksExact ==
    /\ evictable = Tokens(tree, {n \in DOMAIN tree : tree[n] = 0})
    /\ protected = Tokens(tree, {n \in DOMAIN tree : tree[n] > 0})
    /\ npuUsed = evictable + protected /\ npuUsed <= setup.npu

\* A node is locked once for every request that holds it or a node below it:
\* no lock is missing, and none is left that nobody gives back.
LocksMatchHolders ==
    \A n \in DOMAIN tree :
        tree[n] = Cardinality({r \in Req : locked[r] /\ n \in Up(lastNode[r])})

\* A request in a batch works on KV that is there: the prefix it counts as
\* computed is in the tree until its step has ended.
ComputesOnCached ==
    \A r \in Running \cup (IF phase \in {"evict", "close"} THEN Range(batch) ELSE {}) :
        Up(Key(r, computed[r])) \subseteq Cached(tree)

\* What a finished step adds to the tree fits in the memory: the blocks that
\* schedule made room for are the blocks that are stored.
NeverRaises == phase = "close" => Fits(Head(batch))

\* The instance implements the abstract token service: reusing, chunking and
\* evicting the KV of a request is invisible to its client.
Service == INSTANCE TokenService WITH
    wanted <- setup.output, accepted <- Arrived, emitted <- generated, finished <- done

ServesTokens == Service!Spec

\* Every request that arrives is served to its end.
EveryRequestServed == \A r \in Req : r \in request ~> r \in done
=============================================================================
