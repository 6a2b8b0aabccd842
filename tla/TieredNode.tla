----------------------------- MODULE TieredNode -----------------------------
(***************************************************************************)
(* FiniteHBMTieredP4D4Node: the driver of the tier lifecycle.  At every    *)
(* event the node first applies all completions of that timestamp, then    *)
(* walks its pending calls once, in order, skipping those that do not fit. *)
(* A call that lacks D or CPU room starts the demotions that will make     *)
(* some, and is looked at again only at a later event.                     *)
(*                                                                         *)
(* The serving pool is abstracted to the two completions it reports, the   *)
(* handoff of the prompt to D and the last token.  Transfers through CPU   *)
(* memory share one serial resource (cpu-dram), so they end in the order   *)
(* they started (line); D-to-P restores end at any time.                   *)
(***************************************************************************)
EXTENDS TierLifecycle

VARIABLES submitted,   \* [Session -> calls submitted since the lineage began]
          serving,     \* [Session -> progress of the active call, or "none"]
          pending,     \* _pending_call_ids: sessions, each with one pending call
          phase,       \* "run", "scan" (_admit_pending) or "reclaim" (ensure_d_headroom)
          due,         \* the scheduling flush of this timestamp is still to come
          scan,        \* calls the walk has still to look at
          victims,     \* idle D sessions ensure_d_headroom has still to look at
          line         \* transfers through CPU memory, in completion order

nodeVars == <<submitted, serving, pending, phase, due, scan, victims, line>>
vars == <<tierVars, nodeVars>>

ASSUME ScriptsAssumption ==
  \A st \in Setups, s \in Session :
    /\ st.script[s] \in Seq([input : Nat \ {0}, output : Nat \ {0}, reuse : Nat])
    /\ \A k \in DOMAIN st.script[s] :
         [input |-> st.script[s][k].input, output |-> st.script[s][k].output,
          reuse |-> st.script[s][k].reuse, successor |-> k < Len(st.script[s])] \in Calls

Progress == {"none", "preparing", "ready", "executing", "user_complete"}
Waiting == Range(pending) \cup Range(scan)

(* The call of s that waits: the last one submitted.                       *)
PendingCall(s) ==
  LET k == submitted[s]
      call == setup.script[s][k]
  IN  [input |-> call.input, output |-> call.output, reuse |-> call.reuse,
       successor |-> k < Len(setup.script[s])]
Wanted(s) == Plan(s, PendingCall(s))

(* Layer-wise restores are handed to the pool before they end.             *)
Streams(tier) == setup.mode = "layerwise" /\ tier \in {"cpu", "ssd"}
MissesOpen == {s \in Session : serving[s] = "preparing" /\ tickets[s].tier = "none"}

NodeInit ==
  /\ TierInit
  /\ submitted = [s \in Session |-> 0]
  /\ serving = [s \in Session |-> "none"]
  /\ pending = <<>> /\ scan = <<>> /\ victims = {} /\ line = <<>>
  /\ phase = "run" /\ due = FALSE

-----------------------------------------------------------------------------
(* Completions at one timestamp, before the walk.                          *)

Event == phase = "run" /\ due' = TRUE /\ UNCHANGED <<phase, scan, victims>>
FirstInLine(kind, i) == line # <<>> /\ Head(line) = <<kind, i>> /\ line' = Tail(line)

(* Copy ids are not reused in the code; CopyId bounds those that exist.    *)
NewId == CHOOSE i \in FreshCopies : TRUE

MoveEnds(c) ==
  /\ Event
  /\ FreshCopies # {}
  /\ FirstInLine("move", c)
  /\ CompleteMove(c, NewId)
  /\ UNCHANGED <<submitted, serving, pending>>

RestoreEnds(s) ==
  /\ Event
  /\ tickets[s] # NoTicket
  /\ \/ tickets[s].tier = "d" /\ UNCHANGED line
     \/ FirstInLine("fetch", s)
  /\ CompletePrepare(s)
  /\ serving' = [serving EXCEPT ![s] = IF @ = "preparing" THEN "ready" ELSE @]
  /\ UNCHANGED <<submitted, pending>>

(* The pool hands the prompt over before it decodes a second token; with   *)
(* one output token the user is served before the handoff.                 *)
HandoffEnds(s) ==
  /\ Event
  /\ tickets[s] # NoTicket
  /\ serving[s] = IF tickets[s].output > 1 THEN "executing" ELSE "user_complete"
  /\ ReleaseP(s)
  /\ UNCHANGED <<submitted, serving, pending, line>>

UserDone(s) ==
  /\ Event
  /\ serving[s] = "executing"
  /\ tickets[s].restored
  /\ tickets[s].output > 1 => tickets[s].pReleased
  /\ serving' = [serving EXCEPT ![s] = "user_complete"]
  /\ UNCHANGED <<tierVars, submitted, pending, line>>

(* _finish_internal, at the timestamp of the later of the two completions. *)
InternalDue(s) == serving[s] = "user_complete" /\ CommitDue(s)
FinishInternal(s) ==
  /\ Event
  /\ InternalDue(s)
  /\ FreshCopies # {}
  /\ \/ Publish(s, IF InPlace(s) THEN tickets[s].base ELSE NewId)
     \/ Finish(s)
  /\ serving' = [serving EXCEPT ![s] = "none"]
  /\ UNCHANGED <<submitted, pending, line>>

-----------------------------------------------------------------------------
(* What the users of the node do: the next call of a session once its      *)
(* predecessor is user-complete; a hybrid system also offloads idle        *)
(* contexts, exports them from the SSD, and ends them here when the other  *)
(* device has them.  A resume aborts the export of its session.            *)

Submit(s) ==
  /\ Event
  /\ submitted[s] < Len(setup.script[s])
  /\ s \notin Waiting
  /\ serving[s] \in (IF setup.hybrid THEN {"none"} ELSE {"none", "user_complete"})
  /\ \/ rec[s].state = "ended" /\ RestartEnded(s)
     \/ rec[s].state # "ended" /\ rec[s].primary \in DOMAIN exports
        /\ exports[rec[s].primary].status # "abort_pending" /\ AbortExport(rec[s].primary)
     \/ /\ rec[s].state # "ended"
        /\ rec[s].primary \in DOMAIN exports => exports[rec[s].primary].status = "abort_pending"
        /\ UNCHANGED tierVars
  /\ submitted' = [submitted EXCEPT ![s] = @ + 1]
  /\ pending' = Append(pending, s)
  /\ UNCHANGED <<serving, line>>

Offload(s) ==
  /\ Event
  /\ setup.hybrid
  /\ s \notin Waiting
  /\ DemoteToSsd(s)
  /\ line' = Append(line, <<"move", rec[s].primary>>)
  /\ UNCHANGED <<submitted, serving, pending>>

StartExport(s) ==
  /\ Event
  /\ setup.hybrid
  /\ s \notin Waiting
  /\ BeginExport(s)
  /\ line' = Append(line, <<"export", rec[s].primary>>)
  /\ UNCHANGED <<submitted, serving, pending>>

ExportEnds(c) ==
  /\ Event
  /\ FirstInLine("export", c)
  /\ CompleteExport(c)
  /\ UNCHANGED <<submitted, serving, pending>>

ImportCommits(c) ==
  /\ Event
  /\ FinishExport(c)
  /\ UNCHANGED <<submitted, serving, pending, line>>

-----------------------------------------------------------------------------
(* flush_scheduling: one walk over the pending calls.                      *)

StartWalk ==
  /\ phase = "run" /\ due
  /\ \A s \in Session : ~InternalDue(s)
  /\ phase' = "scan" /\ scan' = pending /\ pending' = <<>>
  /\ UNCHANGED <<tierVars, submitted, serving, due, victims, line>>

Looking == phase = "scan" /\ scan # <<>> /\ MissesOpen = {}
NextToAdmit == Head(scan)
\* Mutant: a call that does not fit is forgotten.
DeferForgets == scan' = Tail(scan) /\ UNCHANGED pending

Defer == scan' = Tail(scan) /\ pending' = Append(pending, Head(scan))
Start(job) == line' = Append(line, job)

SkipCall ==
  /\ Looking
  /\ \/ serving[NextToAdmit] # "none"
     \/ Free("p") < Wanted(NextToAdmit).p
  /\ Defer
  /\ UNCHANGED <<tierVars, submitted, serving, phase, due, victims, line>>

(* ensure_cpu_bounce_headroom: the oldest idle CPU copy that fits the SSD  *)
(* is spilled, but never at the cost of the copy the call resumes from.    *)
ShortOfBounce ==
  /\ Looking
  /\ serving[NextToAdmit] = "none"
  /\ LET s  == NextToAdmit
         pl == Wanted(s)
         q  == {v \in Eligible("cpu", {s}) : setup.policy = "cpu_ssd" /\ CanSpill(v, {s})}
     IN  /\ Free("p") >= pl.p
         /\ Free("cpu") < pl.bounce
         /\ \/ q = {} /\ UNCHANGED <<tierVars, line>>
            \/ \E v \in q : IsOldest(v, q) /\ Spill(v, {s}) /\ Start(<<"move", rec[v].primary>>)
  /\ Defer
  /\ UNCHANGED <<submitted, serving, phase, due, victims>>

ShortOfD ==
  /\ Looking
  /\ serving[NextToAdmit] = "none"
  /\ LET pl == Wanted(NextToAdmit)
     IN  Free("p") >= pl.p /\ Free("cpu") >= pl.bounce /\ Free("d") < pl.d
  /\ phase' = "reclaim"
  /\ victims' = Eligible("d", {NextToAdmit})
  /\ UNCHANGED <<tierVars, submitted, serving, pending, due, scan, line>>

Admit ==
  /\ Looking
  /\ serving[NextToAdmit] = "none"
  /\ BeginPrepare(NextToAdmit, PendingCall(NextToAdmit))
  /\ LET s    == NextToAdmit
         tier == Wanted(s).tier
     IN  /\ serving' = [serving EXCEPT ![s] = IF Streams(tier) THEN "ready" ELSE "preparing"]
         /\ IF tier \in {"cpu", "ssd"} THEN Start(<<"fetch", s>>) ELSE UNCHANGED line
  /\ scan' = Tail(scan)
  /\ UNCHANGED <<submitted, pending, phase, due, victims>>

(* A call that restores nothing is prepared at the timestamp it starts.    *)
MissReady(s) ==
  /\ phase = "scan" /\ s \in MissesOpen
  /\ CompletePrepare(s)
  /\ serving' = [serving EXCEPT ![s] = "ready"]
  /\ UNCHANGED <<submitted, pending, phase, due, scan, victims, line>>

EndWalk ==
  /\ phase = "scan" /\ scan = <<>> /\ MissesOpen = {}
  /\ serving' = [s \in Session |-> IF serving[s] = "ready" THEN "executing" ELSE serving[s]]
  /\ phase' = "run" /\ due' = FALSE
  /\ UNCHANGED <<tierVars, submitted, pending, scan, victims, line>>

-----------------------------------------------------------------------------
(* ensure_d_headroom for the call at the head of the walk: idle D copies   *)
(* are demoted in LRU order until there is room or a transfer to wait for. *)

Reclaiming == phase = "reclaim" /\ Free("d") < Wanted(NextToAdmit).d
NextVictim(v) == victims' = victims \ {v} /\ UNCHANGED <<phase, scan, pending>>
GiveUp == phase' = "scan" /\ victims' = {} /\ Defer

EnoughD ==
  /\ phase = "reclaim" /\ Free("d") >= Wanted(NextToAdmit).d
  /\ phase' = "scan" /\ victims' = {}
  /\ UNCHANGED <<tierVars, submitted, serving, pending, due, scan, line>>

NoVictimLeft ==
  /\ Reclaiming /\ victims = {}
  /\ GiveUp
  /\ UNCHANGED <<tierVars, submitted, serving, due, line>>

Reclaim(v, policy) == Reclaiming /\ IsOldest(v, victims) /\ setup.policy = policy

ReclaimByDrop(v) ==
  /\ Reclaim(v, "hbm_lru_recompute")
  /\ Drop(v)
  /\ NextVictim(v)
  /\ UNCHANGED <<submitted, serving, due, line>>

ReclaimToSsd(v) ==
  /\ Reclaim(v, "ssd_direct")
  /\ \/ DemoteToSsd(v) /\ Start(<<"move", rec[v].primary>>) /\ GiveUp
     \/ ~CanDemoteToSsd(v) /\ UNCHANGED <<tierVars, line>> /\ NextVictim(v)
  /\ UNCHANGED <<submitted, serving, due>>

ReclaimToCpu(v) ==
  /\ Reclaim(v, "cpu_ssd")
  /\ DemoteToCpu(v)
  /\ Start(<<"move", rec[v].primary>>)
  /\ GiveUp
  /\ UNCHANGED <<submitted, serving, due>>

(* No CPU room either: the oldest idle CPU copy is spilled first.  The     *)
(* call waits for that spill when it is the next event of the node.        *)
ReclaimBySpill(v) ==
  /\ Reclaim(v, "cpu_ssd")
  /\ Free("cpu") < Aggregate(v)
  /\ LET q == Eligible("cpu", {v})
     IN  \/ /\ \A x \in q : ~(IsOldest(x, q) /\ CanSpill(x, {}))
            /\ UNCHANGED <<tierVars, line>>
            /\ NextVictim(v)
         \/ \E x \in q :
              /\ IsOldest(x, q)
              /\ Spill(x, {})
              /\ Start(<<"move", rec[x].primary>>)
              /\ \/ line = <<>> /\ GiveUp
                 \/ /\ line # <<>> \/ \E s \in Session : serving[s] = "preparing"
                    /\ NextVictim(v)
  /\ UNCHANGED <<submitted, serving, due>>

-----------------------------------------------------------------------------
Walk ==
  \/ StartWalk \/ SkipCall \/ ShortOfBounce \/ ShortOfD \/ Admit \/ EndWalk
  \/ EnoughD \/ NoVictimLeft
  \/ \E v \in victims : \/ ReclaimByDrop(v) \/ ReclaimToSsd(v)
                        \/ ReclaimToCpu(v) \/ ReclaimBySpill(v)
  \/ \E s \in Session : MissReady(s)
Ends ==
  \/ \E c \in CopyId : MoveEnds(c) \/ ExportEnds(c)
  \/ \E s \in Session : RestoreEnds(s) \/ HandoffEnds(s) \/ UserDone(s) \/ FinishInternal(s)
Users ==
  \E s \in Session : Submit(s) \/ Offload(s) \/ StartExport(s)
Imports == \E c \in CopyId : ImportCommits(c)

Next == Walk \/ Ends \/ Users \/ Imports
Spec == NodeInit /\ [][Next]_vars /\ WF_vars(Walk \/ Ends \/ Imports)
-----------------------------------------------------------------------------
(* Properties.                                                             *)

(* A call waits only for something: when no transfer, no call being        *)
(* served, no export the other device imports and no walk is under way,    *)
(* nothing is left pending, or run_until_idle raises                       *)
(* TieredNodeDeadlockError.                                                *)
NeverStuck ==
  phase = "run" /\ ~due /\ pending # <<>>
  => line # <<>> \/ DOMAIN exports # {} \/ \E s \in Session : serving[s] # "none"

(* Every submitted call eventually starts, and every call that started is  *)
(* eventually done with its context published, whatever the other sessions *)
(* do with the memory meanwhile.                                           *)
EveryCallServed ==
  \A s \in Session :
    /\ s \in Waiting ~> serving[s] \in {"preparing", "ready", "executing"}
    /\ serving[s] # "none" ~> serving[s] = "none"
=============================================================================
