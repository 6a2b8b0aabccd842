------------------------------ MODULE SessionKV ------------------------------
(***************************************************************************)
(* What a session may expect of its KV cache, whatever tiers, transfers    *)
(* and evictions are behind it: between calls its context is the one the   *)
(* last call published, or lost; a call reuses at most that context; only  *)
(* the end of a call publishes, and it publishes the next version.         *)
(* Several sessions may take a step at once (a commit that evicts others). *)
(***************************************************************************)
EXTENDS Integers

CONSTANT Session

VARIABLE kv      \* [Session -> [phase, version, context, reused]]

Idle(v, n) == [phase |-> "idle", version |-> v, context |-> n, reused |-> 0]
Busy(v, h) == [phase |-> "busy", version |-> v, context |-> 0, reused |-> h]
Ended(v) == [phase |-> "ended", version |-> v, context |-> 0, reused |-> 0]

Fresh == [phase : {"idle"}, version : Nat, context : Nat, reused : {0}]
KVInit == kv \in [Session -> Fresh]

Lose(c, d) == c.phase = "idle" /\ d = Idle(c.version, 0)

(* The call that starts owns the context: nobody else can resume from it.  *)
Resume(c, d) ==
  /\ c.phase = "idle"
  /\ d.reused \in 0..c.context
  /\ d = Busy(c.version, d.reused)

PublishNext(c, d) ==
  /\ c.phase = "busy"
  /\ d.context \in Nat /\ d.context >= c.reused
  /\ d = Idle(c.version + 1, d.context)

Close(c, d) == c.phase # "ended" /\ d = Ended(c.version)
Reopen(c, d) == c.phase = "ended" /\ d = Idle(c.version, 0)

Step(c, d) == Lose(c, d) \/ Resume(c, d) \/ PublishNext(c, d) \/ Close(c, d) \/ Reopen(c, d)

KVNext ==
  /\ kv' = [s \in Session |-> kv'[s]]
  /\ \A s \in Session : kv'[s] = kv[s] \/ Step(kv[s], kv'[s])
KVSpec == KVInit /\ [][KVNext]_kv
=============================================================================
