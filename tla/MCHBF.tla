------------------------------- MODULE MCHBF -------------------------------
(* Small servers for HBFServing: two cards a group, one or two groups, and *)
(* scripts of two to six calls with contexts of up to seven tokens.       *)
EXTENDS HBFServing, TLC

CONSTANTS s1, s2, s3

C(i, o, r) == [input |-> i, output |-> o, reuse |-> r]
Scripts(a, b, c) == (s1 :> a) @@ (s2 :> b) @@ (s3 :> c)

(* Appends of two turns in flight together, a trim that overtakes them, a  *)
(* fully cached prompt, and a second session that needs the same cards.    *)
Appends == [groups |-> 1, hbfCap |-> 4, lpddrCap |-> 3, chunk |-> 2, tail |-> -1, minDrain |-> 1,
         policy |-> "eager", native |-> FALSE, recompute |-> FALSE, refresh |-> TRUE,
         pressure |-> FALSE,
         script |-> Scripts(<<C(1, 2, 0), C(3, 1, 2), C(3, 2, 3), C(4, 1, 2)>>,
                            <<C(3, 1, 0), C(4, 2, 3), C(6, 1, 5)>>, <<>>)]

(* The online adapter with an early drain of long prompts.                 *)
Drained == [Appends EXCEPT !.native = TRUE, !.tail = 0,
             !.script = Scripts(<<C(1, 2, 0), C(3, 1, 2), C(6, 2, 3)>>, <<C(2, 1, 0), C(2, 2, 2), C(5, 2, 3)>>, <<>>)]
Tailed == [Drained EXCEPT !.tail = 1, !.minDrain = 2, !.hbfCap = 3]

(* Two groups, and GPU resumes that recompute everything.                  *)
Recompute == [Appends EXCEPT !.groups = 2, !.native = TRUE, !.recompute = TRUE,
             !.hbfCap = 2, !.pressure = TRUE,
             !.script = Scripts(<<C(1, 2, 0), C(3, 1, 2), C(4, 1, 3)>>, <<C(2, 2, 0), C(4, 1, 3), C(4, 2, 2)>>, <<>>)]

(* Three sessions for the room of two.                                     *)
Crowd == [Recompute EXCEPT !.recompute = FALSE, !.hbfCap = 1,
             !.script = Scripts(<<C(1, 2, 0), C(3, 1, 2)>>, <<C(2, 1, 0), C(3, 1, 2)>>,
                                <<C(2, 1, 0), C(3, 1, 2)>>)]

(* Contexts that wait on the GPUs, and memory pressure that drops them.    *)
Deferred == [Appends EXCEPT !.policy = "deferred", !.pressure = TRUE, !.hbfCap = 2,
             !.script = Scripts(<<C(1, 2, 0), C(3, 1, 2), C(4, 1, 3)>>, <<C(3, 2, 0), C(5, 1, 4), C(5, 2, 5)>>, <<>>)]

Never == [Deferred EXCEPT !.policy = "never"]

(* The staged hybrid: SSD checkpoints, imports and direct migrations.      *)
Import == [Appends EXCEPT !.policy = "import", !.refresh = FALSE, !.hbfCap = 2,
            !.script = Scripts(<<C(1, 2, 0), C(4, 2, 2)>>, <<C(2, 2, 0), C(5, 1, 3)>>, <<>>)]
Direct == [Import EXCEPT !.policy = "direct", !.hbfCap = 3,
            !.script = Scripts(<<C(1, 2, 0), C(3, 1, 2), C(4, 2, 3)>>, <<C(2, 1, 0), C(3, 2, 2)>>, <<>>)]

(* Five short turns on HBF whose appends end in any order: a later append  *)
(* may start within the range of one that is still in flight.              *)
Long == [Appends EXCEPT !.hbfCap = 5, !.lpddrCap = 4,
          !.script = Scripts(<<C(1, 1, 0), C(2, 1, 1), C(3, 1, 2), C(4, 1, 3), C(5, 1, 4),
                               C(6, 1, 5)>>,
                             <<>>, <<>>)]

MCSetups == {Appends, Drained, Tailed, Recompute, Deferred, Import, Direct, Never, Crowd, Long}
StaleSetups == {[Appends EXCEPT !.refresh = FALSE]}
=============================================================================
