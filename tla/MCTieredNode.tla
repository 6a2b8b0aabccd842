---------------------------- MODULE MCTieredNode ----------------------------
(* Small instances of TieredNode for TLC: one for every policy. *)
EXTENDS TieredNode, TLC

CONSTANTS s1, s2, s3

MCSession == {s1, s2, s3}
MCCopyId == 1..6
MCCalls == [input : 1..3, output : 1..3, reuse : 0..2, successor : BOOLEAN]

Caps(p, d, cpu, ssd) == [p |-> p, d |-> d, cpu |-> cpu, ssd |-> ssd]
Call(in, out, reuse) == [input |-> in, output |-> out, reuse |-> reuse]
On(s, tier, tokens) == [session |-> s, tier |-> tier, tokens |-> tokens]

(* Sessions that grow, that shrink, that are new. *)
Grows == <<Call(3, 1, 2), Call(3, 1, 2)>>
Shrinks == <<Call(2, 2, 1), Call(2, 1, 2)>>
New == <<Call(1, 2, 0), Call(2, 1, 2)>>
Mix == (s1 :> Grows @@ s2 :> Shrinks @@ s3 :> New)
Brief == (s1 :> Grows @@ s2 :> <<Call(2, 1, 2)>> @@ s3 :> New)

Setup(policy, reserve, mode, hybrid, cap, script, stored, order) ==
  [policy |-> policy, reserve |-> reserve, mode |-> mode, hybrid |-> hybrid,
   cap |-> cap, script |-> script, stored |-> stored, order |-> order]

Final == "final_context_upfront"
Prompt == "prompt_upfront_growth_at_commit"
Recompute ==
  Setup("hbm_lru_recompute", Final, "bulk", FALSE, Caps(3, 4, 0, 0), Mix,
        (1 :> On(s1, "d", 1) @@ 2 :> On(s2, "d", 3)), <<s3, s1, s2>>)
(* The call of s2 needs no D memory, so the growth of s1 is always found. *)
Growing ==
  Setup("hbm_lru_recompute", Prompt, "bulk", FALSE, Caps(3, 4, 0, 0),
        (s1 :> <<Call(2, 2, 1), Call(2, 3, 2), Call(3, 1, 2)>> @@ s2 :> <<Call(1, 1, 0)>> @@ s3 :> <<>>),
        (1 :> On(s1, "d", 1) @@ 2 :> On(s2, "d", 2)), <<s3, s1, s2>>)
Direct ==
  Setup("ssd_direct", Final, "layerwise", FALSE, Caps(3, 4, 6, 8), Mix,
        (1 :> On(s1, "d", 1) @@ 2 :> On(s2, "ssd", 3)), <<s3, s2, s1>>)
Staged ==
  Setup("cpu_ssd", Final, "bulk", FALSE, Caps(3, 3, 6, 12), Mix,
        (1 :> On(s1, "ssd", 1) @@ 2 :> On(s2, "cpu", 2)), <<s3, s1, s2>>)
Streamed ==
  Setup("cpu_ssd", Final, "layerwise", FALSE, Caps(4, 4, 8, 16), Brief,
        (1 :> On(s1, "d", 1) @@ 2 :> On(s2, "cpu", 2)), <<s3, s1, s2>>)
Hybrid ==
  Setup("ssd_direct", Final, "bulk", TRUE, Caps(2, 3, 6, 4),
        (s1 :> <<Call(2, 1, 1), Call(2, 2, 2)>> @@ s2 :> <<Call(1, 2, 0), Call(1, 1, 0)>> @@ s3 :> <<>>),
        (1 :> On(s1, "d", 1) @@ 2 :> On(s2, "ssd", 1)), <<s3, s2, s1>>)
MCSetups == {Recompute, Growing, Direct, Staged, Streamed, Hybrid}

(* CPU memory and SSD hold one idle context each. *)
Tight ==
  Setup("cpu_ssd", Final, "bulk", FALSE, Caps(2, 2, 4, 4),
        (s1 :> <<Call(2, 1, 2)>> @@ s2 :> <<>> @@ s3 :> <<>>),
        (1 :> On(s1, "ssd", 2) @@ 2 :> On(s2, "cpu", 2)), <<s3, s1, s2>>)
MCTight == {Tight}
=============================================================================
