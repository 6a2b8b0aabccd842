------------------------------ MODULE MCPrefix ------------------------------
(* Small instances of PrefixScheduler for TLC.                             *)
EXTENDS PrefixScheduler

\* Five texts: B leaves A after one page, C after three, E continues A, and D
\* has nothing in common with them.
MCPage == 1..13
MCUpto == <<{1}, {1, 2}, 1..3, 1..4, {1, 5}, {1, 5, 6}, {1, 5, 6, 7}, {1, 2, 3, 8},
            {9}, {9, 10}, 9..11, 9..12, 1..4 \cup {13}>>
A == <<1, 2, 3, 4>>
B == <<1, 5, 6, 7>>
C == <<1, 2, 3, 8>>
D == <<9, 10, 11, 12>>
E == <<1, 2, 3, 4, 13>>

\* Chunked prefill in steps of at most two tokens, with memory for two
\* requests: what the others have left in the tree has to go.
Chunks == [chunked |-> TRUE, first |-> FALSE, threshold |-> 2, tokens |-> 3,
           seqs |-> 2, stages |-> 1, npu |-> 8,
           input |-> <<3, 2, 4, 3>>, output |-> <<1, 3, 1, 2>>, text |-> <<A, B, C, D>>]
\* The texts in another order, and whole prompts with and without the
\* priority of prefills.
Others == [Chunks EXCEPT !.input = <<4, 2, 4, 3>>, !.text = <<D, A, C, B>>]
Whole  == [Chunks EXCEPT !.chunked = FALSE, !.first = TRUE, !.tokens = 4, !.threshold = 0]
Mixed  == [Whole EXCEPT !.first = FALSE, !.text = <<D, A, C, B>>]
\* Two stages, prompts found whole in the cache, and memory for everything.
Hits == [Chunks EXCEPT !.stages = 2, !.npu = 12, !.seqs = 4,
         !.input = <<4, 2, 4, 2>>, !.output = <<1, 3, 2, 2>>, !.text = <<A, A, E, D>>]
MCSetups == {Chunks, Others, Whole, Mixed, Hits}

\* Pages of two tokens, and prompts that do not fill their last page.
PagedSetups ==
    {[Chunks EXCEPT !.tokens = 6, !.threshold = 0, !.input = in, !.output = out, !.text = <<A, B>>] :
        in \in [1..2 -> 3..5], out \in [1..2 -> 1..2]}
=============================================================================
