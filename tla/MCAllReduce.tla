---------------------------- MODULE MCAllReduce -----------------------------
(* Small instances of AllReduce for TLC: one to three GPUs, every scheme    *)
(* with equal shares, with a short and with an empty last share, and with a *)
(* length that is no multiple of four.                                      *)
EXTENDS AllReduce

Ask(algos, lens) == {[algo |-> a, n |-> k, pull |-> FALSE] : a \in algos, k \in lens}
AskPull(algos, lens) == {[q EXCEPT !.pull = TRUE] : q \in Ask(algos, lens)}

MCRequests(ranks) ==
  CASE ranks = 1 -> Ask({"auto", "oneshot", "hybrid", "sdma"}, {8})
    [] ranks = 2 ->
         Ask({"auto"}, {4, 8, 10, 16, 18})
           \cup Ask({"hybrid", "devhybrid", "concurrent"}, {24})
           \cup Ask({"bidir", "bidir2", "sdma"}, {16})
           \cup AskPull({"rsag_write"}, {10})
    [] ranks = 3 ->
         Ask({"direct", "rsag_write", "oneshot", "sdma"}, {16})
           \cup Ask({"rsag_read"}, {10})
           \cup Ask({"hybrid"}, {12})
           \cup AskPull({"rsag_read"}, {16})
=============================================================================
