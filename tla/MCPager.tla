------------------------------ MODULE MCPager ------------------------------
(* Small instances of the pager for TLC. *)
EXTENDS Pager, TLC

CONSTANTS u1, u2, w1, w2

OneCpu   == {0}
TwoCpus  == {0, 1}
TwoUprocs == {u1, u2}
TwoWords == {w1, w2}

\* U-procs are interchangeable, and so are words; frames have an order.
PagerSymmetry == Permutations(TwoUprocs) \cup Permutations(TwoWords)
=============================================================================
