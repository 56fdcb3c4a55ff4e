------------------------------- MODULE MCPcbs -------------------------------
EXTENDS Pcbs, TLC

CONSTANTS p1, p2, p3, d1, d2, d3

ThreePcbs  == {p1, p2, p3}
ThreeSemds == {d1, d2, d3}
TwoKeys    == {1, 2}
TableSymmetry == Permutations({p1, p2, p3}) \cup Permutations({d1, d2, d3})
=============================================================================
