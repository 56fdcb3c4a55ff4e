------------------------------ MODULE MCNucleus ------------------------------
(* Small instances of the nucleus for TLC. *)
EXTENDS Nucleus

CONSTANTS p1, p2, p3, s1

OneCpu   == {0}
TwoCpus  == {0, 1}
NoDevs   == {}
OneDev   == {0}
TwoDevs  == {0, 1}
TwoPcbs  == {p1, p2}
ThreePcbs == {p1, p2, p3}
OneSem   == {s1}

\* PCBs are interchangeable; CPUs and devices are ordered by their numbers.
PcbSymmetry == Permutations(PCB)

\* Every property is claimed while intact, which never becomes TRUE again:
\* the states beyond the step that ends it cannot break one.
WhileIntact == intact
==============================================================================
