------------------------------ MODULE MCHistory ------------------------------
(* Small instances of the nucleus with its history variables for TLC. *)
EXTENDS NucleusHistory

CONSTANTS p1, p2, p3, s1

OneCpu    == {0}
TwoCpus   == {0, 1}
NoDevs    == {}
TwoDevs   == {0, 1}
ThreePcbs == {p1, p2, p3}
OneSem    == {s1}

\* PCBs are interchangeable; CPUs and devices are ordered by their numbers.
PcbSymmetry == Permutations(PCB)
==============================================================================
