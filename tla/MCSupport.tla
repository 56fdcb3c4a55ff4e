----------------------------- MODULE MCSupport -----------------------------
(* Small instances of the support level for TLC. *)
EXTENDS Support

CONSTANTS u1, u2

TwoUprocs   == {u1, u2}
OneLine     == {"terminal"}
FlashLine   == "flash"
OneFrame    == {0}
TwoFrames   == {0, 1}
ReadFaults  == {"read"}
WriteFaults == {"write"}
=============================================================================
