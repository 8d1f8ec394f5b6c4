--------------------------- MODULE MCRealStorage -----------------------------
(* Instances of RealStorage for TLC.                                         *)
EXTENDS RealStorage

SmallSizes == {1, 2}
NoAlignment == {0}
HalfwordAligns == {0, 2}
FullwordAligns == {4}
=============================================================================
