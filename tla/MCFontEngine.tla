---------------------------- MODULE MCFontEngine ----------------------------
(* Instances of FontEngine for TLC.                                         *)
EXTENDS FontEngine, TLC

CONSTANTS serif, sans

OneName == {serif}
TwoNames == {serif, sans}
NameSymmetry == Permutations(TwoNames)
=============================================================================
