---------------------------- MODULE MCGlyphCache ----------------------------
(* Instances of GlyphCache for TLC: two characters, two glyph indexes.       *)
EXTENDS GlyphCache, TLC

CONSTANTS draw1, draw2, g1, g2, g3, g4

TwoThreads == {draw1, draw2}
OneThread == {draw1}
SomeKeys == {-2, -1, 65, 66}
FourGlyphs == {g1, g2, g3, g4}
Symmetry == Permutations(TwoThreads) \cup Permutations(FourGlyphs)
=============================================================================
