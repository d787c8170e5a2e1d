CONSTANTS
  draw1 = draw1
  draw2 = draw2
  g1 = g1
  g2 = g2
  g3 = g3
  g4 = g4
  NoGlyph = NoGlyph
  NoThread = NoThread
  Threads <- OneThread
  Keys <- SomeKeys
  Modes = {colour, mono}
  Glyphs <- FourGlyphs
  ReqCountMax = 3
  GcCounter = 1
  MaxText = 2
  MaxMru = 4
SYMMETRY Symmetry
SPECIFICATION Spec
PROPERTY KeepsRecent
