CONSTANTS
  serif = serif
  sans = sans
  Names <- OneName
  NFull = 2
  MaxFaces = 2
SPECIFICATION Spec
INVARIANT ReloadReachesAll
