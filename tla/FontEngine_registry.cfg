CONSTANTS
  serif = serif
  sans = sans
  Names <- TwoNames
  NFull = 2
  MaxFaces = 3
SYMMETRY NameSymmetry
SPECIFICATION Spec
INVARIANTS TypeOK RegistryLive FaceIdsMatch LinksResolve EngineFreesAll
PROPERTY LinksStable
