CONSTANTS
  Handlers = {h1, h2}
  AccessTTL = 1
  RefreshTTL = 2
  MaxPairs = 3
  Nobody = nobody
SYMMETRY TabSymmetry
VIEW WithoutOrigins
SPECIFICATION AdminSpec
INVARIANTS
  PanelInv
  SpentHasHeir
PROPERTIES
  SavedPairIsFresh
  OnlyLoginRevives
