CONSTANTS
  Tabs = {t1, t2}
  NumFilms = 3
  PageSize = 2
  MaxLink = 1
  NewFilms = {1}
  OldRows = {}
SYMMETRY TabSymmetry
SPECIFICATION Spec
INVARIANTS
  FilmsInv
  EveryFilmListed
PROPERTIES
  OnlyTickedDeleted
  PageFitsTotal
