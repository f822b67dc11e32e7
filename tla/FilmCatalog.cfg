CONSTANTS
  Films = {f1}
  Pages = {"films", "person"}
  Readers = {r1}
SPECIFICATION FairSpec
INVARIANTS
  CatalogInv
  RepairPending
  OnlyStragglersRefill
PROPERTIES
  HiddenStaysHidden
  ImplementsRepair
  EventuallyHidden
