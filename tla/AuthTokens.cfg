CONSTANTS
  Handlers = {h1, h2}
  AccessTTL = 2
  RefreshTTL = 3
  MaxPairs = 3
  Nobody = nobody
SYMMETRY HandlerSymmetry
SPECIFICATION Spec
INVARIANTS
  TokensInv
  ExchangedIsSpent
PROPERTIES
  AccessLifecycle
  RefreshLifecycle
  LoggedOutRefused
