CONSTANTS
  Films = {f1}
  Pages = {"films"}
  Readers = {r1}
SPECIFICATION Spec
INVARIANTS
  FlushedStaysFlushed
