SPECIFICATION Spec
CONSTANTS
  Sessions = {a}
  Calls = {c1, c2, c3, c4}
  Kinds = {"end", "save"}
  Texts = {t1, t2}
  Window = 1
  None = None
SYMMETRY FullSymmetry
INVARIANTS
  CompletedHasPack
  SavesAccountedFor
PROPERTIES
  ImplementsRunBook
