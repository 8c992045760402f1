SPECIFICATION FairSpec
CONSTANTS
  Sessions = {a, b}
  Calls = {c1, c2}
  Kinds = {"start", "prompt", "tool", "self", "end", "stopFailure", "cancel", "save"}
  Texts = {t1}
  Window = 1
  None = None
INVARIANTS
  TypeOK
  RunsAgree
PROPERTIES
  FinishedStayFinished
  RunsEnd
