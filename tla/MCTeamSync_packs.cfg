CONSTANTS
  m1 = m1
  m2 = m2
  p1 = p1
  s1 = s1
  s2 = s2
  Machines = {m1, m2}
  Projects = {p1}
  Sessions = {s1, s2}
  Home <- OneEach
  In <- OneProject
  Runs <- Ids
  Rows <- Ids
  Kinds = {"pack"}
  Window = 1
  MaxActs = 1
  None = None
SPECIFICATION FairSpec
PROPERTIES
  PacksArrive
