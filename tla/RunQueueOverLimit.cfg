SPECIFICATION Spec
CONSTANTS
  ga = ga  gb = gb  gc = gc  gd = gd
  c1 = c1  c2 = c2  c3 = c3  c4 = c4  o1 = o1
  a1 = a1  a2 = a2  b3 = b3  s1 = s1  s4 = s4  d1 = d1
  Nobody = Nobody
  Batch = {gb, gd}
  Command = {c1, c2, c3, c4}
  Object = {}
  Entry <- SinglesEntries
  BatchOf <- SinglesBatchOf
  CommandOf <- SinglesCommands
  Position <- SinglesPosition
  Inputs <- Unchained
  Editable = {}
  Limits = {1}
  MaxBatches = 2
  MaxVersion = 0
  MaxOutside = 0
  MaxCrash = 0
  LateRefusals = FALSE
INVARIANT LimitRespected
\* Every gesture is made once, so a run may end with the server idle.
CHECK_DEADLOCK FALSE
