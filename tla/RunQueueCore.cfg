SPECIFICATION Spec
CONSTANTS
  ga = ga  gb = gb  gc = gc  gd = gd
  c1 = c1  c2 = c2  c3 = c3  c4 = c4  o1 = o1
  a1 = a1  a2 = a2  b3 = b3  s1 = s1  s4 = s4  d1 = d1
  Nobody = Nobody
  Batch = {ga, gb}
  Command = {c1, c2, c3, c4}
  Object = {}
  Entry <- MixedEntries
  BatchOf <- MixedBatchOf
  CommandOf <- MixedCommands
  Position <- MixedPosition
  Inputs <- Unchained
  Editable = {}
  Limits = {2}
  MaxBatches = 2
  MaxVersion = 0
  MaxOutside = 0
  MaxCrash = 1
  LateRefusals = FALSE
INVARIANTS TypeOK NoLostWakeup CompletedMeansSettled CancelledNeverRan OneGestureOneSession
PROPERTY AdmissionOrder
\* Every gesture is made once, so a run may end with the server idle.
CHECK_DEADLOCK FALSE
