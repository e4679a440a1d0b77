SPECIFICATION FairSpec
CONSTANTS
  ga = ga  gb = gb  gc = gc  gd = gd
  c1 = c1  c2 = c2  c3 = c3  c4 = c4  o1 = o1
  a1 = a1  a2 = a2  b3 = b3  s1 = s1  s4 = s4  d1 = d1
  Nobody = Nobody
  Batch = {ga, gc}
  Command = {c1, c2, c3, c4}
  Object = {o1}
  Entry <- ChainsEntries
  BatchOf <- ChainsBatchOf
  CommandOf <- ChainsCommands
  Position <- ChainsPosition
  Inputs <- Wired
  Editable = {c1}
  Limits = {1, 2}
  MaxBatches = 1
  MaxVersion = 1
  MaxOutside = 1
  MaxCrash = 1
  LateRefusals = TRUE
INVARIANTS ChainOrder NoStrandedEntry
PROPERTIES SettledIsFinal ReaskOnlyOnDrift DrainEnds QueuedIsDecided NoHollowBatch
\* Every gesture is made once, so a run may end with the server idle.
CHECK_DEADLOCK FALSE
