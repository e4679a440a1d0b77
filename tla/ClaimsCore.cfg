CONSTANTS
  src = src
  api = api
  Session = {s1, s2}
  Operator = operator
  Segment <- Segments
  Path <- Nested
  MaxWaits = 2
  MaxPolicies = 1
SPECIFICATION TickingSpec
INVARIANTS TypeOK SingleWriter GrantExtent PoliciesLive NoDeadlock WaitsInSync
PROPERTIES FirstComeFirstServed LapseServesTheWaiter PromotionsEnd
