SPECIFICATION Spec
CONSTANTS
  s1 = s1  Nobody = Nobody
  p1 = p1  p2 = p2
  parent = parent  child = child  NoLimit = NoLimit
  b1 = b1  b2 = b2  g1 = g1  g2 = g2
  a1 = a1  hosted = hosted  other = other  Operator = Operator  Kept = Kept
  h1 = h1  h2 = h2  Hand = Hand
  Session = {s1}
  Kind = {"shell", "publish", "edit", "question"}
  MaxProc = 2  MaxCall = 2  MaxCalls = 2
  PluginCall = {p1, p2}
  MaxRestarts = 1  MaxDeaths = 2
  Spender = {parent, child}
  Chain <- ParentAndChild
  Cap = {{parent}}
  CapLimit <- TwoTurns
  Ceiling = {{parent, child}}
  Limits = {3}
  MaxTurns = 2  MaxCrash = 1
  Recipient = {b1, b2}
  Gesture = {g1, g2}
  To <- OneToBoth
  MayCrash = TRUE
  Asker = {a1}
  Record = {hosted, other}
  Hosted = {hosted}
  Grant <- AllowAndDeny
  MaxRaised = 2
  Shell = {h1, h2}
INVARIANTS TypeOK EveryGatedCallIsAsked CapsHold AccountsSettle OneTurnEach NothingDestroyedUnasked NothingLeftBehind
PROPERTIES KeepsTheFloor AnAnswerIsDelivered DownForGood CallsEnd
CHECK_DEADLOCK FALSE
