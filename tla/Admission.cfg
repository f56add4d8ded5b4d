SPECIFICATION MCSpec
CONSTANTS
  Calls = {c1, c2}
  Agents = {a1, a2}
  SameId = {}
  Probe = Probe
  Lookups = {"id", "agent", "both"}
  Torn = Torn
  None = None
  Lanes = {1, 2}
  KeepRows = 2
  ListRows = 2
  MaxIds = 3
  MaxOps = 5
  Sessions = {s1, s2}
  Forged = Forged
  AskedTtls = {1, 3}
  Caps = {1, 2}
  NoLimit = NoLimit
  DefaultTtl = 1
  MaxTtl = 2
  MaxNow = 3
  MaxUses = 3
  NotYet = NotYet
  Limiters = {"unpaid", "paid", "wallet"}
  LimitKeys = {ip, w, x}
  Limit <- RateLimits
  Window = 2
  MaxClock = 5
  MaxCount = 3
  NoBucket = NoBucket
  Incoming <- VisitRequests
  Visits = {v1, v2}
  Binders = {a}
  Costs = {1}
  BoundUrls = {plain}
  Examples <- GuardExample
  GuardUrls = {guard}
  Wallets = {w, x}
  Absent = Absent
  Ttl = 1
  a = a
  w = w
  x = x
  t = t
  ip = ip
  plain = plain
  guard = guard
SYMMETRY MCSymmetry
INVARIANTS TypeOK NeverOvercounted SerialByAgentIsExact SessionAccounts WindowsHold  BlockedStaysOut
CHECK_DEADLOCK FALSE
