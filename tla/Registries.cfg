SPECIFICATION MCSpec
CONSTANTS
  Calls = {c1, c2}
  Ids = {e1, e2}
  Quotes <- PoolQuotes
  Torn = Torn
  NoId = NoId
  Lanes = {1, 2}
  MaxOps = 5
  MaxCrashes = 1
  Nonces = {n1}
  Sessions = {m1}
  EscrowKeys = {k1}
  NonceLife = 1
  MaxTime = 2
  MaxWrites = 3
  NoEntry = NoEntry
  Damaged = Damaged
  Scorings = {q1}
  Readings <- GivenReadings
  ScoreTtl = 2
  RpcTimeout = 1
  LongestTrip = 1
  LastTick = 5
  MaxShifts = 1
  NoReading = NoReading
  Clerks = {c1, c2}
  LegacyHooks <- GivenHooks
  HookIds = {w1, w2, w3}
  Urls = {u1}
  Jobs <- GivenJobs
  KeepRows = 2
  MaxJobs = 4
  HalfWritten = HalfWritten
  Nobody = Nobody
  w1 = w1
  w2 = w2
  w3 = w3
  p1 = p1
  s1 = s1
  x1 = x1
  x2 = x2
  x3 = x3
INVARIANTS TypeOK Solvent BooksBalance SerialPoolNeverOverpays  ScoresAreRecent 
CHECK_DEADLOCK FALSE
