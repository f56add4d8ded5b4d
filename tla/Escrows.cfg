SPECIFICATION MCSpec
CONSTANTS
  Calls = {c1, c2, c3}
  Ids = {e1, e2, e3}
  Torn = Torn
  NoId = NoId
  MaxFaults = 2
  Makers = {c1, c2}
  FsmIds = {p1, p2, old1}
  LegacyEscrows <- OldEscrows
  NoRow = NoRow
  NoFsmId = NoFsmId
  Looking = Looking
  MaxLost = 1
  MaxMoves = 6
  Tellers = {c1, c2}
  Hosts = {h1, h2}
  Badges = {b1, b2}
  Merchants <- GivenMerchants
  Bonds = {5}
  Slashes = {3}
  Buyers <- GivenBuyers
  MaxDate = 1
  TermOfBadge = 0
  Blank = Blank
  Responses <- GivenResponses
  Judgements = {0, 50, 100}
  Claims <- GivenClaims
  Signals <- GivenSignals
  Ledgers <- GivenLedgers
  Watches <- GivenWatches
  Untold = Untold
  Lines = {c1, c2}
  Asked <- GivenRequests
  Verified = {0, 100}
  LegacyStores <- EmptyRows
  NoStore = NoStore
  Dids = {d1, d2}
  KeepTrust = 2
  KeepCredit = 2
  Sybil = 1
  MaxServed = 2
  p1 = p1
  p2 = p2
  old1 = old1
  x1 = x1
  x2 = x2
  w1 = w1
SYMMETRY MCSymmetry
INVARIANTS TypeOK RecordsLead TablesAgree LogTellsHistory  RecourseSound TrustKept
PROPERTY KeepsPromise
CHECK_DEADLOCK FALSE
