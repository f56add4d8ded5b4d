SPECIFICATION MCSpec
CONSTANTS
  Calls = {c1, c2}
  Ids = {s1, s2}
  Budgets = {2}
  Amounts = {1, 2}
  Torn = Torn
  NoOp = NoOp
  Lanes = {1, 2}
  MaxOps = 5
  MaxCrashes = 1
  Asks <- GuardAsks
  Checks = {k1, k2}
  Probes <- ProbeAnswers
  Trusts <- TrustAnswers
  Buyers = {b}
  Days = {0, 1}
  NoPrice = NoPrice
  Shields = {h1}
  Transactions <- GivenTransactions
  Operations <- GivenOperations
  Notices <- GivenNotices
  Deliveries = {d1, d2, d3}
  MaxRetries = 1
  Mandate = {m1}
  ProbeMandate = ProbeMandate
  LegacyRows <- OldRows
  Scopes <- GivenScopes
  Terms = {2, 3}
  LongestTerm = 2
  ProbeTerm = 2
  Proposals <- GivenProposals
  Traces <- GivenTraces
  MaxDay = 3
  Unset = Unset
  Refreshes = {r1, r2}
  MaxVersion = 2
  MaxMoment = 2
  CacheTtl = 1
  RailAsks <- GivenRailAsks
  FleetAsks <- GivenFleetAsks
  PlanAsks <- GivenPlanAsks
  RouteAsks <- GivenRouteAsks
  BuyAsks <- GivenBuyAsks
  Nothing = Nothing
  b = b
  m1 = m1
  old = old
  e1 = e1
  e2 = e2
SYMMETRY MCSymmetry
INVARIANTS RowsWithinBudget NeverOverbilled SerialFileIsExact SpendWithinCaps    AllowedWithinMandate ExtrasNeverGoBack AdviceSound
PROPERTY SerialCallsKeepPromise
CHECK_DEADLOCK FALSE
