SPECIFICATION Spec
CONSTANTS
  Calls = {c1, c2}
  Ids = {s1}
  Budgets = {2}
  Amounts = {1, 2}
  Torn = Torn
  NoOp = NoOp
  Lanes = {2}
  MaxOps = 4
  MaxCrashes = 0
INVARIANT ChargesWithinBudget
CHECK_DEADLOCK FALSE
