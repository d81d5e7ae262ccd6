SPECIFICATION Spec
CONSTANTS
  Files = {f1, f2, f3}
  ColumnNames = {c1, c2}
  Keywords = {k1, k2}
  Modes = {"kw", "ss", "colsim"}
  Routes = {"kw", "ss", "colsim"}
  numberItemsPerRow = 2
  MaxAnswer = 3
  MaxRequests = 3
  Null = Null
  f1 = f1
  f2 = f2
  f3 = f3
  c1 = c1
  c2 = c2
  k1 = k1
  k2 = k2
SYMMETRY Symmetric
INVARIANTS
  RowsOfLastAction
CHECK_DEADLOCK FALSE
