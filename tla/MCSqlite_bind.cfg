SPECIFICATION SqliteSpec
CONSTANTS
  Own = {"a"}
  Borrowed = {"b"}
  Stmts = {"s"}
  Budgets = {0, 2}
  MaxTime = 3
  MaxSqlCalls = 4
INVARIANTS
  BindsChecked
CHECK_DEADLOCK FALSE
