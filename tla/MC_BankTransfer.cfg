SPECIFICATION Spec
CONSTANTS
  NumThreads = 2
  NumberOfAccounts = 4
  InitBalance = 1
  Amount = 1
  ChecksFunds = TRUE
  Audits = TRUE
  MaxCalls = 2
INVARIANTS HandlesUnique MoneyExact
PROPERTIES RefinesBank Termination
CHECK_DEADLOCK FALSE
