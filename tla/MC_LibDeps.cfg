SPECIFICATION Spec
CONSTANTS
  f1 = f1
  f2 = f2
  f3 = f3
  File <- MCFile
  IncludeLists <- MCIncludeLists
  RootLists <- MCRootLists
INVARIANTS FindsReachable TrustedRestsOnTrusted RightOutcome
PROPERTIES Terminates
CHECK_DEADLOCK FALSE
