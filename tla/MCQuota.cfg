SPECIFICATION QuotaSpec
CONSTANTS
  Sessions = {s1, s2, s3}
  QuotaMax = 4
  Amounts = {2}
  Limits = {3, 4}
  MaxOps = 2
CHECK_DEADLOCK FALSE
PROPERTIES
  ImplementsPool
  OperationsEnd
