SPECIFICATION CseSpec
CONSTANTS
  A = A
  B = B
  a = a
  k = k
  Region = {A, B}
  Place = {a, k}
  Home <- MCHome
  LoadKind <- MCLoadKind
  ConstPlace = {k}
  CSE_ACC_CONST = const
  CSE_ACC_MULTIPLE = multiple
  Label = {l1}
  MaxIns = 4
  MaxSuspended = 1
  NULL = NULL
INVARIANTS TablesTrue ResultExact
