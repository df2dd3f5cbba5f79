CONSTANTS
  Rows = {o1, o2, o3, o4}
SPECIFICATION Spec
CHECK_DEADLOCK FALSE
INVARIANT RecordsAreRows
