\* Two writers, one table: versions become visible out of order.
CONSTANTS
  proj = proj
  task1 = task1
  task2 = task2
  task3 = task3
  phone = phone
  None = None
  Rows = {proj, task1, task2}
  NumTables = 1
  TableOf <- OneTable
  Writers = {w1, w2}
  Devices = {phone}
  Visible <- Everything
  Limit = 2
  MaxVersion = 4
  MaxLost = 0

SPECIFICATION Spec
CHECK_DEADLOCK FALSE

PROPERTY AdvancesPastCursors
