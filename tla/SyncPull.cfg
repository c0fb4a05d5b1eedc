\* Two writers, two tables, pages of two rows.
CONSTANTS
  proj = proj
  task1 = task1
  task2 = task2
  task3 = task3
  phone = phone
  None = None
  Rows = {proj, task1, task2, task3}
  NumTables = 2
  TableOf <- TwoTables
  Writers = {w1, w2}
  Devices = {phone}
  Visible <- Everything
  Limit = 2
  MaxVersion = 4
  MaxLost = 1

SPECIFICATION FairSpec
CHECK_DEADLOCK FALSE

INVARIANTS
  TypeOK
  LostOnlyWhenOvertaken
PROPERTIES
  PagesHaveNoHoles
  HasMoreIsRight
  CopiesAdvance
  Converges
