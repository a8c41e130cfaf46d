SPECIFICATION LuaSpec
CONSTANTS
  i1 = i1
  i2 = i2
  i3 = i3
  Items <- ThreeItems
  MaxTime = 2
  NoItem = noitem
INVARIANTS
  ChecksWait
CHECK_DEADLOCK FALSE
