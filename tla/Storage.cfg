CONSTANTS
  ma = ma
  u1 = u1
  m1 = m1
  User <- MCUser
  Msg <- MCMsg
  Welcome = Welcome
  Emptied = Emptied
  Torn = Torn
  Mixed = Mixed
  MasterAdmin = ma
  IdCount = 4
  MaxCells = 3
SPECIFICATION Spec
INVARIANTS FileMatchesIndex
PROPERTIES ImplementsMailStore
