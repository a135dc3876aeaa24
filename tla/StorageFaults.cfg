CONSTANTS
  ma = ma
  u1 = u1
  m1 = m1
  User <- MCUser
  Msg <- MCMsg
  Welcome = Welcome
  Emptied = Emptied
  Torn = Torn
  Mixed = Mixed
  MasterAdmin = ma
  IdCount = 3
  MaxCells = 2
SPECIFICATION FaultSpec
INVARIANTS DiskCurrent IdsUnique
PROPERTIES LostOnlyOnRequest DeleteLosesOne
CONSTANTS MaxFailures = 1
VIEW ButAnswer
