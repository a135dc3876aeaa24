CONSTANTS
  h1 = h1
  None = None
  Hash <- MCHash
  AdminHash <- MCHash
  LimitChoice <- MCLimitChoice
  UserCount = 3
  LevelMax = 1
  AddressesPerUser = 1
  MaxTs = 2
SPECIFICATION Spec
INVARIANTS TypeOK AddressesUnique MasterRemains SavedWhenIdle
PROPERTIES OnlyAdminsPromote OnlyOwnerOrAdminDeletes AddressesKept
