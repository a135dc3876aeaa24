SPECIFICATION TextsSpec
CONSTANTS
  Items <- MCItems
  Begin <- MCBegin
  MaxItems <- MCMaxItems
INVARIANT OnlySpacesReplaced
CHECK_DEADLOCK FALSE
