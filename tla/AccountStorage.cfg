CONSTANTS
  p1 = p1
  p2 = p2
  Person <- MCPerson
  uidOf <- MCuidOf
  Caller = {"api"}
  Wanted <- WithRest
  Backlog = 2
  MaxGivenUp = 1
  Unknown = Unknown
  None = None
SPECIFICATION FairSpec
INVARIANTS BoxIsOwners
PROPERTIES CallsReturn
