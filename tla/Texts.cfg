SPECIFICATION TextsSpec
CONSTANTS
  Items <- MCItems
  Begin <- MCBegin
  MaxItems <- MCMaxItems
INVARIANTS AddressRead WordsKept QuotedDecoded Base64Decoded DotsKept SubjectFound TextStyled MarkupRead
CHECK_DEADLOCK FALSE
