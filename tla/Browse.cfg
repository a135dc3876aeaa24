SPECIFICATION BrowseSpec
CONSTANTS
  Id <- MCId
  Size <- MCSize
  MaxSize = 11
  Header = 1
  PerSize = 0
  NoId = NoId
INVARIANTS PagesAdjoin
