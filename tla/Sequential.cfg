SPECIFICATION PartsSpec
CONSTANTS
  Lists <- MCLists
  NameLen <- MCNameLen
  MaxName = 40
  MaxBatch = 2
  MaxBody = 120
  ItemLens = {0, 34}
  Slack <- MCSlack
  MaxNoMem = 1
  MaxEdits = 1
  Names = {n1, n2, n3, n4}
  Filters = {f1, f2, f3}
  NoFilter = NoFilter
  InitCap = 2
  MaxFilters = 4
INVARIANTS WholeAnswers RejectedUntouched BatchInBounds Understood FlagsKept NotFlattered TypeOK NamesUnique
PROPERTIES ImplementsTable CacheFollows
