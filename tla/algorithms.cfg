SPECIFICATION Spec
CONSTANTS
  MaxOffset = 5
  MaxRanges = 4
  Gaps = {0, 1, 2}
  Bases = {0, 1, 2, 3, 16}
  Counts = {0, 1, 2, 3, 4, 5, 8, 9, 16, 17}
  UserLists <- MCUserLists
  MinLengths = {1, 2, 5}
  MaxRanks = 20
  MaxPickles = 2
  Texts <- MCTexts
  Files <- MCFiles
\* A list that is full or rejected grows no further; every rank is planned once.
CHECK_DEADLOCK FALSE
INVARIANTS
  GroupsAreTheFetches
  PrefixesSpread
  ClientIsAsAsked
  LateFailuresAreUnchecked
  SavedIsFound
