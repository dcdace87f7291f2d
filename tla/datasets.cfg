SPECIFICATION MCSpec
CONSTANTS
  Kinds = {"iterable", "map"}
  Datasets <- MCDatasets
  Keys = {1, 2, 3}
  PageSize = 2
  WorldSize = 2
  NumWorkers = 2
  MaxChanges = 1
  MaxRaised = 1
\* An epoch ends when every worker is done or has raised.
CHECK_DEADLOCK FALSE
INVARIANTS
  ShardsAreThePartition
  ListingIsInOrder
  EpochIsTheList
