SPECIFICATION MCSpec
CONSTANTS
  Jobs = {"save"}
  r1 = r1
  r2 = r2
  Ranks <- MCRanks
  MaxSaves = 2
  MaxAttempts = 3
  Loads = {1, 2}
  Constructors = {1, 2}
  Uses <- MCUses
  Plans <- MCPlans
  Gap = 1
  MaxLoads = 2
  MaxFaults = 1
\* The last save or load of the bound ends.
CHECK_DEADLOCK FALSE
INVARIANTS
  SavedIsWhole
