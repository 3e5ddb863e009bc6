CONSTANTS
  Keys <- MCKeys
  Values <- MCValues
  Merge <- MCMerge
  Setups <- MCClearedSetups
  HashBits = 4
  StartBuckets = 8
  MaxBuckets = 16
  Unlimited = 1000
  EntryWords = 5
SPECIFICATION Spec
INVARIANTS ClearEmpties
