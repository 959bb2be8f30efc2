SPECIFICATION MCSpec
CONSTANTS
  Machines <- MCMachines
  Threads = {4, 5}
  Patterns <- MCPatterns
  MaxComm = 2
  UINT_RANGE = 3
INVARIANT TypeOK
INVARIANT GroupsPartition
INVARIANT LoadsBalanced
INVARIANT WeightsExact
INVARIANT PartnersTogether
INVARIANT NothingUnknownRead
