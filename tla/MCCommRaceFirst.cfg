SPECIFICATION RaceSpec
CONSTANTS
  Tids = {0, 1, 2}
  Addresses = {2, 4, 6}
  Shifts = {1}
  Elements = {0, 1}
  hash_32 <- MCHash
  UINT_RANGE = 2
  ULONG_RANGE = 2
  CPUs = {c1, c2}
  max_threads = 3
  MaxFaults = 3
INVARIANT OneSharerFirst
CHECK_DEADLOCK FALSE
SYMMETRY MCSymmetry
