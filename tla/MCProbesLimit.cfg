SPECIFICATION MCRaceSpec
CONSTANTS
  Pids <- MCTwoPids
  hash_32 <- MCTwoHash
  SPCD_PID_HASH_SIZE = 4
  max_threads = 1
  CPUs = {c1, c2}
SYMMETRY MCSymmetry
INVARIANT NumWithinMax
