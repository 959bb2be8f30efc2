SPECIFICATION FairSpec
CONSTANTS
  Pids <- MCTwoPids
  hash_32 <- MCTwoHash
  SPCD_PID_HASH_SIZE = 4
  max_threads = 2
  CPUs = {c1}
PROPERTY EventuallyTracked
PROPERTY ImplementsTable
PROPERTY RegistrationStable
