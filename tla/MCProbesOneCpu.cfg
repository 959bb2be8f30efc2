SPECIFICATION MCFaultSpec
CONSTANTS
  Pids <- MCPids
  hash_32 <- MCHash
  SPCD_PID_HASH_SIZE = 4
  max_threads = 2
  CPUs = {c1}
INVARIANT TypeOK
INVARIANT NumBounded
INVARIANT TablesAgree
INVARIANT ActiveExact
INVARIANT OnlyLateForksLinger
INVARIANT Attributable
INVARIANT ForgottenBetweenApps
