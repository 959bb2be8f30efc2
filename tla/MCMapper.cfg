SPECIFICATION FairMapperSpec
CONSTANTS
  Pids = {1, 2}
  max_threads = 3
  PUs = {0, 1}
  MinThreads = 2
INVARIANT TypeOK
INVARIANT ActiveAreLowTids
INVARIANT BoundInPeace
PROPERTY OnlyThreadsBound
PROPERTY EventuallyBound
