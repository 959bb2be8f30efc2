SPECIFICATION Spec
CONSTANTS
  Tids = {0, 1, 2}
  Addresses = {2, 4}
  Shifts = {0, 1}
  Elements = {0, 1}
  hash_32 <- MCHash
  UINT_RANGE = 3
  ULONG_RANGE = 2
INVARIANT TypeOK
INVARIANT SharersWellFormed
INVARIANT NoSelfCommunication
PROPERTY ImplementsAbstract
