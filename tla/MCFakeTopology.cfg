SPECIFICATION Spec
CONSTANTS
  Machines <- MCMachines
  Built <- MCBuilt
  USHRT_MAX = 65535
INVARIANT EachPuOnce
INVARIANT EnoughPus
INVARIANT GraphExactlyUsed
INVARIANT ChildrenFirst
INVARIANT AttributesOfTree
INVARIANT DistancesReal
