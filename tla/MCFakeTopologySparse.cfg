SPECIFICATION Spec
CONSTANTS
  Machines <- MCSparse
  Built <- MCSparse
  USHRT_MAX = 65535
INVARIANT NumaNodeKnown
