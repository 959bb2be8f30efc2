SPECIFICATION FairSpec
CONSTANTS
  VMAs = 2
  vm_start <- MCStart
  vm_end <- MCEnd
  Shared = {1}
  File = {0}
  Anonymous = {1}
  spcd_num_faults = 2
  Jumps = {1}
  UINT_RANGE = 4
INVARIANT TypeOK
INVARIANT CountsAgree
INVARIANT CursorEligible
PROPERTY WalkThorough
PROPERTY WalkEnds
