\* The proxy: upgrades by proposal and on schedule, and both pause switches.
SPECIFICATION Spec
CONSTANTS
  ann = ann
  ben = ben
  cyd = cyd
  v1 = v1
  v2 = v2
  None = None
  Addresses = {ann, ben}
  Implementations = {v1, v2}
  SignerLists <- Pair
  Actions <- ProxyActions
  Thresholds = {1}
  Delays = {0, 1}
  MaxU64 = 1
  MaxTime = 1
  MaxProposals = 2
INVARIANTS
  ScheduleIsNews
CHECK_DEADLOCK FALSE
