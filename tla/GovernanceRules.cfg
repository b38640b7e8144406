\* The signers change their own rules, by two proposals at a time; time and a keeper fair.
SPECIFICATION FairSpec
CONSTANTS
  ann = ann
  ben = ben
  cyd = cyd
  v1 = v1
  v2 = v2
  None = None
  Addresses = {ann, ben, cyd}
  Implementations = {v1}
  SignerLists <- Pair
  Actions <- RuleActions
  Thresholds = {0, 1, 2}
  Delays = {0, 1}
  MaxU64 = 1
  MaxTime = 1
  MaxProposals = 2
INVARIANTS
  ExecutedHasQuorum
PROPERTIES
  ImplementsDecisions
  ApprovedIsCarried
CHECK_DEADLOCK FALSE
