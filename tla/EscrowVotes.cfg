\* One escrow, committees that replace each other, evidence.
SPECIFICATION Spec
CONSTANTS
  alice = alice
  bob = bob
  carol = carol
  dave = dave
  usd = usd
  Contract = Contract
  Parties = {alice, bob, carol, dave}
  Assets = {usd}
  Amounts = {1}
  Nonces = {1}
  Timelocks = {1}
  DefaultMinTimelock = 1
  Windows = {0, 1, 9}
  DefaultWindow = 1
  Committees <- ThreeCommittees
  MaxU64 = 4
  MaxTime = 2
  MaxEscrows = 1
  MaxEvidence = 2
  InitBalance <- MCInitBalance
  InitTrust <- AllTrust
  MutableTrust = {}
INVARIANTS
  NoSplitDecision
PROPERTIES
  FrozenUntilDecided
CHECK_DEADLOCK FALSE
