\* Two escrows in one account, a sole arbiter, one trustline opening and closing; time and
\* a keeper fair.
SPECIFICATION FairSpec
CONSTANTS
  alice = alice
  bob = bob
  carol = carol
  dave = dave
  usd = usd
  Contract = Contract
  Parties = {alice, bob, carol}
  Assets = {usd}
  Amounts = {1, 2}
  Nonces = {1}
  Timelocks = {1}
  DefaultMinTimelock = 1
  Windows = {1}
  DefaultWindow = 1
  Committees <- SoleArbiter
  MaxU64 = 9
  MaxTime = 2
  MaxEscrows = 2
  MaxEvidence = 0
  InitBalance <- MCInitBalance
  InitTrust <- OwnedTrust
  MutableTrust <- AliceTrust
INVARIANTS
  Solvency
PROPERTIES
  ImplementsPayment
  DisputesClose
CHECK_DEADLOCK FALSE
