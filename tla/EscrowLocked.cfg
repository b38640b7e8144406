\* NeverLocked, as the documentation states it.
SPECIFICATION FairSpec
CONSTANTS
  alice = alice
  bob = bob
  carol = carol
  dave = dave
  usd = usd
  Contract = Contract
  Parties = {alice, bob, carol, dave}
  Assets = {usd}
  Amounts = {1}
  Nonces = {1}
  Timelocks = {1}
  DefaultMinTimelock = 1
  Windows = {1}
  DefaultWindow = 1
  Committees <- ThreeCommittees
  MaxU64 = 4
  MaxTime = 2
  MaxEscrows = 1
  MaxEvidence = 0
  InitBalance <- MCInitBalance
  InitTrust <- AllTrust
  MutableTrust = {}
PROPERTIES
  NeverLocked
CHECK_DEADLOCK FALSE
