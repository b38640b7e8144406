\* Two swaps in one account; trustlines of what a party may receive open and close;
\* time and creators fair.
SPECIFICATION FairSpec
CONSTANTS
  alice = alice
  bob = bob
  carol = carol
  gold = gold
  silver = silver
  Contract = Contract
  Parties = {alice, bob}
  Assets = {gold, silver}
  Amounts = {1, 2}
  Nonces = {1, 2}
  Expiries = {1}
  MinExpiries = {1}
  DefaultMinExpiry = 0
  MaxTime = 2
  MaxSwaps = 2
  InitBalance <- MCInitBalance
  InitTrust <- AllTrust
  MutableTrust <- ReceiverTrust
INVARIANTS
  Solvency
  ExactlyOneExit
PROPERTIES
  ImplementsExchange
  DepositsComeBack
CHECK_DEADLOCK FALSE
