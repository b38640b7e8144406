\* One pair, two makers who are alike, a pool: orders, trades and cancellations in any
\* order.
SPECIFICATION Spec
CONSTANTS
  alice = alice
  bob = bob
  gold = gold
  usd = usd
  Contract = Contract
  Parties = {alice, bob}
  Assets = {gold, usd}
  Pairs <- GoldUsd
  Prices = {0, 3}
  Amounts = {2}
  Expiries = {0, 1}
  OrderTypes = {"Limit", "Market"}
  Trades <- GoldTrades
  PoolOffers <- GoldPools
  Precision = 2
  FeeUnit = 10000
  MaxU128 = 1000000
  MaxI128 = 2000000000
  InitBalance <- MCInitBalance
  Trust <- AllTrust
  MaxTime = 1
  MaxOrders = 2
  MaxPools = 1
SYMMETRY PartySymmetry
INVARIANTS
  Solvency
  NoStrandedBase
  LimitKept
PROPERTIES
  ImplementsPriceTime
CHECK_DEADLOCK FALSE
