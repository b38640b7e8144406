\* Every part of the counter contract, one at a time.
SPECIFICATION CoreSpec
CONSTANTS
    ann = ann
    ben = ben
    cyd = cyd
    punk = punk
    pot = pot
    guards <- GuardsValues
    splits <- SplitsValues
    bazaar <- BazaarValues
    lending <- LendingValues
    ballot <- BallotValues
    exchange <- ExchangeValues
    trading <- TradingValues
    farm <- FarmValues
    bonus <- BonusValues
    coffers <- CoffersValues
    emergency <- EmergencyValues
    path <- PathValues
    manager <- ManagerValues
    schedule <- ScheduleValues
    incentives <- IncentivesValues
    contest <- ContestValues
    desk <- DeskValues
    tariff <- TariffValues
    circle <- CircleValues
    vouchers <- VouchersValues
INVARIANTS
  
  BooksAgree
  PoolCoversLoans
  QuotesAndSeedsStay
  
  OrdersHold
  StakersAreCovered
  SpendingCapped
  LevelCovered
  LogTellsState
  
  HistoryChains
  
  BoardsRank
  RewardsAccounted
PROPERTIES
  OneDealPerMove
  
  
  
  UpgradesSettle
CHECK_DEADLOCK FALSE
