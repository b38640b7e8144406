\* RewardCapKept, as rewards.rs states it.
SPECIFICATION RewardsSpec
CONSTANTS
    ann = ann
    ben = ben
    cyd = cyd
    punk = punk
    pot = pot
    guards <- GuardsValues
    splits <- SplitsValues
    bazaar <- BazaarValues
    lending <- LendingValues
    ballot <- BallotValues
    exchange <- ExchangeValues
    trading <- TradingValues
    farm <- FarmValues
    bonus <- BonusValues
    coffers <- CoffersValues
    emergency <- EmergencyValues
    path <- PathValues
    manager <- ManagerValues
    schedule <- ScheduleValues
    incentives <- IncentivesValues
    contest <- ContestValues
    desk <- DeskValues
    tariff <- TariffValues
    circle <- CircleValues
    vouchers <- VouchersValues
INVARIANTS
  RewardCapKept
CHECK_DEADLOCK FALSE
