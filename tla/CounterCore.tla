----------------------------- MODULE CounterCore ------------------------------
(***************************************************************************)
(* The parts of the counter contract, side by side.                        *)
(* They share no state with each other (each keeps its own storage keys),  *)
(* so a behaviour picks one part at the start and stays in it.  The        *)
(* variables of the part that runs are the first of s1, .., s17; the rest  *)
(* stay empty.                                                             *)
(***************************************************************************)
EXTENDS Integers, Sequences

CONSTANTS
    guards, lending, exchange,          \* the constants of the parts, as records
    bazaar, splits, trading, farm, bonus, coffers, ballot, emergency, path, manager,
    schedule, incentives, contest, desk, tariff, circle, vouchers

VARIABLES
    part,
    s1, s2, s3, s4, s5, s6, s7, s8, s9, s10, s11, s12, s13, s14, s15, s16, s17

(* The variables from the i-th on, and that they are not used.            *)
from17 == <<s17>>
Empty17 == s17 = <<>>
from16 == <<s16, from17>>
Empty16 == s16 = <<>> /\ Empty17
from15 == <<s15, from16>>
Empty15 == s15 = <<>> /\ Empty16
from14 == <<s14, from15>>
Empty14 == s14 = <<>> /\ Empty15
from13 == <<s13, from14>>
Empty13 == s13 = <<>> /\ Empty14
from12 == <<s12, from13>>
Empty12 == s12 = <<>> /\ Empty13
from11 == <<s11, from12>>
Empty11 == s11 = <<>> /\ Empty12
from10 == <<s10, from11>>
Empty10 == s10 = <<>> /\ Empty11
from9 == <<s9, from10>>
Empty9 == s9 = <<>> /\ Empty10
from8 == <<s8, from9>>
Empty8 == s8 = <<>> /\ Empty9
from7 == <<s7, from8>>
Empty7 == s7 = <<>> /\ Empty8
from6 == <<s6, from7>>
Empty6 == s6 = <<>> /\ Empty7
from5 == <<s5, from6>>
from4 == <<s4, from5>>
from3 == <<s3, from4>>
from2 == <<s2, from3>>
from1 == <<s1, from2>>

vars == <<part, from1>>

-----------------------------------------------------------------------------
\* The loans, on the terms c
Lending(c) == INSTANCE NftLending WITH
    Users <- c.Users, Nfts <- c.Nfts, Pools <- c.Pools,
    Frozen <- c.Frozen, Split <- c.Split, MaxRate <- c.MaxRate,
    RateUnit <- c.RateUnit, Precision <- c.Precision,
    Optimal <- c.Optimal, Slope1 <- c.Slope1, Slope2 <- c.Slope2,
    BaseRate <- c.BaseRate, MaxLtv <- c.MaxLtv,
    TriggerLtv <- c.TriggerLtv, PartialLtv <- c.PartialLtv,
    LtvUnit <- c.LtvUnit, MinCover <- c.MinCover, Grace <- c.Grace,
    QueueSize <- c.QueueSize, Amounts <- c.Amounts, Rates <- c.Rates,
    Days <- c.Days, Values <- c.Values, Bids <- c.Bids,
    MaxLoans <- c.MaxLoans, MaxDeposit <- c.MaxDeposit,
    MaxTime <- c.MaxTime,
    listed <- {}, owner <- s1, loans <- s2, collateral <- s3, activeCount <- s4,
    taken <- s5, given <- s6, pools <- s7, deposits <- s8, value <- s9, queue <- s10,
    bids <- s11, paused <- s12, now <- s13

InLending == part = "lending" /\ Lending(lending)!Init /\ Empty14
LendingStep == part = "lending" /\ Lending(lending)!Next /\ UNCHANGED <<part, from14>>

-----------------------------------------------------------------------------
\* The marketplace with the loans on its NFTs
Market == INSTANCE NftMarket WITH
    Users <- bazaar.Users, Nfts <- bazaar.Nfts, Pools <- bazaar.Pools,
    Frozen <- bazaar.Frozen, Split <- bazaar.Split, MaxRate <- bazaar.MaxRate,
    RateUnit <- bazaar.RateUnit, Precision <- bazaar.Precision,
    Optimal <- bazaar.Optimal, Slope1 <- bazaar.Slope1, Slope2 <- bazaar.Slope2,
    BaseRate <- bazaar.BaseRate, MaxLtv <- bazaar.MaxLtv,
    TriggerLtv <- bazaar.TriggerLtv, PartialLtv <- bazaar.PartialLtv,
    LtvUnit <- bazaar.LtvUnit, MinCover <- bazaar.MinCover, Grace <- bazaar.Grace,
    QueueSize <- bazaar.QueueSize, Amounts <- bazaar.Amounts, Rates <- bazaar.Rates,
    Days <- bazaar.Days, Values <- bazaar.Values, Bids <- bazaar.Bids,
    MaxLoans <- bazaar.MaxLoans, MaxDeposit <- bazaar.MaxDeposit,
    MaxTime <- bazaar.MaxTime, Prices <- bazaar.Prices,
    Durations <- bazaar.Durations, MaxListings <- bazaar.MaxListings,
    MaxOffers <- bazaar.MaxOffers,
    owner <- s1, loans <- s2, collateral <- s3, activeCount <- s4, taken <- s5,
    given <- s6, pools <- s7, deposits <- s8, value <- s9, queue <- s10, bids <- s11,
    paused <- s12, now <- s13, listings <- s14, offers <- s15, activeListings <- s16,
    activeOffers <- s17

InMarket == part = "market" /\ Market!Init
MarketStep == part = "market" /\ Market!Next /\ UNCHANGED part

-----------------------------------------------------------------------------
Fractions == INSTANCE NftFractions WITH
    Users <- splits.Users, Nfts <- splits.Nfts, Frozen <- splits.Frozen,
    Collateral <- splits.Collateral, MinShares <- splits.MinShares,
    MaxShares <- splits.MaxShares, MinVaultMint <- splits.MinVaultMint,
    Delay <- splits.Delay, FeeParts <- splits.FeeParts, FeeUnit <- splits.FeeUnit,
    Amounts <- splits.Amounts, MaxVaults <- splits.MaxVaults,
    MaxTime <- splits.MaxTime, MaxHeld <- splits.MaxHeld,
    nfts <- s1, shares <- s2, holders <- s3, vaults <- s4, vaultShares <- s5,
    paused <- s6, now <- s7

InFractions == part = "fractions" /\ Fractions!Init /\ Empty8
FractionsStep == part = "fractions" /\ Fractions!Next /\ UNCHANGED <<part, from8>>

-----------------------------------------------------------------------------
Registry == INSTANCE PoolRegistry WITH
    Users <- exchange.Users, Tokens <- exchange.Tokens, Verified <- exchange.Verified,
    Admin <- exchange.Admin, FeeTiers <- exchange.FeeTiers, FeeUnit <- exchange.FeeUnit,
    MinLpTokens <- exchange.MinLpTokens, Amounts <- exchange.Amounts,
    HopLimits <- exchange.HopLimits, MaxPools <- exchange.MaxPools,
    MaxReserve <- exchange.MaxReserve, MaxFees <- exchange.MaxFees,
    Seeds <- exchange.Seeds,
    pools <- s1, lpBalances <- s2, maxHops <- s3, treasury <- s4, paused <- s5

InPools == part = "pools" /\ Registry!Init /\ Empty6
PoolsStep == part = "pools" /\ Registry!Next /\ UNCHANGED <<part, from6>>

-----------------------------------------------------------------------------
Trading == INSTANCE CounterTrading WITH
    Users <- trading.Users, Verified <- trading.Verified, Price <- trading.Price,
    Precision <- trading.Precision, PoolFee <- trading.PoolFee,
    FeeUnit <- trading.FeeUnit, TierFee <- trading.TierFee,
    TierTrades <- trading.TierTrades, TierVolume <- trading.TierVolume,
    Tolerance <- trading.Tolerance, MaxSlip <- trading.MaxSlip, Drip <- trading.Drip,
    Cooldown <- trading.Cooldown, Ttl <- trading.Ttl, Tops <- trading.Tops,
    Amounts <- trading.Amounts, MaxBalance <- trading.MaxBalance,
    MaxReserve <- trading.MaxReserve, MaxTrades <- trading.MaxTrades,
    MaxPnl <- trading.MaxPnl, MaxBatch <- trading.MaxBatch, MaxTime <- trading.MaxTime,
    book <- s1, cache <- s2, dripped <- s3, claimed <- s4, paused <- s5, now <- s6

InTrading == part = "trading" /\ Trading!Init /\ Empty7
TradingStep == part = "trading" /\ Trading!Next /\ UNCHANGED <<part, from7>>

-----------------------------------------------------------------------------
Farms == INSTANCE Farming WITH
    Users <- farm.Users, ScaleFactor <- farm.ScaleFactor, MinStake <- farm.MinStake,
    Amounts <- farm.Amounts, Rates <- farm.Rates, MaxStaked <- farm.MaxStaked,
    MaxTime <- farm.MaxTime,
    pool <- s1, positions <- s2, globalTotal <- s3, claimed <- s4, now <- s5

InFarming == part = "farming" /\ Farms!Init /\ Empty6
FarmingStep == part = "farming" /\ Farms!Next /\ UNCHANGED <<part, from6>>

-----------------------------------------------------------------------------
Bonuses == INSTANCE StakingBonus WITH
    Users <- bonus.Users, Tiers <- bonus.Tiers, BonusParts <- bonus.BonusParts,
    BonusUnit <- bonus.BonusUnit, HoldingPeriod <- bonus.HoldingPeriod,
    DistributionPeriod <- bonus.DistributionPeriod, Penalty <- bonus.Penalty,
    Amounts <- bonus.Amounts, MaxStakes <- bonus.MaxStakes,
    MaxDistributions <- bonus.MaxDistributions, MaxTime <- bonus.MaxTime,
    stakes <- s1, userTotal <- s2, total <- s3, earned <- s4, taken <- s5,
    distributed <- s6, registry <- s7, records <- s8, returned <- s9, now <- s10

InBonuses == part = "bonuses" /\ Bonuses!Init /\ Empty11
BonusesStep == part = "bonuses" /\ Bonuses!Next /\ UNCHANGED <<part, from11>>

-----------------------------------------------------------------------------
Guards == INSTANCE SwapGuards WITH
    Users <- guards.Users, SwapsPerHour <- guards.SwapsPerHour, Hour <- guards.Hour,
    Prices <- guards.Prices, DeviationUnit <- guards.DeviationUnit,
    Thresholds <- guards.Thresholds, TwapWindows <- guards.TwapWindows,
    Staleness <- guards.Staleness, Volumes <- guards.Volumes,
    VolumeWindow <- guards.VolumeWindow, Ceilings <- guards.Ceilings,
    MaxEntries <- guards.MaxEntries, MaxTime <- guards.MaxTime,
    config <- s1, oracle <- s2, ceiling <- s3, volume <- s4, tripped <- s5,
    pausedFlag <- s6, paused <- s7, swapsIn <- s8, hourly <- s9, now <- s10

\* Neither the volumes nor the rates depend on the oracle, nor it on their ceiling.
OneOracle ==
    /\ s1.window = (CHOOSE w \in guards.TwapWindows : TRUE)
    /\ s2.current = (CHOOSE p \in guards.Prices : TRUE)
OneCeiling == s3 = (CHOOSE c \in guards.Ceilings : TRUE)

InOracle == part = "oracle" /\ Guards!Init /\ OneCeiling /\ Empty11
OracleStep == part = "oracle" /\ (Guards!OracleNext \/ Guards!Tick) /\ UNCHANGED <<part, from11>>
InVolume == part = "volume" /\ Guards!Init /\ OneOracle /\ Empty11
VolumeStep == part = "volume" /\ (Guards!VolumeNext \/ Guards!Tick) /\ UNCHANGED <<part, from11>>
InRates == part = "rates" /\ Guards!Init /\ OneOracle /\ OneCeiling /\ Empty11
RatesStep == part = "rates" /\ (Guards!RateNext \/ Guards!Tick) /\ UNCHANGED <<part, from11>>

-----------------------------------------------------------------------------
Coffers == INSTANCE Treasury WITH
    People <- coffers.People, Signers <- coffers.Signers, Threshold <- coffers.Threshold,
    EmergencyThreshold <- coffers.EmergencyThreshold, ProposalIds <- coffers.ProposalIds,
    Amounts <- coffers.Amounts, Limits <- coffers.Limits, Thresholds <- coffers.Thresholds,
    Lives <- coffers.Lives, Period <- coffers.Period, MaxDeposited <- coffers.MaxDeposited,
    MaxTime <- coffers.MaxTime,
    balance <- s1, deposited <- s2, withdrawn <- s3, signers <- s4, threshold <- s5,
    limit <- s6, proposals <- s7, payments <- s8, now <- s9

InTreasury == part = "treasury" /\ Coffers!Init /\ Empty10
TreasuryStep == part = "treasury" /\ Coffers!Next /\ UNCHANGED <<part, from10>>

-----------------------------------------------------------------------------
Emergency == INSTANCE EmergencyControls WITH
    Signers <- emergency.Signers, Addresses <- emergency.Addresses,
    StandardThreshold <- emergency.StandardThreshold,
    CriticalThreshold <- emergency.CriticalThreshold, MaxExpiry <- emergency.MaxExpiry,
    Cooldown <- emergency.Cooldown, Levels <- emergency.Levels,
    Expiries <- emergency.Expiries, MaxActions <- emergency.MaxActions,
    MaxTime <- emergency.MaxTime,
    level <- s1, actions <- s2, escalated <- s3, whitelist <- s4, now <- s5

InEmergency == part = "emergency" /\ Emergency!Init /\ Empty6
EmergencyStep == part = "emergency" /\ Emergency!Next /\ UNCHANGED <<part, from6>>

-----------------------------------------------------------------------------
Path == INSTANCE UpgradePath WITH
    Signers <- path.Signers, Versions <- path.Versions,
    FirstVersion <- path.FirstVersion, MajorApprovals <- path.MajorApprovals,
    MinorApprovals <- path.MinorApprovals, PatchApprovals <- path.PatchApprovals,
    DefaultTimelock <- path.DefaultTimelock, HotfixTimelock <- path.HotfixTimelock,
    Lifetime <- path.Lifetime, RollbackEnabled <- path.RollbackEnabled,
    MaxProposals <- path.MaxProposals, MaxTime <- path.MaxTime,
    current <- s1, rollbackTo <- s2, proposals <- s3, history <- s4, now <- s5

InPath == part = "path" /\ Path!Init /\ Empty6
PathStep == part = "path" /\ Path!Next /\ UNCHANGED <<part, from6>>

-----------------------------------------------------------------------------
Manager == INSTANCE UpgradeManager WITH
    Signers <- manager.Signers, Admin <- manager.Admin,
    SignerSets <- manager.SignerSets, Delays <- manager.Delays,
    Versions <- manager.Versions, MaxUpgrades <- manager.MaxUpgrades,
    MaxTime <- manager.MaxTime,
    config <- s1, pending <- s2, version <- s3, history <- s4, migrated <- s5, now <- s6

InManager == part = "manager" /\ Manager!Init /\ Empty7
ManagerStep == part = "manager" /\ Manager!Next /\ UNCHANGED <<part, from7>>

-----------------------------------------------------------------------------
Votes == INSTANCE CounterGovernance WITH
    Users <- ballot.Users, Balances <- ballot.Balances, Supply <- ballot.Supply,
    Admin <- ballot.Admin, NewAdmins <- ballot.NewAdmins, Delegates <- ballot.Delegates,
    Council <- ballot.Council, MultisigSigners <- ballot.MultisigSigners,
    SignThreshold <- ballot.SignThreshold, VoteTimelock <- ballot.VoteTimelock,
    MinDelay <- ballot.MinDelay, DefaultDelay <- ballot.DefaultDelay,
    ValidValues <- ballot.ValidValues, Values <- ballot.Values, Delays <- ballot.Delays,
    MaxProposals <- ballot.MaxProposals, MaxUpdates <- ballot.MaxUpdates,
    MaxSignatures <- ballot.MaxSignatures, MaxTime <- ballot.MaxTime,
    proposals <- s1, updates <- s2, delegates <- s3, settings <- s4, delay <- s5,
    now <- s6

InVotes == part = "votes" /\ Votes!Init /\ Empty7
VotesStep == part = "votes" /\ Votes!Next /\ UNCHANGED <<part, from7>>

-----------------------------------------------------------------------------
Phases == INSTANCE Decentralization WITH
    Guardians <- schedule.Guardians, Threshold <- schedule.Threshold,
    Delay <- schedule.Delay, Month <- schedule.Month, Values <- schedule.Values,
    Moments <- schedule.Moments, MaxLog <- schedule.MaxLog,
    timelock <- s1, multisig <- s2, log <- s3, reported <- s4, state <- s5, now <- s6

InPhases == part = "phases" /\ Phases!Init /\ Empty7
PhasesStep == part = "phases" /\ Phases!Next /\ UNCHANGED <<part, from7>>

-----------------------------------------------------------------------------
Rewards == INSTANCE ParticipationRewards WITH
    Participants <- incentives.Participants, Pool <- incentives.Pool,
    EpochLength <- incentives.EpochLength, Cooldown <- incentives.Cooldown,
    MaxReward <- incentives.MaxReward, ProposalBonus <- incentives.ProposalBonus,
    VoteReward <- incentives.VoteReward, PowerMultiplier <- incentives.PowerMultiplier,
    MinScore <- incentives.MinScore, Efficiency <- incentives.Efficiency,
    Powers <- incentives.Powers, MaxRecords <- incentives.MaxRecords,
    MaxEpochs <- incentives.MaxEpochs, MaxTime <- incentives.MaxTime,
    epochs <- s1, lastClaim <- s2, distributed <- s3, stats <- s4, now <- s5

InRewards == part = "rewards" /\ Rewards!Init /\ Empty6
RewardsStep == part = "rewards" /\ Rewards!Next /\ UNCHANGED <<part, from6>>

-----------------------------------------------------------------------------
Games == INSTANCE Gamification WITH
    Users <- contest.Users, BoardSize <- contest.BoardSize,
    TradingBadges <- contest.TradingBadges, OtherBadges <- contest.OtherBadges,
    Points <- contest.Points, Master <- contest.Master, Champion <- contest.Champion,
    ChampionWins <- contest.ChampionWins, StreakBonuses <- contest.StreakBonuses,
    TierScores <- contest.TierScores, TierParts <- contest.TierParts,
    StreakStep <- contest.StreakStep, Day <- contest.Day, Target <- contest.Target,
    Completion <- contest.Completion, Pools <- contest.Pools, Places <- contest.Places,
    Durations <- contest.Durations, MaxChallenges <- contest.MaxChallenges,
    MaxScore <- contest.MaxScore, MaxStreak <- contest.MaxStreak,
    MaxTime <- contest.MaxTime, Traders <- contest.Traders,
    SeasonPlaces <- contest.SeasonPlaces, Podium <- contest.Podium,
    Volumes <- contest.Volumes, MaxVolume <- contest.MaxVolume,
    MaxSeasons <- contest.MaxSeasons,
    profiles <- s1, badges <- s2, board <- s3, challenges <- s4, progress <- s5,
    history <- s6, now <- s7, ended <- s8, scores <- s9, boards <- s10,
    topTraders <- s11, podiums <- s12

\* The challenges and the seasons depend on nothing of each other.
InGames == part = "games" /\ Games!Init /\ Empty13
GamesStep == part = "games" /\ Games!GamesNext /\ UNCHANGED <<part, from8>>
InSeasons == part = "seasons" /\ Games!Init /\ Empty13
SeasonsStep == part = "seasons" /\ Games!SeasonsNext
               /\ UNCHANGED <<part, s1, s2, s3, s4, s5, s6, s7, from13>>

-----------------------------------------------------------------------------
Trades == INSTANCE LimitOrders WITH
    Traders <- desk.Traders, Precision <- desk.Precision, Funds <- desk.Funds,
    Amounts <- desk.Amounts, Takes <- desk.Takes, Prices <- desk.Prices,
    Deadlines <- desk.Deadlines, Intervals <- desk.Intervals,
    Occurrences <- desk.Occurrences, MaxOrders <- desk.MaxOrders, MaxTime <- desk.MaxTime,
    orders <- s1, books <- s2, recurring <- s3, balances <- s4, budget <- s5,
    used <- s6, now <- s7

InOrders == part = "orders" /\ Trades!Init /\ Empty8
OrdersStep == part = "orders" /\ Trades!Next /\ UNCHANGED <<part, from8>>

-----------------------------------------------------------------------------
Tariff == INSTANCE DynamicFees WITH
    Admins <- tariff.Admins, Configs <- tariff.Configs, FirstConfig <- tariff.FirstConfig,
    Metrics <- tariff.Metrics, Fees <- tariff.Fees, Caps <- tariff.Caps,
    Retentions <- tariff.Retentions, Recovery <- tariff.Recovery,
    MaxHistory <- tariff.MaxHistory, PageSize <- tariff.PageSize,
    MaxTime <- tariff.MaxTime,
    config <- s1, fee <- s2, previousFee <- s3, metrics <- s4, lastMetrics <- s5,
    lastUpdate <- s6, override <- s7, admins <- s8, history <- s9, now <- s10

InFees == part = "fees" /\ Tariff!Init /\ Empty11
FeesStep == part = "fees" /\ Tariff!Next /\ UNCHANGED <<part, from11>>

-----------------------------------------------------------------------------
Refers == INSTANCE Referrals WITH
    Users <- circle.Users, Tiers <- circle.Tiers, Unit <- circle.Unit,
    Fees <- circle.Fees, MaxVolume <- circle.MaxVolume,
    referrer <- s1, stats <- s2, volume <- s3, balance <- s4, withdrawn <- s5

InReferrals == part = "referrals" /\ Refers!Init /\ Empty6
ReferralsStep == part = "referrals" /\ Refers!Next /\ UNCHANGED <<part, from6>>

-----------------------------------------------------------------------------
Codes == INSTANCE ReferralCodes WITH
    Users <- vouchers.Users, Rates <- vouchers.Rates, RateUnit <- vouchers.RateUnit,
    Hold <- vouchers.Hold, ClaimPause <- vouchers.ClaimPause,
    Milestones <- vouchers.Milestones, Fees <- vouchers.Fees,
    MaxPending <- vouchers.MaxPending, MaxTime <- vouchers.MaxTime,
    info <- s1, pending <- s2, lastClaim <- s3, nextToken <- s4, totals <- s5,
    accrued <- s6, now <- s7

InCodes == part = "codes" /\ Codes!Init /\ Empty8
CodesStep == part = "codes" /\ Codes!Next /\ UNCHANGED <<part, from8>>

-----------------------------------------------------------------------------
CoreInit ==
    \/ InLending \/ InMarket \/ InFractions \/ InPools \/ InTrading
    \/ InOracle \/ InVolume \/ InRates \/ InFarming \/ InBonuses
    \/ InTreasury \/ InEmergency \/ InPath \/ InManager \/ InVotes \/ InPhases
    \/ InRewards \/ InGames \/ InSeasons
    \/ InOrders \/ InFees \/ InReferrals \/ InCodes

CoreNext ==
    \/ LendingStep \/ MarketStep \/ FractionsStep \/ PoolsStep \/ TradingStep
    \/ OracleStep \/ VolumeStep \/ RatesStep \/ FarmingStep \/ BonusesStep
    \/ TreasuryStep \/ EmergencyStep \/ PathStep \/ ManagerStep \/ VotesStep
    \/ PhasesStep \/ RewardsStep \/ GamesStep \/ SeasonsStep
    \/ OrdersStep \/ FeesStep \/ ReferralsStep \/ CodesStep

CoreSpec == CoreInit /\ [][CoreNext]_vars

ASSUME CoreAssumption ==
    /\ Lending(lending)!LendingAssumption
    /\ Market!MarketAssumption
    /\ Fractions!FractionsAssumption
    /\ Registry!PoolAssumption
    /\ Trading!TradingAssumption
    /\ Guards!GuardsAssumption
    /\ Farms!FarmingAssumption
    /\ Bonuses!BonusAssumption
    /\ Coffers!TreasuryAssumption
    /\ Emergency!EmergencyAssumption
    /\ Path!UpgradeAssumption
    /\ Manager!ManagerAssumption
    /\ Votes!CounterGovernanceAssumption
    /\ Phases!DecentralizationAssumption
    /\ Rewards!RewardsAssumption
    /\ Games!GamificationAssumption
    /\ Trades!OrdersAssumption
    /\ Tariff!DynamicFeesAssumption
    /\ Refers!ReferralsAssumption
    /\ Codes!CodesAssumption

-----------------------------------------------------------------------------
(* The properties of the parts, each about the part that runs.            *)

\* The type invariants of the parts: in particular no balance, reserve, deposit or
\* counter of them is ever negative.
TypeOK ==
    /\ part = "fractions" => Fractions!TypeOK
    /\ part = "lending" => Lending(lending)!TypeOK
    /\ part = "market" => Market!TypeOK
    /\ part = "pools" => Registry!TypeOK
    /\ part = "trading" => Trading!TypeOK
    /\ part = "orders" => Trades!TypeOK
    /\ part = "farming" => Farms!TypeOK
    /\ part = "bonuses" => Bonuses!TypeOK
    /\ part = "treasury" => Coffers!TypeOK
    /\ part = "emergency" => Emergency!TypeOK
    /\ part = "path" => Path!TypeOK
    /\ part = "manager" => Manager!TypeOK
    /\ part = "rewards" => Rewards!TypeOK
    /\ part = "phases" => Phases!TypeOK
    /\ part = "votes" => Votes!TypeOK
    /\ part = "fees" => Tariff!TypeOK
    /\ part = "referrals" => Refers!TypeOK
    /\ part = "codes" => Codes!TypeOK
    /\ part \in {"games", "seasons"} => Games!TypeOK
    /\ part \in {"oracle", "volume", "rates"} => Guards!TypeOK

\* A lending pool keeps what it has lent out, whichever of deposit, loan, repayment,
\* withdrawal and liquidation comes next (nft_lending.rs).
PoolCoversLoans == part = "lending" => Lending(lending)!PoolCoversLoans

\* The lists and counters beside the records agree with them: the holders of an NFT's
\* shares (nft_storage.rs set_shares), the shares of a vault, and the open listings and
\* offers a portfolio counts (nft_marketplace.rs), whatever is split, sold and joined.
BooksAgree ==
    /\ part = "fractions" => Fractions!HoldersListed /\ Fractions!VaultSharesBacked
    /\ part = "market" => Market!PortfoliosCountBooks

\* An NFT moves by one open deal, which the move closes: a cancelled listing, a used
\* offer or a repaid loan never moves it again (nft_marketplace.rs, nft_lending.rs).
OneDealPerMove == [][part = "market" => Market!OneDealPerMove]_vars

\* A route pays what it was quoted, and no burn can take the seed of a pool
\* (liquidity_pool.rs find_best_route, remove_liquidity).
QuotesAndSeedsStay == part = "pools" => Registry!QuoteKept /\ Registry!SeedStays

\* The reserves behind one share never shrink, in the registered pools
\* (liquidity_pool.rs) and in the pool of the portfolio (lib.rs, trading.rs): every
\* division is rounded against the caller.
SharesKeepTheirWorth ==
    [][/\ part = "pools" => Registry!SharesKeepTheirWorth
       /\ part = "trading" => Trading!LpWorthNeverFalls]_vars

\* A cached answer is today's unless a faucet paid since it was stored
\* (lib.rs invalidate_query_cache, faucet.rs).
StaleOnlyByFaucet == part = "trading" => Trading!StaleOnlyByFaucet

\* A tripped price breaker freezes the price it serves, and the volume breaker trips
\* with the trade that goes above the ceiling (oracle_adapter.rs,
\* volume_circuit_breaker.rs).
BreakersHold ==
    [][/\ part = "oracle" => Guards!FrozenWhileTripped
       /\ part = "volume" => Guards!VolumeTripsInTime]_vars

\* Nobody's hourly count falls within the hour, by the cache or the clean-up
\* (rate_limit.rs).
HourCountKept == [][part = "rates" => Guards!HourCountKept]_vars

\* What stakers are owed and paid is covered: rewards by what the farm has emitted
\* (farming.rs), principal and bonuses by the stakes that ended (staking_bonus.rs).
StakersAreCovered ==
    /\ part = "farming" => Farms!RewardsCovered
    /\ part = "bonuses" => Bonuses!StakesAddUp

\* The spending limit of the treasury bounds every span of a period (treasury.rs).
SpendingCapped == part = "treasury" => Coffers!SpendingCapped

\* The emergency level in force is that of an active action (emergency.rs).
LevelCovered == part = "emergency" => Emergency!LevelCovered

\* "For critical levels, multi-sig is required" (emergency.rs): a level of High and
\* above is in force by an action that has its approvals.
HighNeedsApprovals == part = "emergency" => Emergency!HighNeedsApprovals

\* An upgrade proposal that is over stays over (upgrade.rs), and data that were
\* migrated are not migrated again, also after a way back (migration.rs).
UpgradesSettle ==
    [][/\ part = "path" => Path!Settled
       /\ part = "manager" => Manager!MigratedOnce]_vars

\* Proposals and parameters run after their vote and their delay
\* (governance_system.rs, governance_params.rs).
NothingRunsEarly == part = "votes" => Votes!NothingRunsEarly

\* The log of the decentralization schedule tells what ran, what is cancelled and who
\* approved, and that the delay and the approvals were kept (governance.rs, admin.rs).
LogTellsState == part = "phases" => Phases!LogTellsState

\* Rewards are paid out of their pool, to the accounts that show them, and once for a
\* challenge (governance/rewards.rs, gamification.rs).
RewardsAccounted ==
    /\ part = "rewards" => Rewards!PoolsCoverClaims
    /\ part = "games" => Games!RewardsPaidOnce

\* The boards rank the users by their scores (seasons.rs, gamification.rs).
BoardsRank ==
    /\ part = "games" => Games!BoardRanksScores
    /\ part = "seasons" => Games!SeasonsRankTraders

\* No order uses more than it may, runs ahead of its schedule or loses its place in
\* the book (orders.rs).
OrdersHold ==
    part = "orders" => Trades!BudgetKept /\ Trades!BookInPriority /\ Trades!RecurringPaced

\* The fee history accounts for the fee in force (fee_adjustment_manager.rs,
\* fee_history.rs).
HistoryChains == part = "fees" => Tariff!HistoryChains

\* Commissions are earned from others and once: no circle of referrers pays its payer
\* (referral_system), and promises, claims and badges agree (referral.rs).
CommissionsEarned ==
    /\ part = "referrals" => Refers!NobodyPaysThemselves
    /\ part = "codes" => Codes!EarnedOnce

\* "Maximum reward per participant per epoch (caps gaming)" (governance/rewards.rs).
RewardCapKept == part = "rewards" => Rewards!RewardCapKept
=============================================================================
