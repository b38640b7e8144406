------------------------------ MODULE MCCounter -------------------------------
(***************************************************************************)
(* The constants of every part of the counter contract for TLC.  A         *)
(* behaviour picks one part and stays in it: what TLC finds is what it     *)
(* would find part by part, in one run.                                    *)
(***************************************************************************)
EXTENDS CounterCore

CONSTANTS ann, ben, cyd, punk, pot      \* users, an NFT and a lending pool

-----------------------------------------------------------------------------
\* A rate of 2 of 4 a day: the interest of 2 over a day is 1.
LendingValues ==
   [Users |-> {ann, ben}, Nfts |-> {punk}, Pools |-> {pot}, Frozen |-> {}, Split |-> {},
    MaxRate |-> 2, RateUnit |-> 4, Precision |-> 10, Optimal |-> 3, Slope1 |-> 1,
    Slope2 |-> 2, BaseRate |-> 1, MaxLtv |-> 6, TriggerLtv |-> 7, PartialLtv |-> 8,
    LtvUnit |-> 10, MinCover |-> 150, Grace |-> 1, QueueSize |-> 1, Amounts |-> {2},
    Rates |-> {2}, Days |-> {1}, Values |-> {0, 3, 4}, Bids |-> {1}, MaxLoans |-> 1,
    MaxDeposit |-> 3, MaxTime |-> 3]

\* Shares of one NFT and a vault for them
SplitsValues ==
   [Users |-> {ann, ben}, Nfts |-> {punk}, Frozen |-> {}, Collateral |-> {},
    MinShares |-> 2, MaxShares |-> 3, MinVaultMint |-> 1, Delay |-> 1, FeeParts |-> 1,
    FeeUnit |-> 2, Amounts |-> 1..3, MaxVaults |-> 1, MaxTime |-> 1, MaxHeld |-> 3]

\* Loans without grace and without pools, one listing and one offer
BazaarValues ==
   [Users |-> {ann, ben}, Nfts |-> {punk}, Pools |-> {}, Frozen |-> {}, Split |-> {},
    MaxRate |-> 2, RateUnit |-> 4, Precision |-> 10, Optimal |-> 3, Slope1 |-> 1,
    Slope2 |-> 2, BaseRate |-> 1, MaxLtv |-> 6, TriggerLtv |-> 7, PartialLtv |-> 8,
    LtvUnit |-> 10, MinCover |-> 150, Grace |-> 0, QueueSize |-> 0, Amounts |-> {2},
    Rates |-> {2}, Days |-> {1}, Values |-> {4}, Bids |-> {}, MaxLoans |-> 1,
    MaxDeposit |-> 0, MaxTime |-> 2, Prices |-> {1, 2}, Durations |-> {1},
    MaxListings |-> 1, MaxOffers |-> 1]

\* Two pools that share a token, so that a route has two hops.
PoolSeeds == {[tokens |-> <<1, 2>>, amounts |-> <<2, 2>>, tier |-> 1],
              [tokens |-> <<3, 2>>, amounts |-> <<1, 4>>, tier |-> 2]}

ExchangeValues ==
   [Users |-> {ann, ben}, Tokens |-> 1..3, Verified |-> {ben}, Admin |-> ann,
    FeeTiers |-> {1, 2}, FeeUnit |-> 4, MinLpTokens |-> 1, Amounts |-> {1, 4},
    HopLimits |-> {2}, MaxPools |-> 2, MaxReserve |-> 4, MaxFees |-> 1,
    Seeds |-> PoolSeeds]

\* One trader, in three units: every quotient of a swap has a rest.
TradingValues ==
   [Users |-> {ann}, Verified |-> {ann}, Price |-> [x \in 1..2 |-> 2], Precision |-> 2,
    PoolFee |-> 1, FeeUnit |-> 4, TierFee |-> <<1, 0>>, TierTrades |-> 2,
    TierVolume |-> 6, MaxSlip |-> 4, Tolerance |-> 2, Drip |-> 3, Cooldown |-> 1,
    Ttl |-> 1, Tops |-> 1, Amounts |-> {3}, MaxBalance |-> 9, MaxReserve |-> 6,
    MaxTrades |-> 1, MaxPnl |-> 6, MaxBatch |-> 1, MaxTime |-> 2]

\* A jump from 8 or 10 to 14 trips the breaker, one from 8 to 10 does not.
GuardsValues ==
   [Users |-> {ann, ben}, SwapsPerHour |-> 2, Hour |-> 2, Prices |-> {8, 10, 14},
    DeviationUnit |-> 8, Thresholds |-> {2}, TwapWindows |-> {1, 2}, Staleness |-> 1,
    Volumes |-> {1, 2}, VolumeWindow |-> 1, Ceilings |-> {0, 2}, MaxEntries |-> 3,
    MaxTime |-> 4]

FarmValues ==
   [Users |-> {ann, ben}, ScaleFactor |-> 5, MinStake |-> 1, Amounts |-> {1, 2},
    Rates |-> {0, 2}, MaxStaked |-> 3, MaxTime |-> 3]

BonusValues ==
   [Users |-> {ann}, Tiers |-> {1, 2}, BonusParts |-> [t \in 1..2 |-> t], BonusUnit |-> 2,
    HoldingPeriod |-> 1, DistributionPeriod |-> 2, Penalty |-> 10, Amounts |-> {2},
    MaxStakes |-> 2, MaxDistributions |-> 1, MaxTime |-> 3]

CoffersValues ==
   [People |-> {ann, ben}, Signers |-> {ann, ben}, Threshold |-> 2,
    EmergencyThreshold |-> 1, ProposalIds |-> {1}, Amounts |-> {1}, Limits |-> {1},
    Thresholds |-> {1}, Lives |-> {1}, Period |-> 1, MaxDeposited |-> 3, MaxTime |-> 3]

EmergencyValues ==
   [Signers |-> {ann, ben}, Addresses |-> {ann}, StandardThreshold |-> 2,
    CriticalThreshold |-> 2, MaxExpiry |-> 1, Cooldown |-> 2, Levels |-> {0, 1, 3},
    Expiries |-> {-1, 1}, MaxActions |-> 2, MaxTime |-> 2]

PathValues ==
   [Signers |-> {ann, ben}, Versions |-> {<<1, 0, 0>>, <<1, 0, 1>>, <<2, 0, 0>>},
    FirstVersion |-> <<1, 0, 0>>, MajorApprovals |-> 2, MinorApprovals |-> 2,
    PatchApprovals |-> 1, DefaultTimelock |-> 1, HotfixTimelock |-> 0, Lifetime |-> 1,
    RollbackEnabled |-> TRUE, MaxProposals |-> 2, MaxTime |-> 2]

ManagerValues ==
   [Signers |-> {ann, ben}, Admin |-> cyd, SignerSets |-> {{ann, ben}, {ann}},
    Delays |-> {0, 1}, Versions |-> 1..2, MaxUpgrades |-> 2, MaxTime |-> 2]

\* 16 and 9 tokens of 25 are 4 and 3 votes.
BallotValues ==
   [Users |-> {ann, ben}, Balances |-> [u \in {ann, ben} |-> IF u = ann THEN 16 ELSE 9],
    Supply |-> 25, Admin |-> ann, NewAdmins |-> {ben}, Delegates |-> {ann},
    Council |-> {ann}, MultisigSigners |-> {ben}, SignThreshold |-> 2,
    VoteTimelock |-> 1, MinDelay |-> 1, DefaultDelay |-> 1, ValidValues |-> {1},
    Values |-> {1, 2}, Delays |-> {1}, MaxProposals |-> 1, MaxUpdates |-> 1,
    MaxSignatures |-> 2, MaxTime |-> 2]

\* A month and a delay of three of them; the moments fall into all four phases.
ScheduleValues ==
   [Guardians |-> {ann, ben}, Threshold |-> 2, Delay |-> 3, Month |-> 1, Values |-> {1},
    Moments |-> {0, 3, 6, 12}, MaxLog |-> 5]

IncentivesValues ==
   [Participants |-> {ann, ben}, Pool |-> 5, EpochLength |-> 1, Cooldown |-> 1,
    MaxReward |-> 3, ProposalBonus |-> 2, VoteReward |-> 1, PowerMultiplier |-> 100,
    MinScore |-> 10, Efficiency |-> 80, Powers |-> {100}, MaxRecords |-> 1,
    MaxEpochs |-> 2, MaxTime |-> 2]

\* One challenge for one of two users, and three traders for two places
ContestValues ==
   [Users |-> {ann, ben}, BoardSize |-> 1, TradingBadges |-> {"First"},
    OtherBadges |-> {"Champion"},
    Points |-> [x \in {"First", "Champion", "Master"} |-> 1], Master |-> "Master",
    Champion |-> "Champion", ChampionWins |-> 1, StreakBonuses |-> <<<<2, 1>>>>,
    TierScores |-> <<0, 1>>, TierParts |-> <<10000, 15000>>, StreakStep |-> 2, Day |-> 1,
    Target |-> 1, Completion |-> 1, Pools |-> {20}, Places |-> {1}, Durations |-> {1},
    MaxChallenges |-> 1, MaxScore |-> 2, MaxStreak |-> 2, MaxTime |-> 2,
    Traders |-> {ann, ben, cyd}, SeasonPlaces |-> 2, Podium |-> 1, Volumes |-> {1, 2},
    MaxVolume |-> 2, MaxSeasons |-> 2]

-----------------------------------------------------------------------------
\* Prices in halves, so that a fill is rounded.
DeskValues ==
   [Traders |-> {ann, ben}, Precision |-> 2, Funds |-> 3, Amounts |-> {3}, Takes |-> {2},
    Prices |-> {1, 3}, Deadlines |-> {0, 1}, Intervals |-> {1}, Occurrences |-> {2},
    MaxOrders |-> 2, MaxTime |-> 2]

-----------------------------------------------------------------------------
SteadyFees == [base |-> 50, min |-> 10, max |-> 500, cap |-> 80, cooldown |-> 1, trends |-> TRUE,
               trendPercent |-> 20, overrides |-> TRUE, multipliers |-> <<80, 90, 100, 150, 250>>]
FeeConfigs == {SteadyFees, [SteadyFees EXCEPT !.base = 100, !.min = 60, !.trends = FALSE],
               [SteadyFees EXCEPT !.base = 5]}

\* A quiet network, a busy one and one that triggers the override
Loads == {[gas |-> 100, volume |-> 0, pending |-> 0, capacity |-> 10],
          [gas |-> 3000, volume |-> 600, pending |-> 5000, capacity |-> 70],
          [gas |-> 5000, volume |-> 1000, pending |-> 15000, capacity |-> 98]}

TariffValues ==
   [Admins |-> {ann}, Configs |-> FeeConfigs, FirstConfig |-> SteadyFees, Metrics |-> Loads,
    Fees |-> {60}, Caps |-> {70}, Retentions |-> {0}, Recovery |-> 1, MaxHistory |-> 3,
    PageSize |-> 2, MaxTime |-> 2]

CircleValues ==
   [Users |-> {ann, ben, cyd}, Tiers |-> <<<<0, 1, 0>>, <<4, 2, 1>>>>, Unit |-> 4,
    Fees |-> {4}, MaxVolume |-> 8]

VouchersValues ==
   [Users |-> {ann, ben, cyd}, Rates |-> <<5, 2, 1>>, RateUnit |-> 5, Hold |-> 1,
    ClaimPause |-> 2, Milestones |-> <<1, 2>>, Fees |-> {1}, MaxPending |-> 2, MaxTime |-> 3]

-----------------------------------------------------------------------------
\* A single part, for a single question
EmergencySpec == InEmergency /\ [][CoreNext]_vars
RewardsSpec == InRewards /\ [][CoreNext]_vars

\* Each phase comes when the one before says, and has fewer powers.
ASSUME ScheduleAssumption == Phases!NextPhaseDue /\ Phases!PowersShrink
=============================================================================
