---------------------------- MODULE StakingBonus ----------------------------
(***************************************************************************)
(* The staking bonuses of the counter contract, counter/src/               *)
(* staking_bonus.rs: stakes with a lock and a bonus by their duration, and *)
(* beside them the totals, the earned and claimed bonuses and the registry *)
(* of stakers that distributions walk.  The code moves no tokens.          *)
(***************************************************************************)
EXTENDS Integers, Sequences, Sums

CONSTANTS
    Users,
    Tiers,          \* the durations of a stake
    BonusParts,     \* the bonus of each duration, of BonusUnit
    BonusUnit,
    HoldingPeriod, DistributionPeriod,
    Penalty,        \* an early exit costs one part in Penalty
    Amounts,        \* bound: the amounts of calls
    MaxStakes, MaxDistributions, MaxTime    \* bounds

BonusAssumption ==
    /\ IsFiniteSet(Users)
    /\ Tiers \subseteq Nat /\ BonusParts \in [Tiers -> Nat] /\ BonusUnit \in Nat \ {0}
    /\ Penalty \in Nat \ {0} /\ HoldingPeriod \in Nat /\ DistributionPeriod \in Nat \ {0}
    /\ Amounts \subseteq Nat /\ MaxTime \in Nat \ {0}

VARIABLES
    stakes,         \* UserStakes: each user's stakes in the order they were made
    userTotal, total,       \* UserTotalStaked and TotalStaked
    earned, taken,  \* UserEarnedBonuses and UserClaimedBonuses
    distributed,    \* TotalBonusesDistributed
    registry,       \* StakerRegistry
    records,        \* the times of DistributionRecords
    returned,       \* history: the principal that was handed back to each user
    now

vars == <<stakes, userTotal, total, earned, taken, distributed, registry, records, returned, now>>

StakeRecord == [amount : Nat, unlock : Nat, bonus : Nat, claimed : BOOLEAN,
                claimable : Nat, active : BOOLEAN]

TypeOK ==
    /\ stakes \in [Users -> Seq(StakeRecord)] /\ registry \in Seq(Users)
    /\ userTotal \in [Users -> Int] /\ total \in Int /\ now \in 1..MaxTime

Init ==
    /\ stakes = [u \in Users |-> <<>>] /\ userTotal = [u \in Users |-> 0] /\ total = 0
    /\ earned = [u \in Users |-> 0] /\ taken = [u \in Users |-> 0] /\ distributed = 0
    /\ registry = <<>> /\ records = <<>> /\ returned = [u \in Users |-> 0] /\ now = 1

-----------------------------------------------------------------------------
Bonus(amount, tier) == (amount * BonusParts[tier]) \div BonusUnit

SumOf(s, value(_)) == Total([i \in DOMAIN s |-> value(s[i])], Len(s))

Stake(u, amount, tier) ==
    /\ Len(stakes[u]) < MaxStakes
    /\ stakes' = [stakes EXCEPT ![u] = Append(@,
          [amount |-> amount, unlock |-> now + tier, bonus |-> Bonus(amount, tier),
           claimed |-> FALSE, claimable |-> now + HoldingPeriod, active |-> TRUE])]
    /\ registry' = IF stakes[u] = <<>> THEN Append(registry, u) ELSE registry
    /\ userTotal' = [userTotal EXCEPT ![u] = @ + amount] /\ total' = total + amount
    /\ UNCHANGED <<earned, taken, distributed, records, returned, now>>

\* What ends a stake: it is inactive, and gone from both totals
Ended(u, id, principal) ==
    /\ stakes' = [stakes EXCEPT ![u][id].active = FALSE]
    /\ userTotal' = [userTotal EXCEPT ![u] = @ - stakes[u][id].amount]
    /\ total' = total - stakes[u][id].amount
    /\ returned' = [returned EXCEPT ![u] = @ + principal]
    /\ UNCHANGED <<earned, taken, distributed, registry, records, now>>

\* At any time; a bonus that was claimed before stays claimed
UnstakeEarly(u, id) ==
    LET amount == stakes[u][id].amount
    IN  stakes[u][id].active /\ Ended(u, id, amount - amount \div Penalty)

ClaimStake(u, id) ==
    /\ stakes[u][id].active /\ now >= stakes[u][id].unlock
    /\ Ended(u, id, stakes[u][id].amount)

Claimable(s) == ~s.claimed /\ s.active /\ now >= s.claimable /\ s.bonus > 0

\* The stakes of a list whose bonus can be claimed are marked
Settled(list) ==
    [i \in DOMAIN list |-> [list[i] EXCEPT !.claimed = @ \/ Claimable(list[i])]]

ClaimBonuses(u) ==
    LET sum == SumOf(stakes[u], LAMBDA s : IF Claimable(s) THEN s.bonus ELSE 0)
    IN  /\ sum > 0
        /\ stakes' = [stakes EXCEPT ![u] = Settled(@)]
        /\ taken' = [taken EXCEPT ![u] = @ + sum] /\ distributed' = distributed + sum
        /\ UNCHANGED <<userTotal, total, earned, registry, records, returned, now>>

\* The bonus of every live stake whose bonus is unclaimed is earned, at every distribution
Share(u) == SumOf(stakes[u], LAMBDA s : IF s.active /\ ~s.claimed THEN s.bonus ELSE 0)

Registered(u) == SumOf(registry, LAMBDA v : IF v = u THEN 1 ELSE 0)

LastDistribution == IF records = <<>> THEN 0 ELSE records[Len(records)]

ExecuteDistribution ==
    /\ now >= LastDistribution + DistributionPeriod /\ Len(records) < MaxDistributions
    /\ earned' = [u \in Users |-> earned[u] + Registered(u) * Share(u)]
    /\ records' = Append(records, now)
    /\ UNCHANGED <<stakes, userTotal, total, taken, distributed, registry, returned, now>>

Tick == now < MaxTime /\ now' = now + 1
        /\ UNCHANGED <<stakes, userTotal, total, earned, taken, distributed, registry,
                       records, returned>>

Next ==
    \/ \E u \in Users, amount \in Amounts, tier \in Tiers : Stake(u, amount, tier)
    \/ \E u \in Users : ClaimBonuses(u)
    \/ \E u \in Users : \E id \in DOMAIN stakes[u] : UnstakeEarly(u, id) \/ ClaimStake(u, id)
    \/ ExecuteDistribution
    \/ Tick

Spec == Init /\ [][Next]_vars

-----------------------------------------------------------------------------
\* Whatever ends a stake, it ends once: the totals are the stakes still active, the
\* principal handed back is never more than the stakes that ended, the claimed bonuses
\* are those of the stakes marked, and a staker is in the registry exactly once.
StakesAddUp ==
    /\ \A u \in Users :
          /\ userTotal[u] = SumOf(stakes[u], LAMBDA s : IF s.active THEN s.amount ELSE 0)
          /\ returned[u] <= SumOf(stakes[u], LAMBDA s : IF s.active THEN 0 ELSE s.amount)
          /\ taken[u] = SumOf(stakes[u], LAMBDA s : IF s.claimed THEN s.bonus ELSE 0)
          /\ Registered(u) = (IF stakes[u] = <<>> THEN 0 ELSE 1)
    /\ total = SetTotal(userTotal, Users)
    /\ distributed = SetTotal(taken, Users)
=============================================================================
