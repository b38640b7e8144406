------------------------------ MODULE Farming -------------------------------
(***************************************************************************)
(* Liquidity mining, counter/src/farming.rs: LP tokens staked in a pool    *)
(* share what the pool emits, by an accumulator of rewards per share and   *)
(* the value of it each position has been paid up to.  The pools do not    *)
(* meet, so that one is modelled.  The code moves no tokens: a stake is    *)
(* only a number, and what a claim returns is counted in `claimed`.        *)
(***************************************************************************)
EXTENDS Integers, Sums

CONSTANTS
    Users,
    ScaleFactor,        \* SCALE_FACTOR of the accumulator
    MinStake,           \* MIN_STAKE_AMOUNT
    Amounts, Rates,     \* bounds: the amounts and emission rates of calls
    MaxStaked, MaxTime  \* bounds

FarmingAssumption ==
    /\ IsFiniteSet(Users)
    /\ ScaleFactor \in Nat \ {0} /\ MinStake \in Nat /\ Amounts \subseteq Nat \ {0}
    /\ Rates \subseteq Nat /\ MaxTime \in Nat \ {0}

VARIABLES
    pool,           \* PoolFarmState; the code makes the empty one when it first looks
    positions,      \* UserFarmPosition of each user
    globalTotal,    \* TotalRewardsDistributed
    claimed,        \* history: what each user's claims returned
    now

vars == <<pool, positions, globalTotal, claimed, now>>

PoolFarmState == [staked : Nat, accumulator : Nat, rate : Nat, updated : Nat, distributed : Nat]
UserFarmPosition == [staked : Nat, pending : Nat, debt : Nat, active : BOOLEAN]

TypeOK ==
    /\ pool \in PoolFarmState /\ positions \in [Users -> UserFarmPosition]
    /\ claimed \in [Users -> Nat] /\ now \in 1..MaxTime

Init ==
    /\ pool = [staked |-> 0, accumulator |-> 0, rate |-> 0, updated |-> 1, distributed |-> 0]
    /\ positions = [u \in Users |-> [staked |-> 0, pending |-> 0, debt |-> 0, active |-> FALSE]]
    /\ globalTotal = 0 /\ claimed = [u \in Users |-> 0] /\ now = 1

-----------------------------------------------------------------------------
NewRewards == (now - pool.updated) * pool.rate

\* update_pool_accumulator
UpdatedPool ==
    IF pool.staked = 0 \/ pool.rate = 0 THEN [pool EXCEPT !.updated = now]
    ELSE [pool EXCEPT !.accumulator = @ + (NewRewards * ScaleFactor) \div pool.staked,
                      !.updated = now, !.distributed = @ + NewRewards]

Distributed == UpdatedPool.distributed - pool.distributed

\* update_user_position, after the pool has become p
Accumulated(p, position) == ((p.accumulator - position.debt) * position.staked) \div ScaleFactor

UpdatedPosition(p, position) ==
    [position EXCEPT !.pending = @ + Accumulated(p, position), !.debt = p.accumulator]

\* The position brought up to date, with another stake
Restaked(position, staked, active) ==
    [UpdatedPosition(UpdatedPool, position) EXCEPT !.staked = staked, !.active = active]

\* Mutation: the position is not brought up to date before it grows
StakeLpBackdated(u, amount) ==
    /\ amount >= MinStake /\ pool.staked + amount <= MaxStaked
    /\ pool' = [UpdatedPool EXCEPT !.staked = @ + amount]
    /\ positions' = [positions EXCEPT ![u].staked = @ + amount, ![u].active = TRUE]
    /\ globalTotal' = globalTotal + Distributed
    /\ UNCHANGED <<claimed, now>>

StakeLp(u, amount) ==
    /\ amount >= MinStake /\ pool.staked + amount <= MaxStaked
    /\ pool' = [UpdatedPool EXCEPT !.staked = @ + amount]
    /\ positions' = [positions EXCEPT ![u] = Restaked(@, @.staked + amount, TRUE)]
    /\ globalTotal' = globalTotal + Distributed
    /\ UNCHANGED <<claimed, now>>

UnstakeLp(u, amount) ==
    /\ positions[u].active /\ positions[u].staked >= amount
    /\ pool' = [UpdatedPool EXCEPT !.staked = @ - amount]
    /\ positions' = [positions EXCEPT ![u] = Restaked(@, @.staked - amount, @.staked > amount)]
    /\ globalTotal' = globalTotal + Distributed
    /\ UNCHANGED <<claimed, now>>

ClaimFarmRewards(u) ==
    LET position == UpdatedPosition(UpdatedPool, positions[u])
    IN  /\ position.pending > 0
        /\ pool' = UpdatedPool
        /\ positions' = [positions EXCEPT ![u] = [position EXCEPT !.pending = 0]]
        /\ globalTotal' = globalTotal + Distributed
        /\ claimed' = [claimed EXCEPT ![u] = @ + position.pending]
        /\ UNCHANGED now

\* The query stores what it updates
GetPendingFarmRewards(u) ==
    /\ pool' = UpdatedPool
    /\ positions' = [positions EXCEPT ![u] = UpdatedPosition(UpdatedPool, @)]
    /\ globalTotal' = globalTotal + Distributed
    /\ UNCHANGED <<claimed, now>>

\* Only by the admin; what was earned so far is earned at the old rate
SetFarmEmissionRate(rate) ==
    /\ pool' = [UpdatedPool EXCEPT !.rate = rate]
    /\ globalTotal' = globalTotal + Distributed
    /\ UNCHANGED <<positions, claimed, now>>

GetPoolState ==
    /\ pool' = UpdatedPool /\ globalTotal' = globalTotal + Distributed
    /\ UNCHANGED <<positions, claimed, now>>

Tick == now < MaxTime /\ now' = now + 1 /\ UNCHANGED <<pool, positions, globalTotal, claimed>>

Next ==
    \/ \E u \in Users, amount \in Amounts : StakeLp(u, amount) \/ UnstakeLp(u, amount)
    \/ \E u \in Users : ClaimFarmRewards(u) \/ GetPendingFarmRewards(u)
    \/ \E rate \in Rates : SetFarmEmissionRate(rate)
    \/ GetPoolState
    \/ Tick

Spec == Init /\ [][Next]_vars

-----------------------------------------------------------------------------
Over(op(_)) == SetTotal([u \in Users |-> op(u)], Users)

\* What was claimed, what is pending and what the positions have earned since they were
\* updated is never more than the pool has emitted, with two roundings on the way and
\* stakes that come and go between updates; and the pool counts the stakes it has.
RewardsCovered ==
    /\ pool.staked = Over(LAMBDA u : positions[u].staked)
    /\ Over(LAMBDA u : claimed[u] + positions[u].pending + Accumulated(pool, positions[u]))
           <= pool.distributed
    /\ globalTotal = pool.distributed
=============================================================================
