------------------------ MODULE ParticipationRewards ------------------------
(***************************************************************************)
(* The rewards for taking part in governance,                              *)
(* counter/src/governance/rewards.rs: what a participant does in an epoch  *)
(* is recorded, the first record after its end closes it, and closed       *)
(* epochs pay out of a pool of their own.  Left out are the times of       *)
(* actions and the all-time counts, which nothing reads.                   *)
(***************************************************************************)
EXTENDS Integers, Sequences, FiniteSets, FiniteSetsExt, Sums

CONSTANTS
    Participants,
    Pool, EpochLength, Cooldown, MaxReward,     \* RewardConfig
    ProposalBonus, VoteReward, PowerMultiplier, MinScore, Efficiency,
    Powers, MaxRecords, MaxEpochs, MaxTime      \* bounds

RewardsAssumption ==
    /\ {Pool, EpochLength, Cooldown, MaxReward} \subseteq Nat
    /\ {ProposalBonus, VoteReward, PowerMultiplier, MinScore, Efficiency} \subseteq Nat
    /\ Powers \subseteq Nat /\ IsFiniteSet(Participants)

Never == -1

VARIABLES
    epochs,         \* Epoch by id, from 1; the last one is current_epoch_id
    lastClaim,
    distributed,    \* total_rewards_distributed
    stats,          \* AllTimeStats of each participant
    now

vars == <<epochs, lastClaim, distributed, stats, now>>

ParticipationRecord ==
    [proposals : Nat, votes : Nat, delegated : Nat, power : Nat, full : BOOLEAN]

NoRecord == [proposals |-> 0, votes |-> 0, delegated |-> 0, power |-> 0, full |-> FALSE]

\* `paid` sums up the claim_history
Epoch ==
    [end : Nat, distributed : Nat, finalized : BOOLEAN,
     records : [Participants -> ParticipationRecord], paid : [Participants -> Nat]]

NewEpoch(start) ==
    [end |-> start + EpochLength, distributed |-> 0, finalized |-> FALSE,
     records |-> [p \in Participants |-> NoRecord], paid |-> [p \in Participants |-> 0]]

TypeOK ==
    /\ epochs \in Seq(Epoch) /\ lastClaim \in [Participants -> Nat \cup {Never}]
    /\ distributed \in Nat /\ stats \in [Participants -> [epochs : Nat, claimed : Nat]]
    /\ now \in Nat

Init ==
    /\ epochs = <<NewEpoch(0)>> /\ lastClaim = [p \in Participants |-> Never]
    /\ distributed = 0 /\ stats = [p \in Participants |-> [epochs |-> 0, claimed |-> 0]]
    /\ now = 0

Finalized(epoch) ==
    [epoch EXCEPT !.finalized = TRUE,
        !.records = [p \in Participants |->
            [@[p] EXCEPT !.full = @ \/ (epoch.records[p].votes > 0 /\ epoch.records[p].proposals > 0)]]]

\* The last epoch is closed and the next begins
Rolled == Append([epochs EXCEPT ![Len(epochs)] = Finalized(@)], NewEpoch(now))

\* ensure_current_epoch
Current == IF now >= epochs[Len(epochs)].end THEN Rolled ELSE epochs

\* How much was recorded of a participant; the bound of the model
Recorded(r) == r.proposals + r.votes + r.delegated

CurrentRecord(p) == Current[Len(Current)].records[p]

Record(p, r) ==
    /\ Len(Current) <= MaxEpochs /\ Recorded(CurrentRecord(p)) < MaxRecords
    /\ epochs' = [Current EXCEPT ![Len(Current)].records[p] = r]
    /\ UNCHANGED <<lastClaim, distributed, stats, now>>

RecordProposalCreated(p) ==
    Record(p, [CurrentRecord(p) EXCEPT !.proposals = @ + 1])

RecordVoteCast(p, power) ==
    Record(p, [CurrentRecord(p) EXCEPT !.votes = @ + 1, !.power = @ + power])

RecordDelegationReceived(p) ==
    Record(p, [CurrentRecord(p) EXCEPT !.delegated = @ + 1])

\* Anyone, before the epoch's end too; only the last epoch is not yet finalized
FinalizeEpoch ==
    /\ Len(epochs) < MaxEpochs
    /\ epochs' = Rolled
    /\ UNCHANGED <<lastClaim, distributed, stats, now>>

Score(r) ==
    Min({100,
         Min({10 * r.votes, 50}) + Min({15 * r.proposals, 30}) + Min({5 * r.delegated, 10})
           + (IF r.full THEN 10 ELSE 0)})

\* b to the power of n, for n up to 5
Power(b, n) ==
    CASE n = 0 -> 1
      [] n = 1 -> b
      [] n = 2 -> b * b
      [] n = 3 -> b * b * b
      [] n = 4 -> b * b * b * b
      [] n = 5 -> b * b * b * b * b

\* calculate_reward; it diminishes with every claim, five times at most
Reward(p, e) ==
    LET r == epochs[e].records[p]
        times == Min({stats[p].epochs, 5})
        whole == (Pool * Score(r)) \div 100 + r.proposals * ProposalBonus
                   + r.votes * VoteReward + (r.power * Min({PowerMultiplier, 200})) \div 10000
    IN  IF Score(r) < MinScore THEN 0
        ELSE Min({MaxReward, (whole * Power(Efficiency, times)) \div Power(100, times)})

\* The pool of the epoch has room for a claim
Room(e, amount) == epochs[e].distributed + amount <= Pool

\* Nothing notes that the participant has claimed this epoch before
ClaimRewards(p, e) ==
    LET amount == Reward(p, e)
    IN  /\ epochs[e].finalized
        /\ lastClaim[p] = Never \/ now >= lastClaim[p] + Cooldown
        /\ amount > 0 /\ Room(e, amount)
        /\ epochs' = [epochs EXCEPT ![e].distributed = @ + amount, ![e].paid[p] = @ + amount]
        /\ lastClaim' = [lastClaim EXCEPT ![p] = now]
        /\ distributed' = distributed + amount
        /\ stats' = [stats EXCEPT ![p] =
              [epochs |-> @.epochs + 1, claimed |-> @.claimed + amount]]
        /\ UNCHANGED now

Tick == now < MaxTime /\ now' = now + 1 /\ UNCHANGED <<epochs, lastClaim, distributed, stats>>

Next ==
    \/ \E p \in Participants :
          \/ RecordProposalCreated(p) \/ RecordDelegationReceived(p)
          \/ \E power \in Powers : RecordVoteCast(p, power)
          \/ \E e \in DOMAIN epochs : ClaimRewards(p, e)
    \/ FinalizeEpoch \/ Tick

Spec == Init /\ [][Next]_vars

-----------------------------------------------------------------------------
\* The pool of every epoch covers what its claims took, and the three accounts
\* of the claims, by epoch, by participant and in total, agree.
PoolsCoverClaims ==
    /\ \A e \in DOMAIN epochs :
          /\ epochs[e].distributed <= Pool
          /\ epochs[e].distributed = SetTotal(epochs[e].paid, Participants)
    /\ distributed = Total([e \in DOMAIN epochs |-> epochs[e].distributed], Len(epochs))
    /\ distributed = SetTotal([p \in Participants |-> stats[p].claimed], Participants)

\* "Maximum reward per participant per epoch (caps gaming)": what an epoch has
\* paid one participant stays within max_reward_per_participant.
RewardCapKept ==
    \A e \in DOMAIN epochs, p \in Participants : epochs[e].paid[p] <= MaxReward
=============================================================================
