------------------------- MODULE CounterTimedProofs --------------------------
(***************************************************************************)
(* Proofs about the parts of the counter contract in which time decides,   *)
(* for every value of their constants: emergency levels, upgrades, votes,  *)
(* the treasury, farming and bonuses, orders that wait, and the fee.       *)
(***************************************************************************)
EXTENDS CounterCore, SequenceLemmas

-----------------------------------------------------------------------------
(* A behaviour stays in its part.                                          *)

\* A step that changes nothing changes no variable.
LEMMA NothingMoves ==
    ASSUME UNCHANGED vars
    PROVE  UNCHANGED <<part, s1, s2, s3, s4, s5, s6, s7, s8, s9, s10, s11, s12, s13, s14, s15,
                       s16, s17>>
BY DEF vars, from1, from2, from3, from4, from5, from6, from7, from8, from9, from10, from11,
   from12, from13, from14, from15, from16, from17

\* The part that runs begins as it says and takes its own steps only.
LEMMA PartBegins ==
    ASSUME CoreInit
    PROVE  /\ part = "emergency" => InEmergency
           /\ part = "path" => InPath
           /\ part = "manager" => InManager
           /\ part = "votes" => InVotes
           /\ part = "treasury" => InTreasury
           /\ part = "farming" => InFarming
           /\ part = "bonuses" => InBonuses
           /\ part = "orders" => InOrders
           /\ part = "fees" => InFees
BY DEF CoreInit, InLending, InMarket, InFractions, InPools, InTrading, InOracle, InVolume, InRates,
   InFarming, InBonuses, InTreasury, InEmergency, InPath, InManager, InVotes, InPhases,
   InRewards, InGames, InSeasons, InOrders, InFees,
   InReferrals, InCodes

LEMMA PartGoesOn ==
    ASSUME CoreNext
    PROVE  /\ part' = part
           /\ part = "emergency" => EmergencyStep
           /\ part = "path" => PathStep
           /\ part = "manager" => ManagerStep
           /\ part = "votes" => VotesStep
           /\ part = "treasury" => TreasuryStep
           /\ part = "farming" => FarmingStep
           /\ part = "bonuses" => BonusesStep
           /\ part = "orders" => OrdersStep
           /\ part = "fees" => FeesStep
BY DEF CoreNext, LendingStep, MarketStep, FractionsStep, PoolsStep, TradingStep, OracleStep,
   VolumeStep, RatesStep, FarmingStep, BonusesStep, TreasuryStep, EmergencyStep, PathStep,
   ManagerStep, VotesStep, PhasesStep, RewardsStep, GamesStep, SeasonsStep, OrdersStep,
   FeesStep, ReferralsStep, CodesStep

-----------------------------------------------------------------------------
(* Emergency levels.                                                       *)

\* The greatest of some levels is one of them.
LEMMA GreatestLevel ==
    ASSUME NEW S, S # {}, S \subseteq 0..4
    PROVE  Emergency!Max(S) \in S
<1>1. \E x \in S : \A y \in S : x >= y
  <2>1. CASE 4 \in S
    BY <2>1
  <2>2. CASE 4 \notin S /\ 3 \in S
    BY <2>2
  <2>3. CASE 4 \notin S /\ 3 \notin S /\ 2 \in S
    BY <2>3
  <2>4. CASE 4 \notin S /\ 3 \notin S /\ 2 \notin S /\ 1 \in S
    BY <2>4
  <2>5. CASE 4 \notin S /\ 3 \notin S /\ 2 \notin S /\ 1 \notin S
    <3>1. PICK x : x \in S
      OBVIOUS
    <3>2. x \in 0..4 /\ x = 0
      BY <2>5, <3>1
    <3>3. \A y \in S : y \in 0..4 /\ y # 1 /\ y # 2 /\ y # 3 /\ y # 4
      BY <2>5
    <3>4. \A y \in S : x >= y
      BY <3>2, <3>3
    <3> QED BY <3>1, <3>4
  <2> QED BY <2>1, <2>2, <2>3, <2>4, <2>5
<1> QED BY <1>1 DEF Emergency!Max

\* So the recalculated level is none or that of an active action.
LEMMA RecalculatedIsActive ==
    ASSUME NEW list \in Seq(Emergency!EmergencyAction)
    PROVE  /\ Emergency!Recalculated(list) \in 0..4
           /\ Emergency!Recalculated(list) > 0
                => \E i \in Emergency!Active(list) :
                       list[i].level = Emergency!Recalculated(list)
<1> DEFINE A == Emergency!Active(list)
           S == {0} \cup {list[i].level : i \in A}
<1>1. \A i \in A : list[i].level \in 0..4
  <2>1. \A i \in DOMAIN list : list[i] \in Emergency!EmergencyAction
    BY ItsEntries
  <2> QED BY <2>1 DEF Emergency!EmergencyAction, Emergency!None, Emergency!Active
<1>2. Emergency!Recalculated(list) = Emergency!Max(S)
  BY DEF Emergency!Recalculated, Emergency!None
<1> HIDE DEF A
<1>3. S \subseteq 0..4 /\ 0 \in S
  BY <1>1
<1>4. Emergency!Max(S) \in S
  <2> HIDE DEF S
  <2> QED BY <1>3, GreatestLevel
<1>5. Emergency!Max(S) = 0 \/ \E i \in A : list[i].level = Emergency!Max(S)
  BY <1>4
<1> HIDE DEF S
<1>6. Emergency!Max(S) \in 0..4
  BY <1>3, <1>4
<1>7. Emergency!Max(S) > 0 => \E i \in A : list[i].level = Emergency!Max(S)
  BY <1>5
<1> QED BY <1>2, <1>6, <1>7 DEF A

\* The lesser of two numbers is one of them.
LEMMA LesserNumber ==
    ASSUME NEW a \in Nat, NEW b \in Nat
    PROVE  Emergency!Min({a, b}) \in Nat
<1>1. \E x \in {a, b} : \A y \in {a, b} : x <= y
  <2>1. CASE a <= b
    BY <2>1
  <2>2. CASE b <= a
    BY <2>2
  <2> QED BY <2>1, <2>2
<1>2. Emergency!Min({a, b}) \in {a, b}
  BY <1>1 DEF Emergency!Min
<1> QED BY <1>2

\* The level is covered, and what covers it is of the right type.
EmergencyInv == Emergency!TypeOK /\ Emergency!LevelCovered

LEMMA EmergencyBegins ==
    ASSUME Emergency!Init
    PROVE  EmergencyInv
BY DEF EmergencyInv, Emergency!Init, Emergency!TypeOK, Emergency!LevelCovered, Emergency!None

LEMMA EmergencyGoesOn ==
    ASSUME EmergencyInv, Emergency!Next
    PROVE  EmergencyInv'
<1> USE DEF EmergencyInv
<1> DEFINE Action == Emergency!EmergencyAction
<1>a. /\ emergency.Levels \subseteq 0..4 /\ emergency.Expiries \subseteq Nat \cup {-1}
      /\ emergency.StandardThreshold \in Nat /\ emergency.CriticalThreshold \in Nat
      /\ emergency.MaxExpiry \in Nat
  BY CoreAssumption DEF Emergency!EmergencyAssumption, Emergency!None, Emergency!Never
<1>t. /\ s1 \in 0..4 /\ s2 \in Seq(Action) /\ s3 \in Nat /\ s5 \in Nat
      /\ s4 \subseteq emergency.Addresses
      /\ DOMAIN s2 = 1..Len(s2) /\ Len(s2) \in Nat
      /\ \A i \in DOMAIN s2 : s2[i] \in Action
  BY ItsEntries DEF Emergency!TypeOK, Emergency!None
<1>l. s1 > 0 => \E i \in DOMAIN s2 : s2[i].status = "Active" /\ s2[i].level >= s1
  BY DEF Emergency!LevelCovered, Emergency!None, Emergency!Active
<1>k. ASSUME s1' \in 0..4, s2' \in Seq(Action), s3' \in Nat, s5' \in Nat,
             s4' \subseteq emergency.Addresses,
             s1' > 0 => \E i \in DOMAIN s2' : s2'[i].status = "Active" /\ s2'[i].level >= s1'
      PROVE  EmergencyInv'
  BY <1>k DEF Emergency!TypeOK, Emergency!LevelCovered, Emergency!None, Emergency!Active
<1>r. ASSUME s2' \in Seq(Action), s1' = Emergency!Recalculated(s2'), s3' \in Nat, s5' \in Nat,
             s4' \subseteq emergency.Addresses
      PROVE  EmergencyInv'
  <2>1. /\ s1' \in 0..4
        /\ s1' > 0 => \E i \in Emergency!Active(s2') : s2'[i].level = s1'
    BY <1>r, RecalculatedIsActive
  <2>2. s1' > 0 => \E i \in DOMAIN s2' : s2'[i].status = "Active" /\ s2'[i].level >= s1'
    BY <2>1 DEF Emergency!Active
  <2> QED BY <1>r, <1>k, <2>1, <2>2
<1>1. ASSUME NEW s \in emergency.Signers, NEW l \in emergency.Levels,
             NEW e \in emergency.Expiries, Emergency!SetEmergencyLevel(s, l, e)
      PROVE  EmergencyInv'
  <2> DEFINE x == Emergency!Required(l)
             till == IF e = Emergency!Never THEN Emergency!Never
                     ELSE s5 + Emergency!Min({e, emergency.MaxExpiry})
             new == [level |-> l, status |-> "Active", approvals |-> {s}, required |-> x,
                     expires |-> till]
  <2>1. /\ s2' = Append(s2, new) /\ s1' \in {s1, l} /\ s3' \in {s3, s5}
        /\ s4' = s4 /\ s5' = s5
    BY <1>1 DEF Emergency!SetEmergencyLevel
  <2>2. x \in Nat /\ till \in Nat \cup {-1} /\ l \in 0..4
    <3>1. x \in Nat
      BY <1>a DEF Emergency!Required
    <3>2. CASE e = -1
      BY <1>a, <3>1, <3>2 DEF Emergency!Never
    <3>3. CASE e \in Nat
      <4>1. Emergency!Min({e, emergency.MaxExpiry}) \in Nat
        BY <1>a, <3>3, LesserNumber
      <4> QED BY <1>a, <1>t, <3>1, <3>3, <4>1 DEF Emergency!Never
    <3> QED BY <1>a, <3>2, <3>3
  <2> HIDE DEF x, till
  <2>3. new \in Action
    BY <2>2 DEF Emergency!EmergencyAction, Emergency!None, Emergency!Never
  <2>4. new.status = "Active" /\ new.level = l
    OBVIOUS
  <2> HIDE DEF new, Action
  <2>5. /\ s2' \in Seq(Action) /\ DOMAIN s2' = 1..(Len(s2) + 1)
        /\ s2'[Len(s2) + 1] = new /\ \A i \in DOMAIN s2 : s2'[i] = s2[i]
    BY <1>t, <2>1, <2>3
  <2>6. CASE s1' = s1
    BY <1>t, <1>l, <1>k, <2>1, <2>5, <2>6
  <2>7. CASE s1' = l
    <3>1. s2'[Len(s2) + 1].status = "Active" /\ s2'[Len(s2) + 1].level >= s1'
      BY <2>2, <2>4, <2>5, <2>7
    <3>2. Len(s2) + 1 \in DOMAIN s2'
      BY <1>t, <2>5
    <3>3. \E i \in DOMAIN s2' : s2'[i].status = "Active" /\ s2'[i].level >= s1'
      BY <3>1, <3>2
    <3> QED BY <1>t, <1>k, <2>1, <2>2, <2>5, <2>7, <3>3
  <2> QED BY <2>1, <2>6, <2>7
<1>2. ASSUME NEW i \in DOMAIN s2, NEW s \in emergency.Signers,
             Emergency!ApproveEmergency(i, s)
      PROVE  EmergencyInv'
  <2> DEFINE new == [s2[i] EXCEPT !.approvals = s2[i].approvals \cup {s}]
  <2>1. /\ s2' = [s2 EXCEPT ![i].approvals = s2[i].approvals \cup {s}]
        /\ s1' \in {s1, s2[i].level} /\ s3' \in {s3, s5} /\ s4' = s4 /\ s5' = s5
        /\ s2[i].status = "Active"
    BY <1>2 DEF Emergency!ApproveEmergency, Emergency!Active
  <2>2. /\ new \in Action /\ s2[i].level \in 0..4
        /\ new.status = s2[i].status /\ new.level = s2[i].level
    BY <1>t DEF Emergency!EmergencyAction, Emergency!None
  <2>3. s2' = [s2 EXCEPT ![i] = new]
    BY <1>t, <2>1
  <2> HIDE DEF new, Action
  <2>4. /\ s2' \in Seq(Action) /\ DOMAIN s2' = DOMAIN s2
        /\ s2'[i] = new /\ \A j \in DOMAIN s2 : j # i => s2'[j] = s2[j]
    BY <1>t, <2>2, <2>3
  <2>5. \A j \in DOMAIN s2 : s2'[j].status = s2[j].status /\ s2'[j].level = s2[j].level
    BY <2>2, <2>4
  <2>6. CASE s1' = s1
    BY <1>t, <1>l, <1>k, <2>1, <2>4, <2>5, <2>6
  <2>7. CASE s1' = s2[i].level
    <3>3. s2'[i].status = s2[i].status /\ s2'[i].level = s2[i].level
      BY <2>5
    <3>1. s2'[i].status = "Active" /\ s2'[i].level >= s1'
      BY <2>1, <2>2, <2>7, <3>3
    <3>2. \E j \in DOMAIN s2' : s2'[j].status = "Active" /\ s2'[j].level >= s1'
      BY <2>4, <3>1
    <3> QED BY <1>t, <1>k, <2>1, <2>2, <2>4, <2>7, <3>2
  <2> QED BY <2>1, <2>6, <2>7
<1>3. ASSUME NEW i \in DOMAIN s2, Emergency!LiftEmergency(i)
      PROVE  EmergencyInv'
  <2>1. /\ s2' = [s2 EXCEPT ![i].status = "Lifted"] /\ s1' = Emergency!Recalculated(s2')
        /\ s3' = s3 /\ s4' = s4 /\ s5' = s5
    BY <1>3 DEF Emergency!LiftEmergency
  <2>2. [s2[i] EXCEPT !.status = "Lifted"] \in Action
    BY <1>t DEF Emergency!EmergencyAction
  <2>3. s2' \in Seq(Action)
    BY <1>t, <2>1, <2>2
  <2> QED BY <1>t, <1>r, <2>1, <2>3
<1>4. CASE Emergency!EmergencyResume
  <2> DEFINE new(i) == IF i \in Emergency!Active(s2) THEN [s2[i] EXCEPT !.status = "Lifted"]
                       ELSE s2[i]
  <2>1. /\ s2' = [i \in DOMAIN s2 |-> new(i)]
        /\ s1' = 0 /\ s3' = s3 /\ s4' = s4 /\ s5' = s5
    BY <1>4 DEF Emergency!EmergencyResume, Emergency!None
  <2>2. \A i \in DOMAIN s2 : new(i) \in Action
    BY <1>t DEF Emergency!EmergencyAction
  <2> HIDE DEF new, Action
  <2>3. s2' \in Seq(Action)
    BY <1>t, <2>1, <2>2
  <2> QED BY <1>t, <1>k, <2>1, <2>3 DEF Action
<1>5. CASE Emergency!Expire
  <2> DEFINE new(i) == IF Emergency!Due(i) THEN [s2[i] EXCEPT !.status = "Expired"]
                       ELSE s2[i]
  <2>1. /\ s2' = [i \in DOMAIN s2 |-> new(i)]
        /\ s1' = Emergency!Recalculated(s2') /\ s3' = s3 /\ s4' = s4 /\ s5' = s5
    BY <1>5 DEF Emergency!Expire
  <2>2. \A i \in DOMAIN s2 : new(i) \in Action
    BY <1>t DEF Emergency!EmergencyAction
  <2> HIDE DEF new, Action
  <2>3. s2' \in Seq(Action)
    BY <1>t, <2>1, <2>2
  <2> QED BY <1>t, <1>r, <2>1, <2>3 DEF Action
<1>6. CASE Emergency!Tick
  <2>1. s5' = s5 + 1 /\ s1' = s1 /\ s2' = s2 /\ s3' = s3 /\ s4' = s4
    BY <1>6 DEF Emergency!Tick
  <2> QED BY <1>t, <1>l, <1>k, <2>1
<1>7. ASSUME NEW a \in emergency.Addresses,
             Emergency!AddToWhitelist(a) \/ Emergency!RemoveFromWhitelist(a)
      PROVE  EmergencyInv'
  <2>1. /\ s4' = s4 \cup {a} \/ s4' = s4 \ {a}
        /\ s1' = s1 /\ s2' = s2 /\ s3' = s3 /\ s5' = s5
    BY <1>7 DEF Emergency!AddToWhitelist, Emergency!RemoveFromWhitelist
  <2>2. s4' \subseteq emergency.Addresses
    BY <1>t, <2>1
  <2> QED BY <1>t, <1>l, <1>k, <2>1, <2>2
<1> QED BY <1>1, <1>2, <1>3, <1>4, <1>5, <1>6, <1>7 DEF Emergency!Next

\* LevelCovered, for every configuration of the levels.
THEOREM LevelCoveredAlways == CoreSpec => []LevelCovered
<1> DEFINE Inv == part = "emergency" => EmergencyInv
<1>1. CoreInit => Inv
  BY PartBegins, EmergencyBegins DEF InEmergency
<1>2. Inv /\ [CoreNext]_vars => Inv'
  <2>1. ASSUME Inv, CoreNext PROVE Inv'
    BY <2>1, PartGoesOn, EmergencyGoesOn DEF EmergencyStep
  <2>2. ASSUME Inv, UNCHANGED vars PROVE Inv'
    BY <2>2, NothingMoves DEF EmergencyInv, Emergency!TypeOK, Emergency!LevelCovered,
       Emergency!Active
  <2> QED BY <2>1, <2>2
<1>3. Inv => LevelCovered
  BY DEF LevelCovered, EmergencyInv
<1> QED BY <1>1, <1>2, <1>3, PTL DEF CoreSpec

-----------------------------------------------------------------------------
(* The staged upgrades.                                                    *)

PathInv == Path!TypeOK

LEMMA PathBegins ==
    ASSUME Path!Init
    PROVE  PathInv
BY CoreAssumption DEF Path!UpgradeAssumption, PathInv, Path!TypeOK, Path!Init, Path!NoVersion

LEMMA PathGoesOn ==
    ASSUME PathInv, Path!Next
    PROVE  PathInv' /\ Path!Settled
<1> DEFINE Proposal == Path!UpgradeProposal
           V == path.Versions
<1>a. /\ path.DefaultTimelock \in Nat /\ path.HotfixTimelock \in Nat
      /\ V \subseteq Seq(Nat) /\ <<>> \notin V
  <2>1. /\ path.DefaultTimelock \in Nat /\ path.HotfixTimelock \in Nat
        /\ V \subseteq Seq(Nat) /\ \A v \in V : Len(v) = 3
    BY CoreAssumption DEF Path!UpgradeAssumption
  <2>2. Len(<<>>) # 3
    OBVIOUS
  <2> QED BY <2>1, <2>2
<1>t. /\ s1 \in V /\ s2 \in V \cup {<<>>} /\ s3 \in Seq(Proposal)
      /\ s4 \in Seq(V \X V) /\ s5 \in Nat
      /\ DOMAIN s3 = 1..Len(s3) /\ Len(s3) \in Nat
      /\ \A i \in DOMAIN s3 : s3[i] \in Proposal
  BY ItsEntries DEF PathInv, Path!TypeOK, Path!NoVersion
<1>k. ASSUME s1' \in V, s2' \in V \cup {<<>>}, s3' \in Seq(Proposal),
             s4' \in Seq(V \X V), s5' \in Nat
      PROVE  PathInv'
  BY <1>k DEF PathInv, Path!TypeOK, Path!NoVersion
<1> HIDE DEF Proposal, V
\* One proposal changes, which is not over, or changes to what it is
<1>c. ASSUME NEW i \in DOMAIN s3, NEW new \in Proposal, s3' = [s3 EXCEPT ![i] = new],
             s3[i].status \in {"Executed", "Cancelled"} => new = s3[i]
      PROVE  s3' \in Seq(Proposal) /\ Path!Settled
  <2>1. s3' \in Seq(Proposal)
    BY <1>t, <1>c
  <2>2. ASSUME NEW j \in DOMAIN s3, s3[j].status \in {"Executed", "Cancelled"}
        PROVE  s3'[j] = s3[j]
    BY <1>c, <2>2, <1>t
  <2> QED BY <2>1, <2>2 DEF Path!Settled
\* None does
<1>s. ASSUME s3' = s3
      PROVE  Path!Settled
  BY <1>s DEF Path!Settled
<1>1. ASSUME NEW s \in path.Signers, NEW v \in V, NEW y \in Path!Types,
             Path!ProposeUpgrade(s, v, y)
      PROVE  PathInv' /\ Path!Settled
  <2> DEFINE new == [from |-> s1, to |-> v, type |-> y, approvals |-> {s}, proposed |-> s5,
                     unlocks |-> Path!NoTime, status |-> "Proposed"]
  <2>1. s3' = Append(s3, new) /\ s1' = s1 /\ s2' = s2 /\ s4' = s4 /\ s5' = s5
    BY <1>1 DEF Path!ProposeUpgrade
  <2>2. new \in Proposal
    BY <1>t DEF Proposal, V, Path!UpgradeProposal, Path!Types
  <2> HIDE DEF new
  <2>3. s3' \in Seq(Proposal) /\ \A i \in DOMAIN s3 : s3'[i] = s3[i]
    BY <1>t, <2>1, <2>2
  <2> QED BY <1>t, <1>k, <2>1, <2>3 DEF Path!Settled
<1>2. ASSUME NEW i \in DOMAIN s3, NEW s \in path.Signers, Path!ApproveUpgrade(i, s)
      PROVE  PathInv' /\ Path!Settled
  <2>1. PICK new :
           /\ s3[i].status = "Proposed" /\ s1' = s1 /\ s2' = s2 /\ s4' = s4 /\ s5' = s5
           /\ s3' = [s3 EXCEPT ![i] = new]
           /\ \/ new = [s3[i] EXCEPT !.status = "Cancelled"]
              \/ new = [s3[i] EXCEPT !.approvals = s3[i].approvals \cup {s},
                            !.status = "Timelock",
                            !.unlocks = s5 + Path!Timelock(s3[i].type)]
              \/ new = [s3[i] EXCEPT !.approvals = s3[i].approvals \cup {s},
                            !.status = s3[i].status, !.unlocks = s3[i].unlocks]
    BY <1>2 DEF Path!ApproveUpgrade
  <2>2. Path!Timelock(s3[i].type) \in Nat
    BY <1>a DEF Path!Timelock
  <2>3. new \in Proposal
    <3> DEFINE k == s5 + Path!Timelock(s3[i].type)
    <3>1. k \in Nat /\ s3[i] \in Proposal
      BY <1>t, <2>2
    <3> HIDE DEF k
    <3>2. CASE new = [s3[i] EXCEPT !.status = "Cancelled"]
      BY <3>1, <3>2 DEF Proposal, Path!UpgradeProposal
    <3>3. CASE new = [s3[i] EXCEPT !.approvals = s3[i].approvals \cup {s},
                          !.status = "Timelock", !.unlocks = k]
      BY <3>1, <3>3 DEF Proposal, Path!UpgradeProposal
    <3>4. CASE new = [s3[i] EXCEPT !.approvals = s3[i].approvals \cup {s},
                          !.status = s3[i].status, !.unlocks = s3[i].unlocks]
      BY <3>1, <3>4 DEF Proposal, Path!UpgradeProposal
    <3> QED BY <2>1, <3>2, <3>3, <3>4 DEF k
  <2> QED BY <1>t, <1>k, <1>c, <2>1, <2>3
<1>3. ASSUME NEW i \in DOMAIN s3, Path!ExecuteUpgrade(i)
      PROVE  PathInv' /\ Path!Settled
  <2> DEFINE new == [s3[i] EXCEPT !.status = "Executed"]
  <2>1. /\ s3[i].status = "Timelock" /\ s2' = s1 /\ s1' = s3[i].to /\ s5' = s5
        /\ s3' = [s3 EXCEPT ![i].status = "Executed"]
        /\ s4' = Append(s4, <<s3[i].from, s3[i].to>>)
    BY <1>3 DEF Path!ExecuteUpgrade, Path!CanExecute
  <2>2. new \in Proposal /\ s3[i].from \in V /\ s3[i].to \in V
    BY <1>t DEF Proposal, V, Path!UpgradeProposal
  <2>3. s3' = [s3 EXCEPT ![i] = new]
    BY <2>1, <1>t
  <2> HIDE DEF new
  <2>4. s3' \in Seq(Proposal) /\ Path!Settled
    BY <1>c, <2>1, <2>2, <2>3
  <2>5. s4' \in Seq(V \X V)
    BY <1>t, <2>1, <2>2
  <2> QED BY <1>t, <1>k, <2>1, <2>2, <2>4, <2>5
<1>4. ASSUME NEW i \in DOMAIN s3, Path!CancelUpgrade(i)
      PROVE  PathInv' /\ Path!Settled
  <2> DEFINE new == [s3[i] EXCEPT !.status = "Cancelled"]
  <2>1. /\ s3[i].status # "Executed" /\ s1' = s1 /\ s2' = s2 /\ s4' = s4 /\ s5' = s5
        /\ s3' = [s3 EXCEPT ![i].status = "Cancelled"]
    BY <1>4 DEF Path!CancelUpgrade
  <2>2. new \in Proposal /\ (s3[i].status = "Cancelled" => new = s3[i])
    BY <1>t DEF Proposal, Path!UpgradeProposal
  <2>3. s3' = [s3 EXCEPT ![i] = new]
    BY <2>1, <1>t
  <2> HIDE DEF new
  <2> QED BY <1>t, <1>k, <1>c, <2>1, <2>2, <2>3
<1>5. CASE Path!Rollback
  <2>1. /\ s2 # <<>> /\ s4' = Append(s4, <<s1, s2>>) /\ s1' = s2 /\ s2' = s2
        /\ s3' = s3 /\ s5' = s5
    BY <1>5 DEF Path!Rollback, Path!NoVersion
  <2> QED BY <1>t, <1>k, <1>s, <2>1
<1>6. CASE Path!Tick
  <2>1. s5' = s5 + 1 /\ s1' = s1 /\ s2' = s2 /\ s3' = s3 /\ s4' = s4
    BY <1>6 DEF Path!Tick
  <2> QED BY <1>t, <1>k, <1>s, <2>1
<1> QED BY <1>1, <1>2, <1>3, <1>4, <1>5, <1>6 DEF Path!Next, V

-----------------------------------------------------------------------------
(* The version marker.                                                     *)

LEMMA ManagerGoesOn ==
    ASSUME Manager!Next
    PROVE  Manager!MigratedOnce
BY DEF Manager!Next, Manager!Initialize, Manager!ProposeUpgrade, Manager!ApproveUpgrade,
   Manager!ExecuteUpgrade, Manager!CancelUpgrade, Manager!Migrate, Manager!Tick,
   Manager!MigratedOnce

\* UpgradesSettle, for every set of signers, timelock and version.
THEOREM UpgradesSettleAlways == CoreSpec => UpgradesSettle
<1> DEFINE Inv == part = "path" => PathInv
           Kept == /\ part = "path" => Path!Settled
                   /\ part = "manager" => Manager!MigratedOnce
<1>1. CoreInit => Inv
  BY PartBegins, PathBegins DEF InPath
<1>2. Inv /\ [CoreNext]_vars => Inv' /\ [Kept]_vars
  <2>1. ASSUME Inv, CoreNext PROVE Inv' /\ Kept
    BY <2>1, PartGoesOn, PathGoesOn, ManagerGoesOn DEF PathStep, ManagerStep
  <2>2. ASSUME Inv, UNCHANGED vars PROVE Inv'
    BY <2>2, NothingMoves DEF PathInv, Path!TypeOK
  <2> QED BY <2>1, <2>2
<1> QED BY <1>1, <1>2, PTL DEF CoreSpec, UpgradesSettle

-----------------------------------------------------------------------------
(* Votes and parameters.                                                   *)

\* A proposal that nobody has voted on does not pass.
SilenceIsNoQuorum == ~(Votes!QuorumReached(<<>>) /\ Votes!Approved(<<>>))

Ballot == [voter : ballot.Users, weight : Int]

Proposal == [action : Votes!Actions, executed : BOOLEAN, canceled : BOOLEAN,
             executableAt : Nat, votes : Seq(Ballot), signers : Seq(ballot.Users)]

Update == [value : ballot.ValidValues, proposedAt : Nat, executableAt : Nat,
           executed : BOOLEAN]

\* Whatever passes has a time, and whatever ran had one that had come.
FairProposal(p, time) ==
    /\ Votes!QuorumReached(p.votes) /\ Votes!Approved(p.votes)
         => p.executableAt >= ballot.VoteTimelock
    /\ p.executed => p.executableAt >= ballot.VoteTimelock /\ p.executableAt <= time

FairUpdate(u, time) ==
    /\ u.executableAt >= u.proposedAt + ballot.MinDelay
    /\ u.executed => u.executableAt <= time

VotesTyped ==
    /\ s1 \in Seq(Proposal) /\ s2 \in Seq(Update)
    /\ DOMAIN s3 \subseteq ballot.Users /\ s3 \in [DOMAIN s3 -> ballot.Users]
    /\ DOMAIN s4 = {"admin", "paused", "param"}
    /\ s5 \in Nat /\ s5 >= ballot.MinDelay /\ s6 \in Nat

ProposalsFair == \A i \in DOMAIN s1 : FairProposal(s1[i], s6)
UpdatesFair == \A i \in DOMAIN s2 : FairUpdate(s2[i], s6)

\* The parameter comes from a proposal or an update that ran.
ParamAgreed ==
    \/ s4.param = -1
    \/ \E i \in DOMAIN s1 : s1[i].executed /\ s1[i].action = <<"UpdateGovParam", s4.param>>
    \/ \E i \in DOMAIN s2 : s2[i].executed /\ s2[i].value = s4.param

VotesInv == VotesTyped /\ ProposalsFair /\ UpdatesFair /\ ParamAgreed

\* What CounterGovernanceAssumption says.
LEMMA VotesNumbers ==
    /\ ballot.Balances \in [ballot.Users -> Nat]
    /\ ballot.VoteTimelock \in Nat /\ ballot.MinDelay \in Nat /\ ballot.DefaultDelay \in Nat
    /\ ballot.MinDelay <= ballot.DefaultDelay
    /\ ballot.Delegates \subseteq ballot.Users /\ ballot.Delays \subseteq Nat
    /\ ballot.Council \subseteq ballot.Users /\ ballot.MultisigSigners \subseteq ballot.Users
<1>1. Votes!CounterGovernanceAssumption
  BY CoreAssumption
<1> QED BY <1>1 DEF Votes!CounterGovernanceAssumption

\* The vote of a balance is its square root, rounded down.
LEMMA PowerIsRoot ==
    ASSUME NEW b \in Nat
    PROVE  /\ Votes!VotingPower(b) \in 0..b
           /\ Votes!VotingPower(b) * Votes!VotingPower(b) <= b
           /\ (Votes!VotingPower(b) + 1) * (Votes!VotingPower(b) + 1) > b
<1> DEFINE T == {r \in Nat : (r + 1) * (r + 1) > b}
           Root(r) == r \in 0..b /\ r * r <= b /\ (r + 1) * (r + 1) > b
<1>1. b \in T
  <2>1. (b + 1) * (b + 1) = b * b + 2 * b + 1 /\ b * b >= 0
    OBVIOUS
  <2> QED BY <2>1
<1>2. PICK r \in T : \A m \in T : r <= m
  <2>1. T \subseteq Nat /\ T # {}
    BY <1>1
  <2> HIDE DEF T
  <2> QED BY <2>1, LeastNatural
<1>3. Root(r)
  <2>1. r \in Nat /\ (r + 1) * (r + 1) > b /\ r <= b
    BY <1>1, <1>2
  <2>2. CASE r = 0
    BY <2>1, <2>2
  <2>3. CASE r # 0
    <3>1. r - 1 \in Nat /\ r - 1 \notin T
      BY <1>2, <2>1, <2>3
    <3>2. ((r - 1) + 1) * ((r - 1) + 1) <= b
      BY <3>1
    <3>3. (r - 1) + 1 = r
      BY <2>1
    <3> QED BY <2>1, <3>2, <3>3
  <2> QED BY <2>2, <2>3
<1>4. Votes!VotingPower(b) = CHOOSE x \in 0..b : x * x <= b /\ (x + 1) * (x + 1) > b
  BY DEF Votes!VotingPower
<1>5. \E x \in 0..b : x * x <= b /\ (x + 1) * (x + 1) > b
  BY <1>3
<1> QED BY <1>4, <1>5

LEMMA WeightIsNumber ==
    ASSUME VotesTyped, NEW u \in ballot.Users
    PROVE  Votes!WeightOf(u) \in Nat
<1> DEFINE v == IF u \in DOMAIN s3 THEN s3[u] ELSE u
<1>1. v \in ballot.Users
  BY DEF VotesTyped
<1>2. ballot.Balances[v] \in Nat
  BY <1>1, VotesNumbers
<1>3. Votes!WeightOf(u) = Votes!VotingPower(ballot.Balances[v])
  BY DEF Votes!WeightOf
<1> HIDE DEF v
<1>4. Votes!VotingPower(ballot.Balances[v]) \in 0..ballot.Balances[v]
  BY <1>2, PowerIsRoot
<1> QED BY <1>2, <1>3, <1>4

LEMMA VotesBegin ==
    ASSUME Votes!Init
    PROVE  VotesInv
<1>1. VotesTyped
  BY VotesNumbers DEF Votes!Init, VotesTyped
<1>2. ProposalsFair /\ UpdatesFair
  BY DEF Votes!Init, ProposalsFair, UpdatesFair
<1>3. ParamAgreed
  BY DEF Votes!Init, ParamAgreed, Votes!NoValue
<1> QED BY <1>1, <1>2, <1>3 DEF VotesInv

\* What has run stays: then the agreed parameter stays agreed.
LEMMA AgreedStays ==
    ASSUME ParamAgreed, s4'.param = s4.param,
           \A i \in DOMAIN s1 : /\ i \in DOMAIN s1' /\ s1'[i].action = s1[i].action
                                /\ s1[i].executed => s1'[i].executed,
           \A i \in DOMAIN s2 : /\ i \in DOMAIN s2' /\ s2'[i].value = s2[i].value
                                /\ s2[i].executed => s2'[i].executed
    PROVE  ParamAgreed'
BY DEF ParamAgreed

\* One proposal is written back.
LEMMA ProposalWritten ==
    ASSUME VotesInv, NEW id \in DOMAIN s1, NEW p \in Proposal,
           s1' = [s1 EXCEPT ![id] = p], UNCHANGED <<s2, s3, s5, s6>>,
           DOMAIN s4' = DOMAIN s4, FairProposal(p, s6),
           p.action = s1[id].action, s1[id].executed => p.executed
    PROVE  /\ VotesTyped' /\ ProposalsFair' /\ UpdatesFair'
           /\ s4'.param = s4.param => ParamAgreed'
           /\ id \in DOMAIN s1' /\ s1'[id] = p
<1>1. s1 \in Seq(Proposal)
  BY DEF VotesInv, VotesTyped
<1>2. /\ s1' \in Seq(Proposal) /\ DOMAIN s1' = DOMAIN s1 /\ s1'[id] = p
      /\ \A i \in DOMAIN s1 : i # id => s1'[i] = s1[i]
  BY <1>1
<1>3. VotesTyped'
  BY <1>2 DEF VotesInv, VotesTyped
<1>4. ProposalsFair'
  <2>1. ASSUME NEW i \in DOMAIN s1' PROVE FairProposal(s1'[i], s6')
    <3>1. FairProposal(s1[i], s6) /\ s6' = s6
      BY <1>2 DEF VotesInv, ProposalsFair
    <3> QED BY <1>2, <3>1
  <2> QED BY <2>1 DEF ProposalsFair
<1>5. UpdatesFair'
  BY DEF VotesInv, UpdatesFair
<1>6. ASSUME s4'.param = s4.param PROVE ParamAgreed'
  <2>1. \A i \in DOMAIN s1 : /\ i \in DOMAIN s1' /\ s1'[i].action = s1[i].action
                             /\ s1[i].executed => s1'[i].executed
    BY <1>2
  <2> QED BY <1>6, <2>1, AgreedStays DEF VotesInv
<1> QED BY <1>2, <1>3, <1>4, <1>5, <1>6

\* A proposal that is written.
LEMMA AProposal ==
    ASSUME VotesInv, NEW id \in DOMAIN s1
    PROVE  s1[id] \in Proposal /\ FairProposal(s1[id], s6)
<1>1. s1 \in Seq(Proposal)
  BY DEF VotesInv, VotesTyped
<1> QED BY <1>1 DEF VotesInv, ProposalsFair

LEMMA CreateProposalGoesOn ==
    ASSUME SilenceIsNoQuorum, VotesInv, NEW u \in ballot.Users, NEW action \in Votes!Actions,
           Votes!CreateProposal(u, action)
    PROVE  VotesInv'
<1> DEFINE p == [action |-> action, executed |-> FALSE, canceled |-> FALSE,
                 executableAt |-> 0, votes |-> <<>>, signers |-> <<>>]
<1>1. s1' = Append(s1, p) /\ s2' = s2 /\ s3' = s3 /\ s4' = s4 /\ s5' = s5 /\ s6' = s6
  BY DEF Votes!CreateProposal
<1>2. p \in Proposal
  BY DEF Proposal
<1>3. FairProposal(p, s6)
  BY DEF SilenceIsNoQuorum, FairProposal
<1> HIDE DEF p
<1>4. s1 \in Seq(Proposal)
  BY DEF VotesInv, VotesTyped
<1>5. /\ s1' \in Seq(Proposal) /\ DOMAIN s1' = 1..(Len(s1) + 1) /\ s1'[Len(s1) + 1] = p
      /\ DOMAIN s1 = 1..Len(s1) /\ Len(s1) \in Nat
      /\ \A i \in 1..Len(s1) : s1'[i] = s1[i]
  BY <1>1, <1>2, <1>4
<1>6. VotesTyped'
  BY <1>1, <1>5 DEF VotesInv, VotesTyped
<1>7. ProposalsFair'
  <2>1. ASSUME NEW i \in DOMAIN s1' PROVE FairProposal(s1'[i], s6')
    <3>1. CASE i \in DOMAIN s1
      BY <1>1, <1>5, <3>1 DEF VotesInv, ProposalsFair
    <3>2. CASE i \notin DOMAIN s1
      <4>1. s1'[i] = p
        BY <1>5, <3>2
      <4> QED BY <1>1, <1>3, <4>1
    <3> QED BY <3>1, <3>2
  <2> QED BY <2>1 DEF ProposalsFair
<1>8. UpdatesFair'
  BY <1>1 DEF VotesInv, UpdatesFair
<1>9. ParamAgreed'
  <2>1. \A i \in DOMAIN s1 : /\ i \in DOMAIN s1' /\ s1'[i].action = s1[i].action
                             /\ s1[i].executed => s1'[i].executed
    BY <1>5
  <2>2. \A i \in DOMAIN s2 : /\ i \in DOMAIN s2' /\ s2'[i].value = s2[i].value
                             /\ s2[i].executed => s2'[i].executed
    BY <1>1
  <2> QED BY <1>1, <2>1, <2>2, AgreedStays DEF VotesInv
<1> QED BY <1>6, <1>7, <1>8, <1>9 DEF VotesInv

LEMMA CastVoteGoesOn ==
    ASSUME VotesInv, NEW u \in ballot.Users, NEW id \in DOMAIN s1, NEW f \in BOOLEAN,
           Votes!CastVote(u, id, f)
    PROVE  VotesInv'
<1> DEFINE old == s1[id]
           weight == IF f THEN Votes!WeightOf(u) ELSE -Votes!WeightOf(u)
           cast == Append(old.votes, [voter |-> u, weight |-> weight])
           passes == Votes!QuorumReached(cast) /\ Votes!Approved(cast)
           time == IF passes THEN s6 + ballot.VoteTimelock ELSE old.executableAt
           p == [old EXCEPT !.votes = cast, !.executableAt = time]
<1>1. old \in Proposal /\ FairProposal(old, s6)
  BY AProposal
<1>2. ~old.executed /\ s2' = s2 /\ s3' = s3 /\ s4' = s4 /\ s5' = s5 /\ s6' = s6
  BY DEF Votes!CastVote
<1>3. s1' = [s1 EXCEPT ![id].votes = cast, ![id].executableAt = time]
  BY DEF Votes!CastVote
<1>4. s1' = [s1 EXCEPT ![id] = p]
  <2> HIDE DEF cast, time
  <2> QED BY <1>1, <1>3 DEF VotesInv, VotesTyped, Proposal
<1>5. weight \in Int
  BY WeightIsNumber DEF VotesInv
<1>6. cast \in Seq(Ballot)
  <2> HIDE DEF weight
  <2>1. old.votes \in Seq(Ballot) /\ [voter |-> u, weight |-> weight] \in Ballot
    BY <1>1, <1>5 DEF Proposal, Ballot
  <2> QED BY <2>1
<1>7. time \in Nat /\ (passes => time >= ballot.VoteTimelock)
  <2> HIDE DEF passes, old
  <2>1. s6 \in Nat /\ old.executableAt \in Nat
    BY <1>1 DEF VotesInv, VotesTyped, Proposal
  <2> QED BY <2>1, VotesNumbers
<1>8. p \in Proposal /\ p.votes = cast /\ p.executableAt = time /\ ~p.executed
      /\ p.action = old.action
  <2> HIDE DEF cast, time, old
  <2> QED BY <1>1, <1>2, <1>6, <1>7 DEF Proposal
<1> HIDE DEF p, time, cast
<1>9. FairProposal(p, s6)
  BY <1>7, <1>8 DEF FairProposal
<1> QED BY <1>2, <1>4, <1>8, <1>9, ProposalWritten DEF VotesInv

\* Signatures and a cancellation leave the vote and its time alone.
LEMMA SignedGoesOn ==
    ASSUME VotesInv, NEW u \in ballot.Users, NEW id \in DOMAIN s1, Votes!Signed(u, id)
    PROVE  VotesInv'
<1> DEFINE old == s1[id]
           p == [old EXCEPT !.signers = Append(old.signers, u)]
<1>1. old \in Proposal /\ FairProposal(old, s6)
  BY AProposal
<1>2. s2' = s2 /\ s3' = s3 /\ s4' = s4 /\ s5' = s5 /\ s6' = s6
  BY DEF Votes!Signed
<1>3. s1' = [s1 EXCEPT ![id] = p]
  BY <1>1 DEF Votes!Signed, VotesInv, VotesTyped, Proposal
<1> HIDE DEF old
<1>4. /\ p \in Proposal /\ p.votes = old.votes /\ p.executableAt = old.executableAt
      /\ p.executed = old.executed /\ p.action = old.action
  <2>1. Append(old.signers, u) \in Seq(ballot.Users)
    BY <1>1 DEF Proposal
  <2> QED BY <1>1, <2>1 DEF Proposal
<1> HIDE DEF p
<1>5. FairProposal(p, s6)
  BY <1>1, <1>4 DEF FairProposal
<1> QED BY <1>2, <1>3, <1>4, <1>5, ProposalWritten DEF VotesInv, old

LEMMA CancelProposalGoesOn ==
    ASSUME VotesInv, NEW u \in ballot.Users, NEW id \in DOMAIN s1,
           Votes!CancelProposal(u, id)
    PROVE  VotesInv'
<1> DEFINE old == s1[id]
           p == [old EXCEPT !.canceled = TRUE]
<1>1. old \in Proposal /\ FairProposal(old, s6)
  BY AProposal
<1>2. s2' = s2 /\ s3' = s3 /\ s4' = s4 /\ s5' = s5 /\ s6' = s6
  BY DEF Votes!CancelProposal
<1>3. s1' = [s1 EXCEPT ![id] = p]
  BY <1>1 DEF Votes!CancelProposal, VotesInv, VotesTyped, Proposal
<1> HIDE DEF old
<1>4. /\ p \in Proposal /\ p.votes = old.votes /\ p.executableAt = old.executableAt
      /\ p.executed = old.executed /\ p.action = old.action
  BY <1>1 DEF Proposal
<1> HIDE DEF p
<1>5. FairProposal(p, s6)
  BY <1>1, <1>4 DEF FairProposal
<1> QED BY <1>2, <1>3, <1>4, <1>5, ProposalWritten DEF VotesInv, old

\* What a proposal does to the settings: it keeps their fields, and the parameter unless
\* it is about the parameter.
LEMMA EffectOnParam ==
    ASSUME VotesTyped, NEW action \in Votes!Actions
    PROVE  /\ DOMAIN Votes!Effect(action) = DOMAIN s4
           /\ \/ Votes!Effect(action).param = s4.param
              \/ action = <<"UpdateGovParam", Votes!Effect(action).param>>
<1>1. DOMAIN s4 = {"admin", "paused", "param"}
  BY DEF VotesTyped
<1>2. CASE action = <<"PauseTrading">>
  <2>1. Votes!Effect(action) = [s4 EXCEPT !.paused = TRUE]
    BY <1>2 DEF Votes!Effect, Votes!IsAdmin, Votes!IsParam
  <2> QED BY <1>1, <2>1
<1>3. CASE action = <<"ResumeTrading">>
  <2>1. Votes!Effect(action) = [s4 EXCEPT !.paused = FALSE]
    BY <1>3 DEF Votes!Effect, Votes!IsAdmin, Votes!IsParam
  <2> QED BY <1>1, <2>1
<1>4. ASSUME NEW u \in ballot.NewAdmins, action = <<"SetAdmin", u>>
      PROVE  Votes!Effect(action) = [s4 EXCEPT !.admin = u]
  <2>1. /\ action # <<"PauseTrading">> /\ action # <<"ResumeTrading">>
        /\ Votes!IsAdmin(action) /\ ~Votes!IsParam(action) /\ action[2] = u
    BY <1>4 DEF Votes!IsAdmin, Votes!IsParam
  <2> QED BY <2>1 DEF Votes!Effect
<1>5. ASSUME NEW v \in ballot.Values, action = <<"UpdateGovParam", v>>
      PROVE  Votes!Effect(action) = [s4 EXCEPT !.param = v]
  <2>1. /\ action # <<"PauseTrading">> /\ action # <<"ResumeTrading">>
        /\ ~Votes!IsAdmin(action) /\ Votes!IsParam(action) /\ action[2] = v
    BY <1>5 DEF Votes!IsAdmin, Votes!IsParam
  <2> QED BY <2>1 DEF Votes!Effect
<1>6. CASE \E u \in ballot.NewAdmins : action = <<"SetAdmin", u>>
  BY <1>1, <1>4, <1>6
<1>7. CASE \E v \in ballot.Values : action = <<"UpdateGovParam", v>>
  BY <1>1, <1>5, <1>7
<1> QED BY <1>2, <1>3, <1>6, <1>7 DEF Votes!Actions

\* The tally is taken again, and a passed proposal has its time.
LEMMA ExecuteProposalGoesOn ==
    ASSUME VotesInv, NEW id \in DOMAIN s1, Votes!ExecuteProposal(id)
    PROVE  VotesInv'
<1> DEFINE old == s1[id]
           p == [old EXCEPT !.executed = TRUE]
           effect == Votes!Effect(old.action)
<1>1. old \in Proposal /\ FairProposal(old, s6)
  BY AProposal
<1>2. s2' = s2 /\ s3' = s3 /\ s4' = effect /\ s5' = s5 /\ s6' = s6
  BY DEF Votes!ExecuteProposal, Votes!Ran
<1>3. /\ s6 >= old.executableAt
      /\ Votes!QuorumReached(old.votes) /\ Votes!Approved(old.votes)
  BY DEF Votes!ExecuteProposal
<1>4. s1' = [s1 EXCEPT ![id] = p]
  BY <1>1 DEF Votes!ExecuteProposal, Votes!Ran, VotesInv, VotesTyped, Proposal
<1>5. /\ DOMAIN effect = DOMAIN s4
      /\ effect.param = s4.param \/ old.action = <<"UpdateGovParam", effect.param>>
  <2>1. old.action \in Votes!Actions
    BY <1>1 DEF Proposal
  <2> QED BY <2>1, EffectOnParam DEF VotesInv
<1> HIDE DEF old, effect
<1>6. /\ p \in Proposal /\ p.votes = old.votes /\ p.executableAt = old.executableAt
      /\ p.executed /\ p.action = old.action
  BY <1>1 DEF Proposal
<1> HIDE DEF p
<1>7. FairProposal(p, s6)
  <2>1. old.executableAt \in Nat /\ s6 \in Nat
    BY <1>1 DEF Proposal, VotesInv, VotesTyped
  <2> QED BY <1>1, <1>3, <1>6, <2>1 DEF FairProposal
<1>8. /\ VotesTyped' /\ ProposalsFair' /\ UpdatesFair'
      /\ s4'.param = s4.param => ParamAgreed'
      /\ id \in DOMAIN s1' /\ s1'[id] = p
  BY <1>2, <1>4, <1>5, <1>6, <1>7, ProposalWritten DEF old
<1>9. ParamAgreed'
  <2>1. CASE s4'.param = s4.param
    BY <1>8, <2>1
  <2>2. CASE old.action = <<"UpdateGovParam", effect.param>>
    BY <1>2, <1>6, <1>8, <2>2 DEF ParamAgreed
  <2> QED BY <1>2, <1>5, <2>1, <2>2
<1> QED BY <1>8, <1>9 DEF VotesInv

\* A step that leaves the proposals, the parameter and the clock, or lets time pass.
LEMMA VotesUntouched ==
    ASSUME VotesInv, UNCHANGED <<s1, s4>>, s6' \in {s6, s6 + 1},
           s3' \in [DOMAIN s3' -> ballot.Users], DOMAIN s3' \subseteq ballot.Users,
           s5' \in Nat, s5' >= ballot.MinDelay,
           s2' = s2
    PROVE  VotesInv'
<1>1. s6 \in Nat /\ s6' \in Nat /\ s6' >= s6
  BY DEF VotesInv, VotesTyped
<1>2. VotesTyped'
  BY <1>1 DEF VotesInv, VotesTyped
<1>3. ProposalsFair'
  <2>1. ASSUME NEW i \in DOMAIN s1 PROVE FairProposal(s1[i], s6')
    <3>1. FairProposal(s1[i], s6) /\ s1[i].executableAt \in Nat
      BY AProposal DEF Proposal
    <3> QED BY <1>1, <3>1 DEF FairProposal
  <2> QED BY <2>1 DEF ProposalsFair
<1>4. UpdatesFair'
  <2>1. ASSUME NEW i \in DOMAIN s2 PROVE FairUpdate(s2[i], s6')
    <3>1. s2 \in Seq(Update) /\ FairUpdate(s2[i], s6)
      BY DEF VotesInv, VotesTyped, UpdatesFair
    <3>2. s2[i] \in Update
      BY <3>1
    <3>3. s2[i].executableAt \in Nat
      BY <3>2 DEF Update
    <3> QED BY <1>1, <3>1, <3>3 DEF FairUpdate
  <2> QED BY <2>1 DEF UpdatesFair
<1>5. ParamAgreed'
  BY DEF VotesInv, ParamAgreed
<1> QED BY <1>2, <1>3, <1>4, <1>5 DEF VotesInv

LEMMA DelegationGoesOn ==
    ASSUME VotesInv,
           \/ \E u \in ballot.Users, d \in ballot.Delegates : Votes!DelegateVote(u, d)
           \/ \E u \in DOMAIN s3 : Votes!RevokeDelegation(u)
    PROVE  VotesInv'
<1>1. /\ DOMAIN s3 \subseteq ballot.Users /\ s3 \in [DOMAIN s3 -> ballot.Users]
      /\ s5 \in Nat /\ s5 >= ballot.MinDelay
  BY DEF VotesInv, VotesTyped
<1>2. ASSUME NEW u \in ballot.Users, NEW d \in ballot.Delegates, Votes!DelegateVote(u, d)
      PROVE  s3' \in [DOMAIN s3' -> ballot.Users] /\ DOMAIN s3' \subseteq ballot.Users
  <2>1. s3' = [v \in DOMAIN s3 \cup {u} |-> IF v = u THEN d ELSE s3[v]]
    BY <1>2 DEF Votes!DelegateVote
  <2> QED BY <1>1, <2>1, VotesNumbers
<1>3. ASSUME NEW u \in DOMAIN s3, Votes!RevokeDelegation(u)
      PROVE  s3' \in [DOMAIN s3' -> ballot.Users] /\ DOMAIN s3' \subseteq ballot.Users
  <2>1. s3' = [v \in DOMAIN s3 \ {u} |-> s3[v]]
    BY <1>3 DEF Votes!RevokeDelegation
  <2> QED BY <1>1, <2>1
<1>4. UNCHANGED <<s1, s2, s4, s5, s6>>
  BY DEF Votes!DelegateVote, Votes!RevokeDelegation
<1>5. s3' \in [DOMAIN s3' -> ballot.Users] /\ DOMAIN s3' \subseteq ballot.Users
  BY <1>2, <1>3
<1> QED BY <1>1, <1>4, <1>5, VotesUntouched

\* The delay and the clock.
LEMMA DelayGoesOn ==
    ASSUME VotesInv,
           \/ \E d \in ballot.Delays : Votes!SetTimelockDelay(d)
           \/ Votes!Tick
    PROVE  VotesInv'
<1>1. /\ DOMAIN s3 \subseteq ballot.Users /\ s3 \in [DOMAIN s3 -> ballot.Users]
      /\ s5 \in Nat /\ s5 >= ballot.MinDelay
  BY DEF VotesInv, VotesTyped
<1>2. s3' = s3 /\ UNCHANGED <<s1, s2, s4>> /\ s6' \in {s6, s6 + 1}
  BY DEF Votes!SetTimelockDelay, Votes!Tick
<1>3. s5' \in Nat /\ s5' >= ballot.MinDelay
  BY <1>1, VotesNumbers DEF Votes!SetTimelockDelay, Votes!Tick
<1> QED BY <1>1, <1>2, <1>3, VotesUntouched DEF VotesInv, VotesTyped

LEMMA ProposeUpdateGoesOn ==
    ASSUME VotesInv, NEW v \in ballot.Values, Votes!ProposeUpdate(v)
    PROVE  VotesInv'
<1> DEFINE u == [value |-> v, proposedAt |-> s6, executableAt |-> s6 + s5, executed |-> FALSE]
<1>1. s2' = Append(s2, u) /\ v \in ballot.ValidValues /\ UNCHANGED <<s1, s3, s4, s5, s6>>
  BY DEF Votes!ProposeUpdate
<1>2. s2 \in Seq(Update) /\ s5 \in Nat /\ s5 >= ballot.MinDelay /\ s6 \in Nat
  BY DEF VotesInv, VotesTyped
<1>3. u \in Update /\ FairUpdate(u, s6)
  BY <1>1, <1>2, VotesNumbers DEF Update, FairUpdate
<1> HIDE DEF u
<1>4. /\ s2' \in Seq(Update) /\ DOMAIN s2' = 1..(Len(s2) + 1) /\ s2'[Len(s2) + 1] = u
      /\ DOMAIN s2 = 1..Len(s2) /\ Len(s2) \in Nat
      /\ \A i \in 1..Len(s2) : s2'[i] = s2[i]
  BY <1>1, <1>2, <1>3
<1>5. VotesTyped' /\ ProposalsFair'
  BY <1>1, <1>4 DEF VotesInv, VotesTyped, ProposalsFair
<1>6. UpdatesFair'
  <2>1. ASSUME NEW i \in DOMAIN s2' PROVE FairUpdate(s2'[i], s6')
    <3>1. CASE i \in DOMAIN s2
      BY <1>1, <1>4, <3>1 DEF VotesInv, UpdatesFair
    <3>2. CASE i \notin DOMAIN s2
      <4>1. s2'[i] = u
        BY <1>4, <3>2
      <4> QED BY <1>1, <1>3, <4>1
    <3> QED BY <3>1, <3>2
  <2> QED BY <2>1 DEF UpdatesFair
<1>7. ParamAgreed'
  <2>1. \A i \in DOMAIN s1 : /\ i \in DOMAIN s1' /\ s1'[i].action = s1[i].action
                             /\ s1[i].executed => s1'[i].executed
    BY <1>1
  <2>2. \A i \in DOMAIN s2 : /\ i \in DOMAIN s2' /\ s2'[i].value = s2[i].value
                             /\ s2[i].executed => s2'[i].executed
    BY <1>4
  <2> QED BY <1>1, <2>1, <2>2, AgreedStays DEF VotesInv
<1> QED BY <1>5, <1>6, <1>7 DEF VotesInv

LEMMA ExecuteUpdateGoesOn ==
    ASSUME VotesInv, NEW id \in DOMAIN s2, Votes!ExecuteUpdate(id)
    PROVE  VotesInv'
<1> DEFINE old == s2[id]
           u == [old EXCEPT !.executed = TRUE]
<1>1. s2 \in Seq(Update) /\ FairUpdate(old, s6) /\ DOMAIN s4 = {"admin", "paused", "param"}
  BY DEF VotesInv, VotesTyped, UpdatesFair
<1>2. old \in Update
  BY <1>1
<1>3. /\ s6 >= old.executableAt /\ s4' = [s4 EXCEPT !.param = old.value]
      /\ UNCHANGED <<s1, s3, s5, s6>>
  BY DEF Votes!ExecuteUpdate
<1>4. s2' = [s2 EXCEPT ![id] = u]
  BY <1>1, <1>2 DEF Votes!ExecuteUpdate, Update
<1> HIDE DEF old
<1>5. u \in Update /\ u.executed /\ u.value = old.value
      /\ u.proposedAt = old.proposedAt /\ u.executableAt = old.executableAt
  BY <1>2 DEF Update
<1> HIDE DEF u
<1>6. FairUpdate(u, s6)
  <2>1. old.executableAt \in Nat /\ s6 \in Nat
    BY <1>2 DEF Update, VotesInv, VotesTyped
  <2> QED BY <1>1, <1>3, <1>5, <2>1 DEF FairUpdate
<1>7. /\ s2' \in Seq(Update) /\ DOMAIN s2' = DOMAIN s2 /\ s2'[id] = u
      /\ \A i \in DOMAIN s2 : i # id => s2'[i] = s2[i]
  BY <1>1, <1>4, <1>5
<1>8. s4'.param = old.value /\ DOMAIN s4' = DOMAIN s4
  BY <1>1, <1>3
<1>9. VotesTyped' /\ ProposalsFair'
  BY <1>3, <1>7, <1>8 DEF VotesInv, VotesTyped, ProposalsFair
<1>10. UpdatesFair'
  <2>1. ASSUME NEW i \in DOMAIN s2' PROVE FairUpdate(s2'[i], s6')
    BY <1>3, <1>6, <1>7 DEF VotesInv, UpdatesFair
  <2> QED BY <2>1 DEF UpdatesFair
<1>11. ParamAgreed'
  BY <1>5, <1>7, <1>8 DEF ParamAgreed
<1> QED BY <1>9, <1>10, <1>11 DEF VotesInv

LEMMA VotesGoOn ==
    ASSUME SilenceIsNoQuorum, VotesInv, Votes!Next
    PROVE  VotesInv'
<1>1. ASSUME NEW u \in ballot.Users, NEW id \in DOMAIN s1,
             Votes!SignProposal(u, id) \/ Votes!ApproveProposal(u, id)
      PROVE  Votes!Signed(u, id)
  BY <1>1 DEF Votes!SignProposal, Votes!ApproveProposal
<1> QED
  BY <1>1, CreateProposalGoesOn, CastVoteGoesOn, SignedGoesOn, CancelProposalGoesOn,
     ExecuteProposalGoesOn, DelegationGoesOn, DelayGoesOn, ProposeUpdateGoesOn,
     ExecuteUpdateGoesOn DEF Votes!Next

LEMMA NothingEarly ==
    ASSUME VotesInv
    PROVE  Votes!NothingRunsEarly
<1>1. ASSUME NEW i \in DOMAIN s1, s1[i].executed
      PROVE  s1[i].executableAt \in ballot.VoteTimelock..s6
  <2>1. s1[i].executableAt \in Nat /\ s6 \in Nat /\ ballot.VoteTimelock \in Nat
    BY AProposal, VotesNumbers DEF Proposal, VotesInv, VotesTyped
  <2>2. FairProposal(s1[i], s6)
    BY AProposal
  <2> QED BY <1>1, <2>1, <2>2 DEF FairProposal
<1>2. ASSUME NEW i \in DOMAIN s2, s2[i].executed
      PROVE  s2[i].proposedAt + ballot.MinDelay <= s6
  <2>1. s2 \in Seq(Update) /\ s6 \in Nat /\ FairUpdate(s2[i], s6)
    BY DEF VotesInv, VotesTyped, UpdatesFair
  <2>2. s2[i] \in Update
    BY <2>1
  <2>3. s2[i].proposedAt \in Nat /\ s2[i].executableAt \in Nat /\ ballot.MinDelay \in Nat
    BY <2>2, VotesNumbers DEF Update
  <2> QED BY <1>2, <2>1, <2>3 DEF FairUpdate
<1> QED BY <1>1, <1>2 DEF Votes!NothingRunsEarly, VotesInv, ParamAgreed, Votes!NoValue

\* NothingRunsEarly, for every set of voters, balances, delays and thresholds under which
\* a proposal without a vote does not pass.
THEOREM NothingRunsEarlyAlways ==
    ASSUME SilenceIsNoQuorum
    PROVE  CoreSpec => []NothingRunsEarly
<1> DEFINE Inv == part = "votes" => VotesInv
<1>1. CoreInit => Inv
  BY PartBegins, VotesBegin DEF InVotes
<1>2. Inv /\ [CoreNext]_vars => Inv'
  <2>1. ASSUME Inv, CoreNext PROVE Inv'
    BY <2>1, PartGoesOn, VotesGoOn DEF VotesStep
  <2>2. ASSUME Inv, UNCHANGED vars PROVE Inv'
    BY <2>2, NothingMoves DEF VotesInv, VotesTyped, ProposalsFair, UpdatesFair, ParamAgreed
  <2> QED BY <2>1, <2>2
<1>3. Inv => NothingRunsEarly
  BY NothingEarly DEF NothingRunsEarly
<1> QED BY <1>1, <1>2, <1>3, PTL DEF CoreSpec

-----------------------------------------------------------------------------
(* The treasury.                                                           *)

LEMMA CoffersConstants ==
    /\ coffers.Amounts \subseteq Nat \ {0} /\ coffers.Limits \subseteq Nat
    /\ coffers.Period \in Nat
<1>1. Coffers!TreasuryAssumption
  BY CoreAssumption
<1> QED BY <1>1 DEF Coffers!TreasuryAssumption

Payment == [at : Nat, amount : Nat]

\* What a list of payments says left in a span.
Within(p, from, to) == IF p.at \in from..to THEN p.amount ELSE 0
Spent(list, from, to) == Total([i \in 1..Len(list) |-> Within(list[i], from, to)], Len(list))

\* The entries of a list of payments.
LEMMA PaymentFacts ==
    ASSUME NEW list \in Seq(Payment)
    PROVE  /\ Len(list) \in Nat /\ DOMAIN list = 1..Len(list)
           /\ \A i \in 1..Len(list) : list[i] \in Payment /\ list[i].at \in Nat /\ list[i].amount \in Nat
<1>1. \A p \in Payment : p.at \in Nat /\ p.amount \in Nat
  BY DEF Payment
<1>2. Len(list) \in Nat /\ DOMAIN list = 1..Len(list) /\ \A i \in DOMAIN list : list[i] \in Payment
  BY ItsEntries
<1> QED BY <1>1, <1>2

\* What left in a span is a number.
LEMMA SpentNat ==
    ASSUME NEW list \in Seq(Payment), NEW a \in Int, NEW b \in Int
    PROVE  Spent(list, a, b) \in Nat
<1> DEFINE f == [i \in 1..Len(list) |-> Within(list[i], a, b)]
<1>1. \A i \in 1..Len(list) : f[i] \in Nat
  BY PaymentFacts DEF Within
<1>2. Len(list) \in Nat
  OBVIOUS
<1> HIDE DEF f
<1>3. Total(f, Len(list)) \in Nat
  BY <1>1, <1>2, TotalDominates
<1> QED BY <1>3 DEF Spent, f

\* The payments of a span that all lie in two others, or in one.
Reaches(list, a, b, c, d, e, w) ==
    \A i \in 1..Len(list) : list[i].at \in a..b => list[i].at \in c..d \/ list[i].at \in e..w
Inside(list, a, b, c, d) == \A i \in 1..Len(list) : list[i].at \in a..b => list[i].at \in c..d

LEMMA SpentBelow ==
    ASSUME NEW list \in Seq(Payment), NEW a \in Int, NEW b \in Int, NEW c \in Int, NEW d \in Int,
           NEW e \in Int, NEW w \in Int,
           Reaches(list, a, b, c, d, e, w)
    PROVE  Spent(list, a, b) <= Spent(list, c, d) + Spent(list, e, w)
<1> DEFINE h == [i \in 1..Len(list) |-> Within(list[i], a, b)]
           f == [i \in 1..Len(list) |-> Within(list[i], c, d)]
           g == [i \in 1..Len(list) |-> Within(list[i], e, w)]
<1>1. \A i \in 1..Len(list) : list[i].at \in Nat /\ list[i].amount \in Nat
  BY PaymentFacts
<1>2. \A i \in 1..Len(list) : f[i] \in Int /\ g[i] \in Int /\ h[i] \in Int /\ h[i] <= f[i] + g[i]
  BY <1>1 DEF Within, Reaches
<1>3. Len(list) \in Nat
  OBVIOUS
<1> HIDE DEF f, g, h
<1>4. Total(h, Len(list)) <= Total(f, Len(list)) + Total(g, Len(list))
  BY <1>2, <1>3, TotalBelow
<1> QED BY <1>4 DEF Spent, f, g, h

LEMMA SpentInside ==
    ASSUME NEW list \in Seq(Payment), NEW a \in Int, NEW b \in Int, NEW c \in Int, NEW d \in Int,
           Inside(list, a, b, c, d)
    PROVE  Spent(list, a, b) <= Spent(list, c, d)
<1> DEFINE h == [i \in 1..Len(list) |-> Within(list[i], a, b)]
           f == [i \in 1..Len(list) |-> Within(list[i], c, d)]
<1>1. \A i \in 1..Len(list) : list[i].at \in Nat /\ list[i].amount \in Nat
  BY PaymentFacts
<1>2. \A i \in 1..Len(list) : f[i] \in Int /\ h[i] \in Int /\ h[i] <= f[i]
  BY <1>1 DEF Within, Inside
<1>3. Len(list) \in Nat
  OBVIOUS
<1> HIDE DEF f, h
<1>4. Total(h, Len(list)) <= Total(f, Len(list))
  BY <1>2, <1>3, TotalOrder
<1> QED BY <1>4 DEF Spent, f, h

\* One more payment counts in the spans it lies in.
LEMMA SpentMore ==
    ASSUME NEW list \in Seq(Payment), NEW p \in Payment, NEW a \in Int, NEW b \in Int
    PROVE  Spent(Append(list, p), a, b) = Spent(list, a, b) + Within(p, a, b)
<1> DEFINE n == Len(list)
           q == Append(list, p)
           f == [i \in 1..n |-> Within(list[i], a, b)]
           g == [i \in 1..(n + 1) |-> Within(q[i], a, b)]
<1>1. n \in Nat /\ Len(q) = n + 1 /\ q[n + 1] = p /\ \A i \in 1..n : q[i] = list[i]
  BY AppendProperties
<1>2. Spent(q, a, b) = Total(g, n + 1) /\ Spent(list, a, b) = Total(f, n)
  BY <1>1 DEF Spent
<1>3. \A i \in 1..n : list[i].amount \in Nat
  BY PaymentFacts
<1>7. p.amount \in Nat
  BY DEF Payment
<1> HIDE DEF q, n
<1>4. \A i \in 1..(n + 1) : g[i] \in Int
  <2> SUFFICES ASSUME NEW i \in 1..(n + 1) PROVE Within(q[i], a, b) \in Int
    OBVIOUS
  <2>1. q[i].amount \in Nat
    <3>1. CASE i = n + 1
      BY <1>1, <1>7, <3>1
    <3>2. CASE i \in 1..n
      BY <1>1, <1>3, <3>2
    <3> QED BY <1>1, <3>1, <3>2
  <2> QED BY <2>1 DEF Within
<1>5. g[n + 1] = Within(p, a, b) /\ \A i \in 1..n : f[i] \in Int /\ g[i] = f[i]
  BY <1>1, <1>3 DEF Within
<1> HIDE DEF f, g
<1>6. Total(g, n + 1) = Total(g, n) + g[n + 1] /\ Total(g, n) = Total(f, n)
  BY <1>1, <1>4, <1>5, TotalStep, TotalSame
<1> QED BY <1>2, <1>5, <1>6 DEF q

-----------------------------------------------------------------------------
Limit == [max : Nat, spent : Nat, start : Nat]

\* The payments under a limit l: those of its present period are what it counts, those
\* before it in reach of one span belong to the period before.
Counted(l, list) ==
    /\ l.spent <= l.max
    /\ \A i \in 1..Len(list) : list[i].at <= l.start + coffers.Period
    /\ Spent(list, l.start, l.start + coffers.Period) <= l.spent
    /\ Spent(list, l.start - coffers.Period, l.start - 1) <= l.max

\* No span of a period has more than twice the limit.
Capped(l, list) == \A t \in Int : Spent(list, t, t + coffers.Period) <= 2 * l.max

\* The spans that reach into the present period.
LEMMA CountedCapped ==
    ASSUME NEW l \in Limit, NEW list \in Seq(Payment), Counted(l, list),
           NEW t \in Int, t + coffers.Period >= l.start
    PROVE  Spent(list, t, t + coffers.Period) <= 2 * l.max
<1> DEFINE p == coffers.Period
           a == l.start
<1>1. p \in Nat /\ a \in Nat /\ l.max \in Nat /\ l.spent \in Nat
  BY CoffersConstants DEF Limit
<1>2. \A i \in 1..Len(list) : list[i].at \in Nat /\ list[i].at <= a + p
  BY PaymentFacts DEF Counted
<1>3. t + p >= a
  OBVIOUS
<1>4. Spent(list, a, a + p) <= l.spent /\ Spent(list, a - p, a - 1) <= l.max /\ l.spent <= l.max
  BY DEF Counted
<1> SUFFICES Spent(list, t, t + p) <= 2 * l.max
  OBVIOUS
<1> HIDE DEF p, a
<1>5. Reaches(list, t, t + p, a - p, a - 1, a, a + p)
  BY <1>1, <1>2, <1>3 DEF Reaches
<1>6. t + p \in Int /\ a - p \in Int /\ a - 1 \in Int /\ a + p \in Int
  BY <1>1
<1>7. Spent(list, t, t + p) <= Spent(list, a - p, a - 1) + Spent(list, a, a + p)
  BY <1>1, <1>5, <1>6, SpentBelow
<1>8. /\ Spent(list, t, t + p) \in Nat /\ Spent(list, a - p, a - 1) \in Nat
      /\ Spent(list, a, a + p) \in Nat
  BY <1>1, <1>6, SpentNat
<1> QED BY <1>1, <1>4, <1>7, <1>8


\* The limit after a payment: in its period, or as the first of a new one.
SamePeriod(l, list, now, amount) ==
    /\ now <= l.start + coffers.Period /\ l.start <= now /\ l.spent + amount <= l.max
NewPeriod(l, list, now, amount) == now > l.start + coffers.Period /\ amount <= l.max

Paid(now, amount) == [at |-> now, amount |-> amount]

\* The list with a payment more.
LEMMA PaidMore ==
    ASSUME NEW list \in Seq(Payment), NEW now \in Nat, NEW amount \in Nat, NEW top \in Int,
           \A i \in 1..Len(list) : list[i].at <= top, now <= top
    PROVE  /\ Append(list, Paid(now, amount)) \in Seq(Payment)
           /\ \A i \in 1..Len(Append(list, Paid(now, amount))) :
                 Append(list, Paid(now, amount))[i].at <= top
           /\ \A a \in Int, b \in Int : Spent(Append(list, Paid(now, amount)), a, b)
                 = Spent(list, a, b) + (IF now \in a..b THEN amount ELSE 0)
<1> DEFINE e == Paid(now, amount)
           new == Append(list, e)
<1>1. e \in Payment /\ e.at = now /\ e.amount = amount
  BY DEF Payment, Paid
<1> HIDE DEF e
<1>2. /\ new \in Seq(Payment) /\ Len(new) = Len(list) + 1 /\ new[Len(list) + 1] = e
      /\ \A i \in 1..Len(list) : new[i] = list[i]
  BY <1>1, AppendProperties
<1>3. Len(list) \in Nat /\ \A i \in 1..Len(list) : list[i].at <= top
  OBVIOUS
<1>4. \A a \in Int, b \in Int : Spent(new, a, b) = Spent(list, a, b) + Within(e, a, b)
  BY <1>1, SpentMore
<1>5. \A a, b : Within(e, a, b) = IF now \in a..b THEN amount ELSE 0
  BY <1>1 DEF Within
<1> HIDE DEF new
<1>6. \A i \in 1..Len(new) : new[i].at <= top
  <2> SUFFICES ASSUME NEW i \in 1..Len(new) PROVE new[i].at <= top
    OBVIOUS
  <2>1. CASE i = Len(list) + 1
    BY <1>1, <1>2, <2>1
  <2>2. CASE i \in 1..Len(list)
    BY <1>2, <1>3, <2>2
  <2> QED BY <1>2, <1>3, <2>1, <2>2
<1>7. \A a \in Int, b \in Int : Spent(new, a, b) = Spent(list, a, b) + (IF now \in a..b THEN amount ELSE 0)
  BY <1>4, <1>5
<1> QED BY <1>2, <1>6, <1>7 DEF new, e

LEMMA PaidInPeriod ==
    ASSUME NEW l \in Limit, NEW list \in Seq(Payment), Counted(l, list),
           NEW now \in Nat, NEW amount \in Nat, SamePeriod(l, list, now, amount),
           NEW m \in Limit, m.max = l.max, m.start = l.start, m.spent = l.spent + amount
    PROVE  Counted(m, Append(list, Paid(now, amount)))
<1> DEFINE p == coffers.Period
           a == l.start
           new == Append(list, Paid(now, amount))
<1>1. /\ p \in Nat /\ a \in Nat /\ l.max \in Nat /\ l.spent \in Nat
  BY CoffersConstants DEF Limit
<1>2. now <= a + p /\ a <= now /\ l.spent + amount <= l.max
  BY DEF SamePeriod
<1>3. /\ Spent(list, a, a + p) <= l.spent /\ Spent(list, a - p, a - 1) <= l.max
      /\ \A i \in 1..Len(list) : list[i].at <= a + p
  BY DEF Counted
<1>4. a + p \in Int /\ a - p \in Int /\ a - 1 \in Int
  BY <1>1
<1>5. Spent(list, a, a + p) \in Nat /\ Spent(list, a - p, a - 1) \in Nat
  BY <1>1, <1>4, SpentNat
<1>6. /\ \A i \in 1..Len(new) : new[i].at <= a + p
      /\ \A b \in Int, c \in Int : Spent(new, b, c) = Spent(list, b, c) + (IF now \in b..c THEN amount ELSE 0)
  BY <1>2, <1>3, <1>4, PaidMore
<1> HIDE DEF new, a, p
<1>7. /\ Spent(new, a, a + p) = Spent(list, a, a + p) + (IF now \in a..(a + p) THEN amount ELSE 0)
      /\ Spent(new, a - p, a - 1) = Spent(list, a - p, a - 1) + (IF now \in (a - p)..(a - 1) THEN amount ELSE 0)
  BY <1>1, <1>4, <1>6
<1>8. Spent(new, a, a + p) <= m.spent /\ Spent(new, a - p, a - 1) <= m.max /\ m.spent <= m.max
  BY <1>1, <1>2, <1>3, <1>5, <1>7
<1>9. m.start = a /\ m.max = l.max
  BY DEF a
<1> QED BY <1>6, <1>8, <1>9 DEF Counted, new, p, a

LEMMA PaidFirst ==
    ASSUME NEW l \in Limit, NEW list \in Seq(Payment), Counted(l, list),
           NEW now \in Nat, NEW amount \in Nat, NewPeriod(l, list, now, amount),
           NEW m \in Limit, m.max = l.max, m.start = now, m.spent = amount
    PROVE  Counted(m, Append(list, Paid(now, amount)))
<1> DEFINE p == coffers.Period
           a == l.start
           new == Append(list, Paid(now, amount))
<1>1. /\ p \in Nat /\ a \in Nat /\ l.max \in Nat /\ l.spent \in Nat
  BY CoffersConstants DEF Limit
<1>2. now > a + p /\ amount <= l.max
  BY DEF NewPeriod
<1>3. /\ Spent(list, a, a + p) <= l.spent /\ l.spent <= l.max
      /\ \A i \in 1..Len(list) : list[i].at \in Nat /\ list[i].at <= a + p
  BY PaymentFacts DEF Counted
<1>4. /\ a + p \in Int /\ now - p \in Int /\ now - 1 \in Int /\ now + p \in Int
  BY <1>1
<1>5. Spent(list, a, a + p) \in Nat /\ Spent(list, now - p, now - 1) \in Nat
  <2> DEFINE b == a + p
             c == now - p
             d == now - 1
  <2>1. list \in Seq(Payment) /\ a \in Int /\ b \in Int /\ c \in Int /\ d \in Int
    BY <1>1, <1>4
  <2> HIDE DEF b, c, d
  <2>2. Spent(list, a, b) \in Nat /\ Spent(list, c, d) \in Nat
    BY ONLY <2>1, SpentNat
  <2> QED BY ONLY <2>2 DEF b, c, d
<1>6. Spent(list, now, now + p) = 0
  <2> DEFINE f == [i \in 1..Len(list) |-> Within(list[i], now, now + p)]
  <2>1. \A i \in 1..Len(list) : f[i] = 0
    BY <1>1, <1>2, <1>3 DEF Within
  <2>2. Len(list) \in Nat
    OBVIOUS
  <2> HIDE DEF f
  <2>3. Total(f, Len(list)) = 0
    BY <2>1, <2>2, TotalOfZeros
  <2> QED BY <2>3 DEF Spent, f
<1>7. Spent(list, now - p, now - 1) <= Spent(list, a, a + p)
  <2>1. Inside(list, now - p, now - 1, a, a + p)
    BY <1>1, <1>2, <1>3 DEF Inside
  <2> HIDE DEF p, a
  <2> QED BY <1>1, <1>4, <2>1, SpentInside
<1>8. /\ \A i \in 1..Len(new) : new[i].at <= now + p
      /\ \A b \in Int, c \in Int : Spent(new, b, c) = Spent(list, b, c) + (IF now \in b..c THEN amount ELSE 0)
  <2>1. \A i \in 1..Len(list) : list[i].at <= now + p
    BY <1>1, <1>2, <1>3
  <2>2. now <= now + p
    BY <1>1
  <2> DEFINE top == now + p
  <2>3. top \in Int /\ now <= top /\ \A i \in 1..Len(list) : list[i].at <= top
    BY <1>4, <2>1, <2>2
  <2> SUFFICES /\ \A i \in 1..Len(new) : new[i].at <= top
               /\ \A b \in Int, c \in Int : Spent(new, b, c)
                     = Spent(list, b, c) + (IF now \in b..c THEN amount ELSE 0)
    OBVIOUS
  <2>4. list \in Seq(Payment) /\ now \in Nat /\ amount \in Nat
    OBVIOUS
  <2> HIDE DEF p, a, top
  <2> QED BY ONLY <2>3, <2>4, PaidMore
<1> HIDE DEF new, a, p
<1>9. /\ Spent(new, now, now + p) = Spent(list, now, now + p) + (IF now \in now..(now + p) THEN amount ELSE 0)
      /\ Spent(new, now - p, now - 1) = Spent(list, now - p, now - 1)
            + (IF now \in (now - p)..(now - 1) THEN amount ELSE 0)
  BY <1>4, <1>8
<1>10. Spent(new, now, now + p) <= m.spent /\ Spent(new, now - p, now - 1) <= m.max /\ m.spent <= m.max
  BY <1>1, <1>2, <1>3, <1>5, <1>6, <1>7, <1>9
<1> QED BY <1>8, <1>10 DEF Counted, new, p

\* Whatever the limit, its spans stay capped.
LEMMA PaidCapped ==
    ASSUME NEW l \in Limit, NEW list \in Seq(Payment), Capped(l, list),
           NEW now \in Nat, NEW amount \in Nat, NEW m \in Limit, m.max = l.max, m.start <= now,
           Append(list, Paid(now, amount)) \in Seq(Payment),
           \A b \in Int, c \in Int : Spent(Append(list, Paid(now, amount)), b, c)
                 = Spent(list, b, c) + (IF now \in b..c THEN amount ELSE 0),
           Counted(m, Append(list, Paid(now, amount)))
    PROVE  Capped(m, Append(list, Paid(now, amount)))
<1> DEFINE p == coffers.Period
           new == Append(list, Paid(now, amount))
<1>1. p \in Nat /\ m.start \in Nat /\ m.max \in Nat
  BY CoffersConstants DEF Limit
<1>2. \A b \in Int, c \in Int : Spent(new, b, c) = Spent(list, b, c) + (IF now \in b..c THEN amount ELSE 0)
  OBVIOUS
<1>3. new \in Seq(Payment) /\ Counted(m, new)
  OBVIOUS
<1> SUFFICES ASSUME NEW t \in Int PROVE Spent(new, t, t + p) <= 2 * m.max
  BY DEF Capped
<1> HIDE DEF new
<1>4. CASE t + p >= m.start
  BY <1>3, <1>4, CountedCapped
<1>5. CASE t + p < m.start
  <2>1. t + p \in Int /\ ~(now \in t..(t + p))
    BY <1>1, <1>5
  <2>2. Spent(list, t, t + p) <= 2 * l.max
    BY DEF Capped
  <2>3. Spent(list, t, t + p) \in Nat
    BY <2>1, SpentNat
  <2>4. Spent(new, t, t + p) = Spent(list, t, t + p) + 0
    <3> HIDE DEF p
    <3> QED BY <1>2, <2>1
  <2> QED BY <2>2, <2>3, <2>4
<1> QED BY <1>1, <1>4, <1>5

-----------------------------------------------------------------------------
\* The treasury: the balance is what came in without what left; proposals ask for amounts;
\* payments are counted under the limit.
IsRequest(p) ==
    /\ DOMAIN p = {"emergency", "amount", "expires", "approvals", "required", "status"}
    /\ p.amount \in coffers.Amounts
Requests(q) == q = <<>> \/ (DOMAIN q = {1} /\ IsRequest(q[1]))

LimitInv(limit, payments, now) ==
    limit = <<>> \/ \E l \in Limit : /\ limit = <<l>> /\ l.start <= now
                                     /\ Counted(l, payments) /\ Capped(l, payments)

FundsInv ==
    /\ s2 \in Int /\ s3 \in Int /\ s1 = s2 - s3 /\ s9 \in Nat /\ s8 \in Seq(Payment)
    /\ s7 = [id \in coffers.ProposalIds |-> s7[id]]
    /\ \A id \in coffers.ProposalIds : Requests(s7[id])
    /\ LimitInv(s6, s8, s9)

LEMMA FundsBegin ==
    ASSUME Coffers!Init
    PROVE  FundsInv
<1>1. <<>> \in Seq(Payment)
  OBVIOUS
<1>2. /\ s1 = 0 /\ s2 = 0 /\ s3 = 0 /\ s6 = <<>> /\ s8 = <<>> /\ s9 = 1
      /\ s7 = [id \in coffers.ProposalIds |-> <<>>]
  BY DEF Coffers!Init
<1>3. LimitInv(s6, s8, s9)
  BY <1>2 DEF LimitInv
<1> QED BY <1>1, <1>2, <1>3 DEF FundsInv, Requests

\* A list of payments to which a new limit applies.
LEMMA NothingPaid ==
    ASSUME NEW max \in Nat, NEW now \in Nat
    PROVE  LimitInv(<<[max |-> max, spent |-> 0, start |-> now]>>, <<>>, now)
<1> DEFINE l == [max |-> max, spent |-> 0, start |-> now]
<1>1. l \in Limit /\ l.max = max /\ l.spent = 0 /\ l.start = now
  BY DEF Limit
<1>2. <<>> \in Seq(Payment) /\ Len(<<>>) = 0
  OBVIOUS
<1>3. \A a, b : Spent(<<>>, a, b) = 0
  <2> SUFFICES ASSUME NEW a, NEW b PROVE Total([i \in 1..0 |-> Within(<<>>[i], a, b)], 0) = 0
    BY <1>2 DEF Spent
  <2> QED BY TotalEmpty
<1> HIDE DEF l
<1>4. Counted(l, <<>>)
  BY <1>1, <1>2, <1>3 DEF Counted
<1>5. Capped(l, <<>>)
  BY <1>1, <1>3 DEF Capped
<1>6. l.start <= now
  BY <1>1
<1>7. LimitInv(<<l>>, <<>>, now)
  BY <1>1, <1>4, <1>5, <1>6 DEF LimitInv
<1> QED BY <1>7 DEF l

\* A payment the limit left room for.
LEMMA RecordedSpend ==
    ASSUME NEW l \in Limit, NEW list \in Seq(Payment), NEW amount \in Nat \ {0},
           s9 \in Nat, l.start <= s9, Counted(l, list), Capped(l, list),
           amount <= Coffers!Remaining(l)
    PROVE  LimitInv(<<Coffers!RecordSpend(l, amount)>>, Append(list, Paid(s9, amount)), s9)
<1> DEFINE m == Coffers!RecordSpend(l, amount)
           new == Append(list, Paid(s9, amount))
<1>1. coffers.Period \in Nat /\ l.max \in Nat /\ l.spent \in Nat /\ l.start \in Nat
  BY CoffersConstants DEF Limit
<1>2. DOMAIN l = {"max", "spent", "start"}
  BY DEF Limit
<1>3. \A i \in 1..Len(list) : list[i].at <= l.start + coffers.Period
  BY DEF Counted
<1>4. CASE s9 <= l.start + coffers.Period
  <2>1. m = [l EXCEPT !.spent = @ + amount]
    BY <1>1, <1>4 DEF Coffers!RecordSpend
  <2>2. /\ m.max = l.max /\ m.start = l.start /\ m.spent = l.spent + amount
        /\ m = [max |-> l.max, spent |-> l.spent + amount, start |-> l.start]
    BY <1>2, <2>1
  <2>3. l.spent + amount <= l.max
    BY <1>1, <1>4 DEF Coffers!Remaining
  <2> HIDE DEF m
  <2>4. m \in Limit
    BY <1>1, <2>2 DEF Limit
  <2>5. SamePeriod(l, list, s9, amount)
    BY <1>4, <2>3 DEF SamePeriod
  <2>6. Counted(m, new)
    BY <2>2, <2>4, <2>5, PaidInPeriod
  <2>7. l.start + coffers.Period \in Int
    BY <1>1
  <2>8. /\ new \in Seq(Payment)
        /\ \A b \in Int, c \in Int : Spent(new, b, c) = Spent(list, b, c) + (IF s9 \in b..c THEN amount ELSE 0)
    BY <1>3, <1>4, <2>7, PaidMore
  <2>9. Capped(m, new)
    BY <2>2, <2>4, <2>6, <2>8, PaidCapped
  <2>10. m.start <= s9
    BY <2>2
  <2> QED BY <2>4, <2>6, <2>9, <2>10 DEF LimitInv, m
<1>5. CASE s9 > l.start + coffers.Period
  <2>1. m = [l EXCEPT !.start = s9, !.spent = amount]
    BY <1>5 DEF Coffers!RecordSpend
  <2>2. /\ m.max = l.max /\ m.start = s9 /\ m.spent = amount
        /\ m = [max |-> l.max, spent |-> amount, start |-> s9]
    BY <1>2, <2>1
  <2>3. amount <= l.max
    BY <1>5 DEF Coffers!Remaining
  <2> HIDE DEF m
  <2>4. m \in Limit
    BY <1>1, <2>2 DEF Limit
  <2>5. NewPeriod(l, list, s9, amount)
    BY <1>5, <2>3 DEF NewPeriod
  <2>6. Counted(m, new)
    BY <2>2, <2>4, <2>5, PaidFirst
  <2>7. \A i \in 1..Len(list) : list[i].at <= s9
    <3>1. \A i \in 1..Len(list) : list[i].at \in Nat
      BY PaymentFacts
    <3> QED BY <1>1, <1>3, <1>5, <3>1
  <2>8. /\ new \in Seq(Payment)
        /\ \A b \in Int, c \in Int : Spent(new, b, c) = Spent(list, b, c) + (IF s9 \in b..c THEN amount ELSE 0)
    BY <2>7, PaidMore
  <2>9. m.start <= s9
    BY <2>2
  <2>10. Capped(m, new)
    BY <2>2, <2>4, <2>6, <2>8, <2>9, PaidCapped
  <2> QED BY <2>4, <2>6, <2>9, <2>10 DEF LimitInv, m
<1> QED BY <1>1, <1>4, <1>5

\* Time passes: the periods stay.
LEMMA LimitLasts ==
    ASSUME NEW limit, NEW payments, NEW now \in Nat, LimitInv(limit, payments, now)
    PROVE  LimitInv(limit, payments, now + 1)
<1>1. CASE limit = <<>>
  BY <1>1 DEF LimitInv
<1>2. ASSUME NEW l \in Limit, limit = <<l>>, l.start <= now, Counted(l, payments), Capped(l, payments)
      PROVE  LimitInv(limit, payments, now + 1)
  <2>1. l.start <= now + 1
    BY <1>2 DEF Limit
  <2> QED BY <1>2, <2>1 DEF LimitInv
<1> QED BY <1>1, <1>2 DEF LimitInv

LEMMA PayProposalGoesOn ==
    ASSUME FundsInv, NEW id \in coffers.ProposalIds, Coffers!ExecuteProposal(id)
    PROVE  FundsInv'
<1> DEFINE p == s7[id][1]
           amount == p.amount
<1>1. Requests(s7[id])
  BY DEF FundsInv
<1>2. /\ s7[id] # <<>> /\ Coffers!CheckSpendingLimit(amount)
      /\ s1' = s1 - amount /\ s3' = s3 + amount /\ s2' = s2 /\ s9' = s9
      /\ s6' = [i \in DOMAIN s6 |-> Coffers!RecordSpend(s6[i], amount)]
      /\ s7' = [s7 EXCEPT ![id][1].status = "Executed"]
      /\ s8' = Append(s8, [at |-> s9, amount |-> amount])
  BY DEF Coffers!ExecuteProposal, Coffers!proposal, Coffers!Exists
<1>3. DOMAIN s7[id] = {1} /\ IsRequest(p)
  BY <1>1, <1>2 DEF Requests
<1>4. amount \in Nat \ {0}
  BY <1>3, CoffersConstants DEF IsRequest
<1>5. s8 \in Seq(Payment) /\ s9 \in Nat
  BY DEF FundsInv
<1>6. s8' = Append(s8, Paid(s9, amount))
  BY <1>2 DEF Paid
<1>7. s8' \in Seq(Payment)
  <2>1. Paid(s9, amount) \in Payment
    BY <1>4, <1>5 DEF Paid, Payment
  <2> HIDE DEF amount
  <2> QED BY <1>5, <1>6, <2>1, AppendProperties
<1>8. LimitInv(s6, s8, s9)' 
  <2>1. CASE s6 = <<>>
    <3>1. s6' = <<>>
      BY <1>2, <2>1
    <3> QED BY <3>1 DEF LimitInv
  <2>2. ASSUME NEW l \in Limit, s6 = <<l>>, l.start <= s9, Counted(l, s8), Capped(l, s8)
        PROVE  LimitInv(s6, s8, s9)'
    <3> HIDE DEF amount
    <3>1. s6' = <<Coffers!RecordSpend(l, amount)>>
      BY <1>2, <2>2
    <3>2. amount <= Coffers!Remaining(l)
      BY <1>2, <2>2 DEF Coffers!CheckSpendingLimit
    <3>3. LimitInv(<<Coffers!RecordSpend(l, amount)>>, Append(s8, Paid(s9, amount)), s9)
      BY <1>4, <1>5, <2>2, <3>2, RecordedSpend
    <3>4. LimitInv(s6', s8', s9')
      BY <1>2, <1>6, <3>1, <3>3
    <3> QED BY <3>4 DEF LimitInv, Counted, Capped, Spent
  <2>3. LimitInv(s6, s8, s9)
    BY DEF FundsInv
  <2> QED BY <2>1, <2>2, <2>3 DEF LimitInv
<1>9. s7' = [i \in coffers.ProposalIds |-> s7'[i]] /\ \A i \in coffers.ProposalIds : Requests(s7'[i])
  <2>1. s7 = [i \in coffers.ProposalIds |-> s7[i]] /\ \A i \in coffers.ProposalIds : Requests(s7[i])
    BY DEF FundsInv
  <2>2. s7' = [i \in coffers.ProposalIds |-> s7'[i]] /\ \A i \in coffers.ProposalIds \ {id} : s7'[i] = s7[i]
    BY <1>2, <2>1
  <2>3. s7'[id] = [s7[id] EXCEPT ![1].status = "Executed"]
    BY <1>2, <2>1
  <2>4. DOMAIN s7'[id] = {1} /\ s7'[id][1] = [p EXCEPT !.status = "Executed"]
    BY <1>3, <2>3
  <2>5. IsRequest(s7'[id][1])
    BY <1>3, <2>4 DEF IsRequest
  <2>6. Requests(s7'[id])
    BY <2>4, <2>5 DEF Requests
  <2> QED BY <2>1, <2>2, <2>6
<1>10. s1' = s2' - s3' /\ s2' \in Int /\ s3' \in Int /\ s9' \in Nat
  BY <1>2, <1>4 DEF FundsInv
<1> QED BY <1>7, <1>8, <1>9, <1>10 DEF FundsInv, Requests, IsRequest

LEMMA ProposalsGoOn ==
    ASSUME FundsInv, NEW id \in coffers.ProposalIds, NEW q, Requests(q),
           s7' = [s7 EXCEPT ![id] = q], UNCHANGED <<s1, s2, s3, s6, s8, s9>>
    PROVE  FundsInv'
<1>1. s7 = [i \in coffers.ProposalIds |-> s7[i]] /\ \A i \in coffers.ProposalIds : Requests(s7[i])
  BY DEF FundsInv
<1>2. /\ s7' = [i \in coffers.ProposalIds |-> s7'[i]] /\ s7'[id] = q
      /\ \A i \in coffers.ProposalIds \ {id} : s7'[i] = s7[i]
  BY <1>1
<1>3. \A i \in coffers.ProposalIds : Requests(s7'[i])
  BY <1>1, <1>2
<1>4. \A i \in coffers.ProposalIds : Requests(s7[i])'
  BY <1>3 DEF Requests, IsRequest
<1>5. LimitInv(s6, s8, s9)'
  BY DEF FundsInv, LimitInv, Counted, Capped, Spent
<1> QED BY <1>2, <1>4, <1>5 DEF FundsInv

LEMMA FundsGoOn ==
    ASSUME FundsInv, Coffers!Next
    PROVE  FundsInv'
<1>1. ASSUME NEW s \in coffers.People, Coffers!AddSigner(s) \/ Coffers!RemoveSigner(s)
      PROVE  FundsInv'
  BY <1>1 DEF FundsInv, LimitInv, Counted, Capped, Spent, Requests, IsRequest, Coffers!AddSigner,
     Coffers!RemoveSigner, Coffers!moneyVars
<1>2. ASSUME NEW n \in coffers.Thresholds, Coffers!UpdateThreshold(n)
      PROVE  FundsInv'
  BY <1>2 DEF FundsInv, LimitInv, Counted, Capped, Spent, Requests, IsRequest,
     Coffers!UpdateThreshold, Coffers!moneyVars
<1>3. ASSUME NEW amount \in coffers.Amounts, Coffers!Deposit(amount)
      PROVE  FundsInv'
  <2>1. /\ s1' = s1 + amount /\ s2' = s2 + amount /\ s3' = s3
        /\ UNCHANGED <<s6, s7, s8, s9>>
    BY <1>3 DEF Coffers!Deposit
  <2>2. amount \in Nat
    BY CoffersConstants
  <2>3. s1' = s2' - s3' /\ s2' \in Int /\ s3' \in Int
    BY <2>1, <2>2 DEF FundsInv
  <2> QED BY <2>1, <2>3 DEF FundsInv, LimitInv, Counted, Capped, Spent, Requests, IsRequest
<1>4. ASSUME NEW max \in coffers.Limits, Coffers!SetSpendingLimit(max)
      PROVE  FundsInv'
  <2>1. /\ s6' = <<[max |-> max, spent |-> 0, start |-> s9]>> /\ s8' = <<>>
        /\ UNCHANGED <<s1, s2, s3, s7, s9>>
    BY <1>4 DEF Coffers!SetSpendingLimit, Coffers!moneyVars
  <2>2. max \in Nat /\ s9 \in Nat
    BY CoffersConstants DEF FundsInv
  <2>3. LimitInv(s6', s8', s9')
    BY <2>1, <2>2, NothingPaid
  <2>4. LimitInv(s6, s8, s9)'
    BY <2>3 DEF LimitInv, Counted, Capped, Spent
  <2>5. s8' \in Seq(Payment)
    BY <2>1
  <2> QED BY <2>1, <2>4, <2>5 DEF FundsInv, Requests, IsRequest
<1>5. ASSUME NEW s \in coffers.People, NEW id \in coffers.ProposalIds, NEW e \in BOOLEAN,
             NEW amount \in coffers.Amounts, NEW life \in coffers.Lives,
             Coffers!CreateProposal(s, id, e, amount, life)
      PROVE  FundsInv'
  <2> DEFINE p == [emergency |-> e, amount |-> amount, expires |-> s9 + life,
                   approvals |-> {s}, status |-> "Pending",
                   required |-> IF e THEN coffers.EmergencyThreshold ELSE s5]
  <2>1. s7' = [s7 EXCEPT ![id] = <<p>>] /\ UNCHANGED <<s1, s2, s3, s6, s8, s9>>
    BY <1>5 DEF Coffers!CreateProposal, Coffers!moneyVars
  <2>2. IsRequest(p)
    BY DEF IsRequest
  <2> HIDE DEF p
  <2>3. Requests(<<p>>)
    BY <2>2 DEF Requests
  <2> QED BY <2>1, <2>3, ProposalsGoOn
<1>6. ASSUME NEW s \in coffers.People, NEW id \in coffers.ProposalIds,
             Coffers!ApproveProposal(s, id) \/ Coffers!ApproveTooLate(s, id)
      PROVE  FundsInv'
  <2>1. Requests(s7[id]) /\ s7[id] # <<>>
    BY <1>6 DEF FundsInv, Coffers!ApproveProposal, Coffers!ApproveTooLate, Coffers!Exists
  <2>2. DOMAIN s7[id] = {1} /\ IsRequest(s7[id][1])
    BY <2>1 DEF Requests
  <2>3. CASE Coffers!ApproveProposal(s, id)
    <3> DEFINE approvals == Coffers!proposal(id).approvals \cup {s}
               st == IF Coffers!Cardinality(approvals) >= Coffers!proposal(id).required
                     THEN "Approved" ELSE s7[id][1].status
               q == [s7[id] EXCEPT ![1].approvals = approvals, ![1].status = st]
    <3>1. UNCHANGED <<s1, s2, s3, s6, s8, s9>>
      BY <2>3 DEF Coffers!ApproveProposal, Coffers!moneyVars
    <3>2. s7' = [s7 EXCEPT ![id] = q]
      BY <2>3 DEF Coffers!ApproveProposal, FundsInv
    <3> HIDE DEF approvals, st
    <3>3. DOMAIN q = {1} /\ q[1] = [s7[id][1] EXCEPT !.approvals = approvals, !.status = st]
      BY <2>2
    <3>4. IsRequest(q[1])
      BY <2>2, <3>3 DEF IsRequest
    <3> HIDE DEF q
    <3>5. Requests(q)
      BY <3>3, <3>4 DEF Requests
    <3> QED BY <3>1, <3>2, <3>5, ProposalsGoOn
  <2>4. CASE Coffers!ApproveTooLate(s, id)
    <3> DEFINE q == [s7[id] EXCEPT ![1].status = "Rejected"]
    <3>1. UNCHANGED <<s1, s2, s3, s6, s8, s9>> /\ s7' = [s7 EXCEPT ![id] = q]
      BY <2>4 DEF Coffers!ApproveTooLate, Coffers!moneyVars
    <3>2. DOMAIN q = {1} /\ q[1] = [s7[id][1] EXCEPT !.status = "Rejected"]
      BY <2>2
    <3>3. IsRequest(q[1])
      BY <2>2, <3>2 DEF IsRequest
    <3> HIDE DEF q
    <3>4. Requests(q)
      BY <3>2, <3>3 DEF Requests
    <3> QED BY <3>1, <3>4, ProposalsGoOn
  <2> QED BY <1>6, <2>3, <2>4
<1>7. ASSUME NEW id \in coffers.ProposalIds, Coffers!RejectProposal(id)
      PROVE  FundsInv'
  <2>1. Requests(s7[id]) /\ s7[id] # <<>>
    BY <1>7 DEF FundsInv, Coffers!RejectProposal, Coffers!Exists
  <2>2. DOMAIN s7[id] = {1} /\ IsRequest(s7[id][1])
    BY <2>1 DEF Requests
  <2> DEFINE q == [s7[id] EXCEPT ![1].status = "Rejected"]
  <2>3. UNCHANGED <<s1, s2, s3, s6, s8, s9>> /\ s7' = [s7 EXCEPT ![id] = q]
    BY <1>7 DEF Coffers!RejectProposal, Coffers!moneyVars
  <2>4. DOMAIN q = {1} /\ q[1] = [s7[id][1] EXCEPT !.status = "Rejected"]
    BY <2>2
  <2>5. IsRequest(q[1])
    BY <2>2, <2>4 DEF IsRequest
  <2> HIDE DEF q
  <2>6. Requests(q)
    BY <2>4, <2>5 DEF Requests
  <2> QED BY <2>3, <2>6, ProposalsGoOn
<1>8. ASSUME NEW id \in coffers.ProposalIds, Coffers!ExecuteProposal(id)
      PROVE  FundsInv'
  BY <1>8, PayProposalGoesOn
<1>9. CASE Coffers!Tick
  <2>1. s9' = s9 + 1 /\ UNCHANGED <<s1, s2, s3, s6, s7, s8>>
    BY <1>9 DEF Coffers!Tick, Coffers!moneyVars
  <2>2. s9 \in Nat /\ LimitInv(s6, s8, s9)
    BY DEF FundsInv
  <2>3. LimitInv(s6', s8', s9')
    BY <2>1, <2>2, LimitLasts
  <2>4. LimitInv(s6, s8, s9)'
    BY <2>3 DEF LimitInv, Counted, Capped, Spent
  <2>5. s9' \in Nat
    BY <2>1, <2>2
  <2> QED BY <2>1, <2>4, <2>5 DEF FundsInv, Requests, IsRequest
<1> QED BY <1>1, <1>2, <1>3, <1>4, <1>5, <1>6, <1>7, <1>8, <1>9 DEF Coffers!Next

\* What the runs check follows.
LEMMA FundsCapped ==
    ASSUME FundsInv
    PROVE  Coffers!SpendingCapped
<1>1. s8 \in Seq(Payment) /\ coffers.Period \in Nat
  BY CoffersConstants DEF FundsInv
<1>2. ASSUME NEW a, NEW b PROVE Coffers!PaidWithin(a, b) = Spent(s8, a, b)
  <2>1. DOMAIN s8 = 1..Len(s8)
    BY <1>1, ItsEntries
  <2> QED BY <2>1 DEF Coffers!PaidWithin, Spent, Within, Coffers!Total, Coffers!PartialSums, Total,
             PartialSums
<1>3. ASSUME s6 # <<>>, NEW t \in 1..coffers.MaxTime
      PROVE  Coffers!PaidWithin(t, t + coffers.Period) <= 2 * s6[1].max
  <2>1. PICK l \in Limit : s6 = <<l>> /\ Capped(l, s8)
    BY <1>3 DEF FundsInv, LimitInv
  <2>2. t \in Int /\ s6[1] = l
    BY <2>1
  <2>3. Spent(s8, t, t + coffers.Period) <= 2 * l.max
    BY <2>1, <2>2 DEF Capped
  <2> QED BY <1>2, <2>2, <2>3
<1>4. s1 = s2 - s3
  BY DEF FundsInv
<1> QED BY <1>3, <1>4 DEF Coffers!SpendingCapped

\* The spending limit of the treasury bounds every span of a period (treasury.rs), however
\* many proposals were approved in advance.
THEOREM SpendingCappedAlways == CoreSpec => []SpendingCapped
<1> DEFINE Inv == part = "treasury" => FundsInv
<1>1. CoreInit => Inv
  BY PartBegins, FundsBegin DEF InTreasury
<1>2. Inv /\ [CoreNext]_vars => Inv'
  <2>1. ASSUME Inv, CoreNext PROVE Inv'
    BY <2>1, PartGoesOn, FundsGoOn DEF TreasuryStep
  <2>2. ASSUME Inv, UNCHANGED vars PROVE Inv'
    BY <2>2, NothingMoves DEF FundsInv, LimitInv, Counted, Capped, Spent, Requests, IsRequest
  <2> QED BY <2>1, <2>2
<1>3. Inv => SpendingCapped
  BY FundsCapped DEF SpendingCapped
<1> QED BY <1>1, <1>2, <1>3, PTL DEF CoreSpec

-----------------------------------------------------------------------------
(* Farming.                                                                *)

LEMMA FarmConstants ==
    /\ IsFiniteSet(farm.Users) /\ farm.ScaleFactor \in Nat \ {0}
    /\ farm.Amounts \subseteq Nat \ {0} /\ farm.Rates \subseteq Nat
<1>1. Farms!FarmingAssumption
  BY CoreAssumption
<1>2. Farms!IsFiniteSet(farm.Users)
  BY <1>1 DEF Farms!FarmingAssumption
<1>3. IsFiniteSet(farm.Users)
  BY <1>2 DEF Farms!IsFiniteSet, IsFiniteSet
<1> QED BY <1>1, <1>3 DEF Farms!FarmingAssumption

LEMMA FarmSum ==
    ASSUME NEW f, NEW S
    PROVE  Farms!SetTotal(f, S) = SetTotal(f, S)
<1>1. Farms!Cardinality(S) = Cardinality(S)
  BY DEF Farms!Cardinality, Cardinality
<1>2. Farms!Enumeration(S) = Enumeration(S)
  BY <1>1 DEF Farms!Enumeration, Enumeration
<1> QED BY <1>1, <1>2 DEF Farms!SetTotal, SetTotal, Farms!Total, Total, Farms!PartialSums, PartialSums

\* What a staker got, is owed and has earned since, in parts of the scale: without the
\* rounding of Accumulated.
Due(p, position, got) ==
    farm.ScaleFactor * (got + position.pending)
      + (p.accumulator - position.debt) * position.staked

\* A pool p counts the stakes of its positions, and emitted what their owners are due.
Covered(p, positions, got) ==
    /\ \A u \in farm.Users : positions[u].debt <= p.accumulator
    /\ SetTotal([u \in farm.Users |-> positions[u].staked], farm.Users) = p.staked
    /\ SetTotal([u \in farm.Users |-> Due(p, positions[u], got[u])], farm.Users)
          <= farm.ScaleFactor * p.distributed

FarmTyped ==
    /\ s1 \in Farms!PoolFarmState /\ s2 \in [farm.Users -> Farms!UserFarmPosition]
    /\ s4 \in [farm.Users -> Nat] /\ s5 \in Nat /\ s3 = s1.distributed /\ s1.updated <= s5

FarmInv == FarmTyped /\ Covered(s1, s2, s4)

\* The fields of pools and positions are numbers.
LEMMA FarmFields ==
    /\ \A p \in Farms!PoolFarmState :
          /\ p.staked \in Nat /\ p.accumulator \in Nat /\ p.rate \in Nat /\ p.updated \in Nat
          /\ p.distributed \in Nat
          /\ DOMAIN p = {"staked", "accumulator", "rate", "updated", "distributed"}
    /\ \A q \in Farms!UserFarmPosition :
          /\ q.staked \in Nat /\ q.pending \in Nat /\ q.debt \in Nat /\ q.active \in BOOLEAN
          /\ DOMAIN q = {"staked", "pending", "debt", "active"}
BY DEF Farms!PoolFarmState, Farms!UserFarmPosition

\* What is due is a number while the debt is within the accumulator.
LEMMA DueNat ==
    ASSUME NEW p \in Farms!PoolFarmState, NEW q \in Farms!UserFarmPosition, NEW got \in Nat,
           q.debt <= p.accumulator
    PROVE  Due(p, q, got) \in Nat
<1>1. /\ p.accumulator \in Nat /\ q.debt \in Nat /\ q.pending \in Nat /\ q.staked \in Nat
      /\ farm.ScaleFactor \in Nat
  BY FarmFields, FarmConstants
<1>2. p.accumulator - q.debt \in Nat /\ got + q.pending \in Nat
  BY <1>1
<1>3. farm.ScaleFactor * (got + q.pending) \in Nat /\ (p.accumulator - q.debt) * q.staked \in Nat
  BY <1>1, <1>2, ProductNat
<1> QED BY <1>3 DEF Due

LEMMA FarmBegins ==
    ASSUME Farms!Init
    PROVE  FarmInv
<1> DEFINE zero == [u \in farm.Users |-> 0]
<1>1. /\ s1 = [staked |-> 0, accumulator |-> 0, rate |-> 0, updated |-> 1, distributed |-> 0]
      /\ s2 = [u \in farm.Users |-> [staked |-> 0, pending |-> 0, debt |-> 0, active |-> FALSE]]
      /\ s3 = 0 /\ s4 = [u \in farm.Users |-> 0] /\ s5 = 1
  BY DEF Farms!Init
<1>2. FarmTyped
  BY <1>1 DEF FarmTyped, Farms!PoolFarmState, Farms!UserFarmPosition
<1>3. \A u \in farm.Users : s2[u].debt = 0 /\ s2[u].staked = 0 /\ s2[u].pending = 0 /\ s4[u] = 0
  BY <1>1
<1>4. \A u \in farm.Users : Due(s1, s2[u], s4[u]) = 0
  BY <1>1, <1>3, FarmConstants DEF Due
<1>5. SetTotal([u \in farm.Users |-> s2[u].staked], farm.Users) = 0
  BY <1>3, FarmConstants, SetTotalZero
<1>6. SetTotal([u \in farm.Users |-> Due(s1, s2[u], s4[u])], farm.Users) = 0
  BY <1>4, FarmConstants, SetTotalZero
<1>7. Covered(s1, s2, s4)
  BY <1>1, <1>3, <1>5, <1>6, FarmConstants DEF Covered
<1> QED BY <1>2, <1>7 DEF FarmInv

\* The pool brought up to date: what the accumulator adds to all stakes together is within
\* what was emitted.
LEMMA PoolUpdated ==
    ASSUME FarmInv
    PROVE  /\ Farms!UpdatedPool \in Farms!PoolFarmState
           /\ Farms!UpdatedPool.staked = s1.staked /\ Farms!UpdatedPool.updated = s5
           /\ Farms!UpdatedPool.accumulator >= s1.accumulator
           /\ Covered(Farms!UpdatedPool, s2, s4)
<1> DEFINE p == Farms!UpdatedPool
           S == farm.ScaleFactor
           r == Farms!NewRewards
           a == (r * S) \div s1.staked
<1>1. /\ s1 \in Farms!PoolFarmState /\ s2 \in [farm.Users -> Farms!UserFarmPosition]
      /\ s4 \in [farm.Users -> Nat] /\ s5 \in Nat /\ s1.updated <= s5 /\ Covered(s1, s2, s4)
  BY DEF FarmInv, FarmTyped
<1>2. /\ s1.staked \in Nat /\ s1.accumulator \in Nat /\ s1.rate \in Nat /\ s1.updated \in Nat
      /\ s1.distributed \in Nat /\ S \in Nat \ {0} /\ IsFiniteSet(farm.Users)
      /\ DOMAIN s1 = {"staked", "accumulator", "rate", "updated", "distributed"}
  BY <1>1, FarmFields, FarmConstants
<1>3. CASE s1.staked = 0 \/ s1.rate = 0
  <2>1. p = [s1 EXCEPT !.updated = s5]
    BY <1>3 DEF Farms!UpdatedPool
  <2>2. /\ p.staked = s1.staked /\ p.accumulator = s1.accumulator /\ p.distributed = s1.distributed
        /\ p.updated = s5 /\ p.rate = s1.rate
        /\ p = [staked |-> s1.staked, accumulator |-> s1.accumulator, rate |-> s1.rate,
                updated |-> s5, distributed |-> s1.distributed]
    BY <1>2, <2>1
  <2> HIDE DEF p
  <2>3. p \in Farms!PoolFarmState
    BY <1>1, <1>2, <2>2 DEF Farms!PoolFarmState
  <2>4. Covered(p, s2, s4)
    BY <1>1, <2>2 DEF Covered, Due
  <2> QED BY <1>2, <2>2, <2>3, <2>4 DEF p
<1>4. CASE ~(s1.staked = 0 \/ s1.rate = 0)
  <2>1. r \in Nat
    <3>1. s5 - s1.updated \in Nat
      BY <1>1, <1>2
    <3> QED BY <1>2, <3>1, ProductNat DEF Farms!NewRewards
  <2>2. p = [s1 EXCEPT !.accumulator = @ + a, !.updated = s5, !.distributed = @ + r]
    BY <1>4 DEF Farms!UpdatedPool
  <2>3. r * S \in Nat /\ s1.staked \in Nat \ {0}
    BY <1>2, <1>4, <2>1, ProductNat
  <2>4. a \in Nat /\ a * s1.staked <= r * S
    <3> HIDE DEF r, S
    <3> QED BY <2>3, RoundedDown
  <2> HIDE DEF a, r, S
  <2>5. /\ p.staked = s1.staked /\ p.accumulator = s1.accumulator + a
        /\ p.distributed = s1.distributed + r /\ p.updated = s5 /\ p.rate = s1.rate
        /\ p = [staked |-> s1.staked, accumulator |-> s1.accumulator + a, rate |-> s1.rate,
                updated |-> s5, distributed |-> s1.distributed + r]
    BY <1>2, <2>2
  <2> HIDE DEF p
  <2>6. p \in Farms!PoolFarmState
    BY <1>1, <1>2, <2>1, <2>4, <2>5 DEF Farms!PoolFarmState
  <2> DEFINE old == [u \in farm.Users |-> Due(s1, s2[u], s4[u])]
             new == [u \in farm.Users |-> Due(p, s2[u], s4[u])]
             staked == [u \in farm.Users |-> s2[u].staked]
  <2>7. \A u \in farm.Users : s2[u] \in Farms!UserFarmPosition /\ s4[u] \in Nat
                              /\ s2[u].debt <= s1.accumulator
    BY <1>1 DEF Covered
  <2>8. \A u \in farm.Users : s2[u].debt \in Nat /\ s2[u].staked \in Nat /\ s2[u].pending \in Nat
    BY <2>7, FarmFields
  <2>9. \A u \in farm.Users : old[u] \in Int /\ staked[u] \in Int
    BY <1>1, <2>7, <2>8, DueNat
  <2>10. \A u \in farm.Users : new[u] = old[u] + a * staked[u]
    <3> SUFFICES ASSUME NEW u \in farm.Users
                 PROVE  Due(p, s2[u], s4[u]) = Due(s1, s2[u], s4[u]) + a * s2[u].staked
      OBVIOUS
    <3> DEFINE d == s1.accumulator - s2[u].debt
    <3>1. d \in Int /\ p.accumulator - s2[u].debt = d + a /\ s2[u].staked \in Int
      BY <1>2, <2>4, <2>5, <2>8
    <3> HIDE DEF d
    <3>0. a \in Int /\ d \in Int /\ s2[u].staked \in Int
      BY <2>4, <3>1
    <3>2. (d + a) * s2[u].staked = d * s2[u].staked + a * s2[u].staked
      BY <3>0, Distributed
    <3>3. d * s2[u].staked \in Int /\ a * s2[u].staked \in Int /\ farm.ScaleFactor * (s4[u] + s2[u].pending) \in Int
      BY <2>4, <2>7, <2>8, <3>1, <1>2 DEF S
    <3>4. d = s1.accumulator - s2[u].debt
      BY DEF d
    <3> QED BY <3>1, <3>2, <3>3, <3>4 DEF Due
  <2>11. SetTotal(new, farm.Users) = SetTotal(old, farm.Users) + a * SetTotal(staked, farm.Users)
    <3> HIDE DEF new, old, staked
    <3> QED BY <1>2, <2>4, <2>9, <2>10, SetTotalPlus
  <2>12. SetTotal(staked, farm.Users) = s1.staked /\ SetTotal(old, farm.Users) <= S * s1.distributed
    BY <1>1 DEF Covered, S
  <2>13. SetTotal(old, farm.Users) \in Int
    <3> HIDE DEF old
    <3> QED BY <1>2, <2>9, SetTotalInt
  <2>14. S * (s1.distributed + r) = S * s1.distributed + r * S /\ S * s1.distributed \in Int
    BY <1>2, <2>1, Distributed
  <2>15. SetTotal(new, farm.Users) <= S * p.distributed
    <3> HIDE DEF new, old, staked
    <3>1. a * s1.staked \in Int /\ r * S \in Int
      BY <1>2, <2>3, <2>4
    <3> QED BY <2>4, <2>5, <2>11, <2>12, <2>13, <2>14, <3>1
  <2>16. \A u \in farm.Users : s2[u].debt <= p.accumulator
    BY <1>2, <2>4, <2>5, <2>7, <2>8
  <2>17. Covered(p, s2, s4)
    BY <2>5, <2>12, <2>15, <2>16 DEF Covered, S
  <2>18. p.accumulator >= s1.accumulator
    BY <1>2, <2>4, <2>5
  <2> QED BY <2>5, <2>6, <2>17, <2>18 DEF p
<1> QED BY <1>3, <1>4

\* A position brought up to date with a pool p: it is due no more than before.
LEMMA PositionUpdated ==
    ASSUME NEW p \in Farms!PoolFarmState, NEW q \in Farms!UserFarmPosition, NEW got \in Nat,
           q.debt <= p.accumulator
    PROVE  LET new == Farms!UpdatedPosition(p, q)
           IN  /\ new \in Farms!UserFarmPosition /\ new.debt = p.accumulator
               /\ new.staked = q.staked
               /\ farm.ScaleFactor * (got + new.pending) <= Due(p, q, got)
<1> DEFINE new == Farms!UpdatedPosition(p, q)
           x == (p.accumulator - q.debt) * q.staked
           g == x \div farm.ScaleFactor
<1>1. /\ p.accumulator \in Nat /\ q.debt \in Nat /\ q.pending \in Nat /\ q.staked \in Nat
      /\ q.active \in BOOLEAN /\ DOMAIN q = {"staked", "pending", "debt", "active"}
      /\ farm.ScaleFactor \in Nat \ {0}
  BY FarmFields, FarmConstants
<1>2. p.accumulator - q.debt \in Nat
  BY <1>1
<1>3. x \in Nat
  BY <1>1, <1>2, ProductNat
<1>4. new = [q EXCEPT !.pending = @ + g, !.debt = p.accumulator]
  BY DEF Farms!UpdatedPosition, Farms!Accumulated
<1>5. Due(p, q, got) = farm.ScaleFactor * (got + q.pending) + x
  BY DEF Due
<1> HIDE DEF x
<1>6. g \in Nat /\ g * farm.ScaleFactor <= x
  BY <1>1, <1>3, RoundedDown
<1> HIDE DEF g
<1>7. /\ new.debt = p.accumulator /\ new.staked = q.staked /\ new.pending = q.pending + g
      /\ new = [staked |-> q.staked, pending |-> q.pending + g, debt |-> p.accumulator, active |-> q.active]
  BY <1>1, <1>4
<1> HIDE DEF new
<1>8. new \in Farms!UserFarmPosition
  BY <1>1, <1>6, <1>7 DEF Farms!UserFarmPosition
<1>9. farm.ScaleFactor * (got + new.pending) <= Due(p, q, got)
  <2>1. got + new.pending = (got + q.pending) + g /\ got + q.pending \in Int /\ g \in Int
    BY <1>1, <1>6, <1>7
  <2>2. farm.ScaleFactor * ((got + q.pending) + g)
          = farm.ScaleFactor * (got + q.pending) + farm.ScaleFactor * g
    BY <1>1, <2>1, Distributed
  <2>3. farm.ScaleFactor * g = g * farm.ScaleFactor /\ farm.ScaleFactor * (got + q.pending) \in Int
    BY <1>1, <2>1
  <2>4. g * farm.ScaleFactor \in Int
    BY <1>1, <1>6
  <2> QED BY <1>3, <1>5, <1>6, <2>1, <2>2, <2>3, <2>4
<1> QED BY <1>7, <1>8, <1>9 DEF new

\* A sum over the stakers changes by what one of them changes.
LEMMA StakersUpdate ==
    ASSUME NEW u \in farm.Users, NEW f, NEW h,
           \A v \in farm.Users : f[v] \in Int /\ h[v] \in Int /\ (u # v => h[v] = f[v])
    PROVE  SetTotal(h, farm.Users) = SetTotal(f, farm.Users) + h[u] - f[u]
<1> DEFINE S == farm.Users
<1>1. IsFiniteSet(S) /\ u \in S
  BY FarmConstants
<1>2. (\A v \in S : f[v] \in Int) /\ h[u] \in Int
  OBVIOUS
<1>3. \A v \in S : v # u => h[v] = f[v]
  OBVIOUS
<1>4. SetTotal(h, S) = SetTotal(f, S) + h[u] - f[u]
  <2> HIDE DEF S
  <2> QED BY ONLY <1>1, <1>2, <1>3, SetTotalUpdate
<1> QED BY <1>4

\* A position with another stake.
LEMMA PositionRestaked ==
    ASSUME NEW q \in Farms!UserFarmPosition, NEW x \in Nat, NEW b \in BOOLEAN,
           Farms!UpdatedPosition(Farms!UpdatedPool, q) \in Farms!UserFarmPosition
    PROVE  /\ Farms!Restaked(q, x, b) \in Farms!UserFarmPosition
           /\ Farms!Restaked(q, x, b).staked = x
           /\ Farms!Restaked(q, x, b).pending = Farms!UpdatedPosition(Farms!UpdatedPool, q).pending
           /\ Farms!Restaked(q, x, b).debt = Farms!UpdatedPosition(Farms!UpdatedPool, q).debt
<1> DEFINE r == Farms!UpdatedPosition(Farms!UpdatedPool, q)
<1>1. Farms!Restaked(q, x, b) = [r EXCEPT !.staked = x, !.active = b]
  BY DEF Farms!Restaked
<1>2. r \in Farms!UserFarmPosition
  OBVIOUS
<1> HIDE DEF r
<1>3. /\ [r EXCEPT !.staked = x, !.active = b] \in Farms!UserFarmPosition
      /\ [r EXCEPT !.staked = x, !.active = b].staked = x
      /\ [r EXCEPT !.staked = x, !.active = b].pending = r.pending
      /\ [r EXCEPT !.staked = x, !.active = b].debt = r.debt
  BY <1>2 DEF Farms!UserFarmPosition
<1> QED BY <1>1, <1>3 DEF r

\* One position changes, and is due no more than before.
LEMMA OneMoves ==
    ASSUME NEW p \in Farms!PoolFarmState, NEW positions \in [farm.Users -> Farms!UserFarmPosition],
           NEW got \in [farm.Users -> Nat], Covered(p, positions, got), NEW u \in farm.Users,
           NEW new \in Farms!UserFarmPosition, NEW c \in Nat, new.debt = p.accumulator,
           farm.ScaleFactor * (c + new.pending) <= Due(p, positions[u], got[u]),
           NEW r \in Farms!PoolFarmState, r.accumulator = p.accumulator,
           r.distributed = p.distributed, r.staked = p.staked + new.staked - positions[u].staked
    PROVE  Covered(r, [positions EXCEPT ![u] = new], [got EXCEPT ![u] = c])
<1> DEFINE pos == [positions EXCEPT ![u] = new]
           cl == [got EXCEPT ![u] = c]
           f == [v \in farm.Users |-> positions[v].staked]
           f1 == [v \in farm.Users |-> pos[v].staked]
           d == [v \in farm.Users |-> Due(p, positions[v], got[v])]
           d1 == [v \in farm.Users |-> Due(r, pos[v], cl[v])]
<1>1. IsFiniteSet(farm.Users) /\ farm.ScaleFactor \in Nat
  BY FarmConstants
<1>2. /\ p.accumulator \in Nat /\ new.staked \in Nat /\ new.pending \in Nat
      /\ \A v \in farm.Users : positions[v].staked \in Nat
  BY FarmFields
<1>3. pos[u] = new /\ cl[u] = c /\ \A v \in farm.Users : v # u => pos[v] = positions[v] /\ cl[v] = got[v]
  OBVIOUS
<1> HIDE DEF pos, cl
<1>4. \A v \in farm.Users : positions[v].debt <= p.accumulator
  BY DEF Covered
<1>5. \A v \in farm.Users : d[v] \in Int
  BY <1>4, DueNat
<1>6. Due(r, new, c) = farm.ScaleFactor * (c + new.pending)
  <2>1. (r.accumulator - new.debt) * new.staked = 0
    BY <1>2
  <2>2. farm.ScaleFactor * (c + new.pending) \in Int
    BY <1>1, <1>2
  <2> QED BY <2>1, <2>2 DEF Due
<1>7. d1[u] <= d[u] /\ d1[u] \in Int
  BY <1>1, <1>2, <1>3, <1>6
<1>8. \A v \in farm.Users : v # u => d1[v] = d[v]
  BY <1>3 DEF Due
<1>9. SetTotal(d1, farm.Users) = SetTotal(d, farm.Users) + d1[u] - d[u]
  <2>1. \A v \in farm.Users : d[v] \in Int /\ d1[v] \in Int /\ (u # v => d1[v] = d[v])
    <3> HIDE DEF d, d1
    <3> QED BY <1>5, <1>7, <1>8
  <2> HIDE DEF d, d1
  <2> QED BY <2>1, StakersUpdate
<1>10. SetTotal(f1, farm.Users) = SetTotal(f, farm.Users) + f1[u] - f[u]
  <2>1. \A v \in farm.Users : f[v] \in Int /\ f1[v] \in Int /\ (u # v => f1[v] = f[v])
    BY <1>2, <1>3
  <2> HIDE DEF f, f1
  <2> QED BY <2>1, StakersUpdate
<1>11. SetTotal(f, farm.Users) = p.staked /\ SetTotal(d, farm.Users) <= farm.ScaleFactor * p.distributed
  BY DEF Covered
<1>12. f1[u] = new.staked /\ f[u] = positions[u].staked
  BY <1>3
<1>13. SetTotal(d, farm.Users) \in Int
  <2> HIDE DEF d
  <2> QED BY <1>1, <1>5, SetTotalInt
<1>14. SetTotal(d1, farm.Users) <= farm.ScaleFactor * r.distributed
  <2>1. farm.ScaleFactor * p.distributed \in Int
    BY <1>1, FarmFields
  <2>2. d[u] \in Int
    <3> HIDE DEF d
    <3> QED BY <1>5
  <2> HIDE DEF d, d1
  <2> QED BY <1>7, <1>9, <1>11, <1>13, <2>1, <2>2
<1>15. SetTotal(f1, farm.Users) = r.staked
  <2> HIDE DEF f, f1
  <2> QED BY <1>10, <1>11, <1>12
<1>16. \A v \in farm.Users : pos[v].debt <= r.accumulator
  BY <1>2, <1>3, <1>4
<1>17. Covered(r, pos, cl)
  BY <1>14, <1>15, <1>16 DEF Covered
<1> QED BY <1>17 DEF pos, cl

\* The changes a call makes, as one: the pool is brought up to date, and its stakes move
\* by what one position's do.
LEMMA FarmMoves ==
    ASSUME FarmInv, NEW u \in farm.Users, NEW new \in Farms!UserFarmPosition, NEW c \in Nat,
           new.debt = Farms!UpdatedPool.accumulator,
           farm.ScaleFactor * (c + new.pending) <= Due(Farms!UpdatedPool, s2[u], s4[u]),
           s1' = [Farms!UpdatedPool EXCEPT !.staked = @ + (new.staked - s2[u].staked)],
           s1.staked + (new.staked - s2[u].staked) \in Nat,
           s2' = [s2 EXCEPT ![u] = new], s4' = [s4 EXCEPT ![u] = c],
           s3' = s3 + (Farms!UpdatedPool.distributed - s1.distributed), s5' = s5
    PROVE  FarmInv'
<1> DEFINE p == Farms!UpdatedPool
<1>1. p \in Farms!PoolFarmState /\ p.staked = s1.staked /\ p.updated = s5 /\ Covered(p, s2, s4)
  BY PoolUpdated
<1>2. /\ s1 \in Farms!PoolFarmState /\ s2 \in [farm.Users -> Farms!UserFarmPosition]
      /\ s4 \in [farm.Users -> Nat] /\ s5 \in Nat /\ s3 = s1.distributed
  BY DEF FarmInv, FarmTyped
<1>3. s1' = [p EXCEPT !.staked = @ + (new.staked - s2[u].staked)]
  OBVIOUS
<1>4. s3' = s3 + (p.distributed - s1.distributed) /\ new.debt = p.accumulator
      /\ farm.ScaleFactor * (c + new.pending) <= Due(p, s2[u], s4[u])
  OBVIOUS
<1> HIDE DEF p
<1>5. /\ p.staked \in Nat /\ p.accumulator \in Nat /\ p.rate \in Nat /\ p.distributed \in Nat
      /\ DOMAIN p = {"staked", "accumulator", "rate", "updated", "distributed"}
      /\ s1.distributed \in Nat
  BY <1>1, <1>2, FarmFields
<1>6. /\ s1'.accumulator = p.accumulator /\ s1'.distributed = p.distributed
      /\ s1'.staked = p.staked + (new.staked - s2[u].staked) /\ s1'.updated = s5 /\ s1'.rate = p.rate
      /\ s1' = [staked |-> p.staked + (new.staked - s2[u].staked), accumulator |-> p.accumulator,
                rate |-> p.rate, updated |-> s5, distributed |-> p.distributed]
  BY <1>1, <1>3, <1>5
<1>7. s1' \in Farms!PoolFarmState
  BY <1>1, <1>2, <1>5, <1>6 DEF Farms!PoolFarmState
<1>8. p.staked + (new.staked - s2[u].staked) = p.staked + new.staked - s2[u].staked
  <2>1. new.staked \in Nat /\ s2[u] \in Farms!UserFarmPosition
    BY <1>2, FarmFields
  <2> QED BY <1>5, <2>1, FarmFields
<1>9. Covered(s1', s2', s4')
  <2>1. s1'.staked = p.staked + new.staked - s2[u].staked
    BY <1>6, <1>8
  <2>2. Covered(s1', [s2 EXCEPT ![u] = new], [s4 EXCEPT ![u] = c])
    BY <1>1, <1>2, <1>4, <1>6, <1>7, <2>1, OneMoves
  <2> QED BY <2>2
<1>10. s2' \in [farm.Users -> Farms!UserFarmPosition] /\ s4' \in [farm.Users -> Nat]
  BY <1>2
<1>11. s3' = s1'.distributed /\ s1'.updated <= s5'
  BY <1>2, <1>4, <1>5, <1>6
<1>12. FarmTyped'
  <2>1. s5' \in Nat
    BY <1>2
  <2> QED BY <1>7, <1>10, <1>11, <2>1 DEF FarmTyped, Farms!PoolFarmState, Farms!UserFarmPosition
<1>13. Covered(s1, s2, s4)'
  BY <1>9 DEF Covered, Due
<1> QED BY <1>12, <1>13 DEF FarmInv

\* A call that moves no position, but may set the rate.
LEMMA FarmLasts ==
    ASSUME FarmInv, NEW rate \in Nat, s1' = [Farms!UpdatedPool EXCEPT !.rate = rate],
           s2' = s2, s4' = s4, s5' = s5,
           s3' = s3 + (Farms!UpdatedPool.distributed - s1.distributed)
    PROVE  FarmInv'
<1> DEFINE p == Farms!UpdatedPool
<1>1. p \in Farms!PoolFarmState /\ p.updated = s5 /\ Covered(p, s2, s4)
  BY PoolUpdated
<1>2. /\ s1 \in Farms!PoolFarmState /\ s2 \in [farm.Users -> Farms!UserFarmPosition]
      /\ s4 \in [farm.Users -> Nat] /\ s5 \in Nat /\ s3 = s1.distributed
  BY DEF FarmInv, FarmTyped
<1>3. s1' = [p EXCEPT !.rate = rate] /\ s3' = s3 + (p.distributed - s1.distributed)
  OBVIOUS
<1> HIDE DEF p
<1>4. /\ p.staked \in Nat /\ p.accumulator \in Nat /\ p.distributed \in Nat
      /\ DOMAIN p = {"staked", "accumulator", "rate", "updated", "distributed"}
      /\ s1.distributed \in Nat
  BY <1>1, <1>2, FarmFields
<1>5. /\ s1'.accumulator = p.accumulator /\ s1'.distributed = p.distributed
      /\ s1'.staked = p.staked /\ s1'.updated = s5
      /\ s1' = [staked |-> p.staked, accumulator |-> p.accumulator,
                rate |-> rate, updated |-> s5, distributed |-> p.distributed]
  BY <1>1, <1>3, <1>4
<1>6. s1' \in Farms!PoolFarmState
  BY <1>1, <1>2, <1>4, <1>5 DEF Farms!PoolFarmState
<1>7. Covered(s1', s2, s4)
  BY <1>1, <1>5 DEF Covered, Due
<1>8. Covered(s1, s2, s4)'
  BY <1>7 DEF Covered, Due
<1>9. s3' = s1'.distributed /\ s1'.updated <= s5'
  BY <1>2, <1>3, <1>4, <1>5
<1>10. s5' \in Nat
  BY <1>2
<1>11. FarmTyped'
  BY <1>2, <1>6, <1>9, <1>10 DEF FarmTyped, Farms!PoolFarmState, Farms!UserFarmPosition
<1> QED BY <1>8, <1>11 DEF FarmInv

LEMMA FarmGoesOn ==
    ASSUME FarmInv, Farms!Next
    PROVE  FarmInv'
<1> DEFINE p == Farms!UpdatedPool
<1>1. /\ p \in Farms!PoolFarmState /\ p.staked = s1.staked /\ p.accumulator >= s1.accumulator
      /\ DOMAIN p = {"staked", "accumulator", "rate", "updated", "distributed"}
      /\ p.rate \in Nat /\ p.staked \in Nat /\ p.accumulator \in Nat
  BY PoolUpdated, FarmFields
<1>2. /\ s2 \in [farm.Users -> Farms!UserFarmPosition] /\ s4 \in [farm.Users -> Nat] /\ s5 \in Nat
      /\ Covered(s1, s2, s4) /\ Covered(p, s2, s4) /\ s1 \in Farms!PoolFarmState /\ s1.updated <= s5
  BY PoolUpdated DEF FarmInv, FarmTyped
<1> DEFINE q(u) == Farms!UpdatedPosition(p, s2[u])
<1>3. ASSUME NEW u \in farm.Users
      PROVE  /\ q(u) \in Farms!UserFarmPosition /\ q(u).debt = p.accumulator
             /\ q(u).staked = s2[u].staked /\ q(u).pending \in Nat /\ q(u).active \in BOOLEAN
             /\ s2[u].staked \in Nat /\ s2[u].active \in BOOLEAN
             /\ DOMAIN q(u) = {"staked", "pending", "debt", "active"}
             /\ farm.ScaleFactor * (s4[u] + q(u).pending) <= Due(p, s2[u], s4[u])
             /\ s4[u] \in Nat
  <2>1. s2[u] \in Farms!UserFarmPosition /\ s4[u] \in Nat /\ s2[u].debt <= p.accumulator
    BY <1>2 DEF Covered
  <2> HIDE DEF p
  <2>2. /\ q(u) \in Farms!UserFarmPosition /\ q(u).debt = p.accumulator
        /\ q(u).staked = s2[u].staked
        /\ farm.ScaleFactor * (s4[u] + q(u).pending) <= Due(p, s2[u], s4[u])
    BY <1>1, <2>1, PositionUpdated
  <2> HIDE DEF q
  <2> QED BY <2>1, <2>2, FarmFields
<1> HIDE DEF q
<1>4. ASSUME NEW u \in farm.Users, NEW amount \in farm.Amounts, Farms!StakeLp(u, amount)
      PROVE  FarmInv'
  <2> DEFINE new == Farms!Restaked(s2[u], s2[u].staked + amount, TRUE)
  <2>1. s2' = [s2 EXCEPT ![u] = new]
    BY <1>4 DEF Farms!StakeLp
  <2>2. /\ s1' = [p EXCEPT !.staked = @ + amount]
        /\ s3' = s3 + (p.distributed - s1.distributed) /\ s4' = s4 /\ s5' = s5
    BY <1>4 DEF Farms!StakeLp, Farms!Distributed
  <2>3. amount \in Nat /\ s2[u].staked + amount \in Nat /\ s2[u] \in Farms!UserFarmPosition
    BY <1>2, <1>3, FarmConstants
  <2>4. /\ new \in Farms!UserFarmPosition /\ new.staked = s2[u].staked + amount
        /\ new.pending = q(u).pending /\ new.debt = q(u).debt
    BY <1>3, <2>3, PositionRestaked DEF q
  <2> HIDE DEF new, p
  <2>5. new.staked - s2[u].staked = amount /\ s1.staked + (new.staked - s2[u].staked) \in Nat
    BY <1>1, <1>3, <2>3, <2>4
  <2>6. s4' = [s4 EXCEPT ![u] = s4[u]]
    BY <1>2, <2>2
  <2>7. s1' = [p EXCEPT !.staked = @ + (new.staked - s2[u].staked)]
    BY <2>2, <2>5
  <2>8. new.debt = p.accumulator
        /\ farm.ScaleFactor * (s4[u] + new.pending) <= Due(p, s2[u], s4[u]) /\ s4[u] \in Nat
    BY <1>3, <2>4
  <2> QED BY <2>1, <2>2, <2>4, <2>5, <2>6, <2>7, <2>8, FarmMoves DEF p
<1>5. ASSUME NEW u \in farm.Users, NEW amount \in farm.Amounts, Farms!UnstakeLp(u, amount)
      PROVE  FarmInv'
  <2> DEFINE b == s2[u].staked > amount
             new == Farms!Restaked(s2[u], s2[u].staked - amount, b)
  <2>1. s2' = [s2 EXCEPT ![u] = new]
    BY <1>5 DEF Farms!UnstakeLp
  <2>2. /\ s1' = [p EXCEPT !.staked = @ - amount] /\ s2[u].staked >= amount
        /\ s3' = s3 + (p.distributed - s1.distributed) /\ s4' = s4 /\ s5' = s5
    BY <1>5 DEF Farms!UnstakeLp, Farms!Distributed
  <2>3. amount \in Nat /\ s2[u].staked - amount \in Nat /\ b \in BOOLEAN
        /\ s2[u] \in Farms!UserFarmPosition
    BY <1>2, <1>3, <2>2, FarmConstants
  <2>4. /\ new \in Farms!UserFarmPosition /\ new.staked = s2[u].staked - amount
        /\ new.pending = q(u).pending /\ new.debt = q(u).debt
    <3>1. PICK c \in BOOLEAN : c = b
      <4>1. \E c \in BOOLEAN : c = b
        BY <2>3, Zenon
      <4> QED BY <4>1
    <3>2. new = Farms!Restaked(s2[u], s2[u].staked - amount, c)
      BY <3>1, Zenon
    <3> HIDE DEF b, new
    <3> QED BY <1>3, <2>3, <3>2, PositionRestaked DEF q
  <2> HIDE DEF new, p, b
  <2>5. s2[u].staked <= s1.staked
    <3> DEFINE f == [v \in farm.Users |-> s2[v].staked]
    <3>1. SetTotal(f, farm.Users) = s1.staked
      BY <1>2 DEF Covered
    <3>2. \A v \in farm.Users : f[v] \in Nat
      BY <1>3
    <3>3. f[u] <= SetTotal(f, farm.Users)
      <4> HIDE DEF f
      <4> QED BY <3>2, FarmConstants, SetTotalDominates
    <3> QED BY <3>1, <3>3
  <2>6. new.staked - s2[u].staked = -amount /\ s1.staked + (new.staked - s2[u].staked) \in Nat
    BY <1>1, <1>3, <2>2, <2>3, <2>4, <2>5
  <2>7. s4' = [s4 EXCEPT ![u] = s4[u]]
    BY <1>2, <2>2
  <2>8. s1' = [p EXCEPT !.staked = @ + (new.staked - s2[u].staked)]
    <3>1. p.staked - amount = p.staked + (new.staked - s2[u].staked)
      BY <1>1, <2>3, <2>6
    <3> QED BY <2>2, <3>1
  <2>9. new.debt = p.accumulator
        /\ farm.ScaleFactor * (s4[u] + new.pending) <= Due(p, s2[u], s4[u]) /\ s4[u] \in Nat
    BY <1>3, <2>4
  <2> QED BY <2>1, <2>2, <2>4, <2>6, <2>7, <2>8, <2>9, FarmMoves DEF p
<1>6. ASSUME NEW u \in farm.Users, Farms!ClaimFarmRewards(u)
      PROVE  FarmInv'
  <2> DEFINE new == [q(u) EXCEPT !.pending = 0]
             c == s4[u] + q(u).pending
  <2>1. /\ s1' = p /\ s2' = [s2 EXCEPT ![u] = new]
        /\ s3' = s3 + (p.distributed - s1.distributed) /\ s4' = [s4 EXCEPT ![u] = c] /\ s5' = s5
    BY <1>2, <1>6 DEF Farms!ClaimFarmRewards, Farms!Distributed, q
  <2>2. /\ new.staked = s2[u].staked /\ new.pending = 0 /\ new.debt = p.accumulator
        /\ new = [staked |-> s2[u].staked, pending |-> 0, debt |-> p.accumulator, active |-> q(u).active]
    BY <1>3
  <2>3. c \in Nat /\ c + 0 = s4[u] + q(u).pending
    BY <1>3
  <2> HIDE DEF new, c
  <2>4. new \in Farms!UserFarmPosition
    BY <1>1, <1>3, <2>2 DEF Farms!UserFarmPosition
  <2>5. new.staked - s2[u].staked = 0 /\ s1.staked + (new.staked - s2[u].staked) \in Nat
    BY <1>1, <1>3, <2>2
  <2>6. s1' = [p EXCEPT !.staked = @ + (new.staked - s2[u].staked)]
    <3>1. p.staked = p.staked + (new.staked - s2[u].staked)
      BY <1>1, <2>5
    <3> HIDE DEF p
    <3> QED BY <1>1, <2>1, <3>1 DEF Farms!PoolFarmState
  <2>7. farm.ScaleFactor * (c + new.pending) <= Due(p, s2[u], s4[u])
    BY <1>3, <2>2, <2>3
  <2> QED BY <2>1, <2>2, <2>3, <2>4, <2>5, <2>6, <2>7, FarmMoves
<1>7. ASSUME NEW u \in farm.Users, Farms!GetPendingFarmRewards(u)
      PROVE  FarmInv'
  <2> DEFINE new == q(u)
  <2>1. /\ s1' = p /\ s2' = [s2 EXCEPT ![u] = new]
        /\ s3' = s3 + (p.distributed - s1.distributed) /\ s4' = s4 /\ s5' = s5
    BY <1>2, <1>7 DEF Farms!GetPendingFarmRewards, Farms!Distributed, q
  <2>2. new.staked - s2[u].staked = 0 /\ s1.staked + (new.staked - s2[u].staked) \in Nat
    BY <1>1, <1>3
  <2>3. s1' = [p EXCEPT !.staked = @ + (new.staked - s2[u].staked)]
    <3>1. p.staked = p.staked + (new.staked - s2[u].staked)
      BY <1>1, <2>2
    <3> HIDE DEF p
    <3> QED BY <1>1, <2>1, <3>1 DEF Farms!PoolFarmState
  <2>4. s4' = [s4 EXCEPT ![u] = s4[u]]
    BY <1>2, <2>1
  <2> QED BY <1>3, <2>1, <2>2, <2>3, <2>4, FarmMoves
<1>8. ASSUME NEW rate \in farm.Rates, Farms!SetFarmEmissionRate(rate)
      PROVE  FarmInv'
  <2>1. rate \in Nat
    BY FarmConstants
  <2> QED BY <1>8, <2>1, FarmLasts DEF Farms!SetFarmEmissionRate, Farms!Distributed
<1>9. CASE Farms!GetPoolState
  <2>1. s1' = p /\ s3' = s3 + (p.distributed - s1.distributed) /\ UNCHANGED <<s2, s4, s5>>
    BY <1>9 DEF Farms!GetPoolState, Farms!Distributed
  <2>2. s1' = [p EXCEPT !.rate = p.rate]
    <3> HIDE DEF p
    <3> QED BY <1>1, <2>1 DEF Farms!PoolFarmState
  <2> QED BY <1>1, <2>1, <2>2, FarmLasts
<1>10. CASE Farms!Tick
  <2>1. s5' = s5 + 1 /\ UNCHANGED <<s1, s2, s3, s4>>
    BY <1>10 DEF Farms!Tick
  <2>2. s5' \in Nat /\ s1'.updated <= s5'
    BY <1>2, <2>1, FarmFields
  <2> QED BY <2>1, <2>2 DEF FarmInv, FarmTyped, Covered, Due, Farms!PoolFarmState,
                           Farms!UserFarmPosition
<1> QED BY <1>4, <1>5, <1>6, <1>7, <1>8, <1>9, <1>10 DEF Farms!Next

\* What the runs check follows: rounded, what is due is still less.
LEMMA FarmCovers ==
    ASSUME FarmInv
    PROVE  Farms!RewardsCovered
<1> DEFINE g == [u \in farm.Users |-> s4[u] + s2[u].pending + Farms!Accumulated(s1, s2[u])]
           d == [u \in farm.Users |-> Due(s1, s2[u], s4[u])]
           zero == [u \in farm.Users |-> 0]
           h == [u \in farm.Users |-> farm.ScaleFactor * g[u]]
<1>1. /\ s1 \in Farms!PoolFarmState /\ s2 \in [farm.Users -> Farms!UserFarmPosition]
      /\ s4 \in [farm.Users -> Nat] /\ Covered(s1, s2, s4) /\ s3 = s1.distributed
  BY DEF FarmInv, FarmTyped
<1>2. IsFiniteSet(farm.Users) /\ farm.ScaleFactor \in Nat \ {0} /\ s1.distributed \in Nat
  BY <1>1, FarmConstants, FarmFields
<1>3. ASSUME NEW u \in farm.Users
      PROVE  g[u] \in Nat /\ h[u] = farm.ScaleFactor * g[u] /\ h[u] <= d[u] /\ d[u] \in Nat /\ h[u] \in Int
  <2> DEFINE q == Farms!UpdatedPosition(s1, s2[u])
  <2>1. s2[u] \in Farms!UserFarmPosition /\ s4[u] \in Nat /\ s2[u].debt <= s1.accumulator
    BY <1>1 DEF Covered
  <2>2. q \in Farms!UserFarmPosition /\ farm.ScaleFactor * (s4[u] + q.pending) <= Due(s1, s2[u], s4[u])
    BY <1>1, <2>1, PositionUpdated
  <2>3. q.pending = s2[u].pending + Farms!Accumulated(s1, s2[u])
    BY <2>1, FarmFields DEF Farms!UpdatedPosition
  <2>4. q.pending \in Nat /\ s2[u].pending \in Nat
    BY <2>1, <2>2, FarmFields
  <2>5. (s1.accumulator - s2[u].debt) * s2[u].staked \in Nat
    <3>1. s1.accumulator - s2[u].debt \in Nat /\ s2[u].staked \in Nat
      BY <1>1, <2>1, FarmFields
    <3> QED BY <3>1, ProductNat
  <2>6. Farms!Accumulated(s1, s2[u]) \in Nat
    <3> DEFINE x == (s1.accumulator - s2[u].debt) * s2[u].staked
    <3>1. Farms!Accumulated(s1, s2[u]) = x \div farm.ScaleFactor
      BY DEF Farms!Accumulated
    <3>2. x \in Nat
      BY <2>5
    <3> HIDE DEF x
    <3> QED BY <1>2, <3>1, <3>2, RoundedDown
  <2> HIDE DEF q
  <2>7. g[u] = s4[u] + q.pending /\ g[u] \in Nat
    BY <2>1, <2>3, <2>4, <2>6
  <2>8. d[u] \in Nat /\ d[u] = Due(s1, s2[u], s4[u])
    BY <1>1, <2>1, DueNat
  <2>9. h[u] = farm.ScaleFactor * g[u]
    OBVIOUS
  <2> HIDE DEF g, d, h
  <2>10. h[u] \in Int
    BY <1>2, <2>7, <2>9
  <2> QED BY <2>2, <2>7, <2>8, <2>9, <2>10
<1>4. SetTotal(d, farm.Users) <= farm.ScaleFactor * s1.distributed
  BY <1>1 DEF Covered
<1>5. \A u \in farm.Users : zero[u] = 0
  OBVIOUS
<1> HIDE DEF g, d, h, zero
<1>6. SetTotal(h, farm.Users) <= SetTotal(d, farm.Users)
  <2>1. \A u \in farm.Users : d[u] \in Int /\ h[u] \in Int /\ h[u] <= d[u]
    BY <1>3
  <2> QED BY <1>2, <2>1, SetTotalOrder
<1>7. SetTotal(h, farm.Users) = SetTotal(zero, farm.Users) + farm.ScaleFactor * SetTotal(g, farm.Users)
  <2>1. \A u \in farm.Users : zero[u] \in Int /\ g[u] \in Int /\ h[u] = zero[u] + farm.ScaleFactor * g[u]
    BY <1>2, <1>3, <1>5
  <2>2. farm.ScaleFactor \in Int
    BY <1>2
  <2> QED BY <1>2, <2>1, <2>2, SetTotalPlus
<1>8. SetTotal(zero, farm.Users) = 0 /\ SetTotal(g, farm.Users) \in Nat /\ SetTotal(d, farm.Users) \in Nat
  BY <1>2, <1>3, <1>5, SetTotalZero, SetTotalDominates
<1>9. SetTotal(g, farm.Users) <= s1.distributed
  <2> DEFINE G == SetTotal(g, farm.Users)
             D == s1.distributed
             S == farm.ScaleFactor
  <2>1. G \in Nat /\ D \in Nat /\ S \in Nat \ {0} /\ S * G <= S * D
    <3>1. S * G \in Int
      BY <1>2, <1>8
    <3>2. S * D \in Int
      BY <1>2
    <3> HIDE DEF G, D, S
    <3>3. SetTotal(h, farm.Users) = S * G /\ SetTotal(d, farm.Users) <= S * D
      BY <1>4, <1>7, <1>8, <3>1 DEF G, D, S
    <3> QED BY <1>2, <1>6, <1>8, <3>1, <3>2, <3>3 DEF G, D, S
  <2> HIDE DEF G, D, S
  <2>2. ASSUME D < G PROVE FALSE
    <3>1. S * (D + 1) <= S * G
      <4>1. (D + 1) * S <= G * S
        BY <2>1, <2>2, ProductOrder
      <4> QED BY <2>1, <4>1
    <3>2. S * (D + 1) = S * D + S * 1 /\ S * D \in Int
      BY <2>1, Distributed
    <3>3. S * 1 = S
      BY <2>1
    <3>4. S * G \in Int
      BY <2>1
    <3> QED BY <2>1, <3>1, <3>2, <3>3, <3>4
  <2>3. G <= D
    BY <2>1, <2>2
  <2> QED BY <2>3 DEF G, D
<1>10. SetTotal([u \in farm.Users |-> s2[u].staked], farm.Users) = s1.staked
  BY <1>1 DEF Covered
<1> QED BY <1>1, <1>9, <1>10, FarmSum DEF Farms!RewardsCovered, Farms!Over, g

-----------------------------------------------------------------------------
(* Staking bonuses.                                                        *)

\* The amounts of the live stakes of a list, those of the ended ones, and the bonuses of
\* the claimed ones.
LiveAmounts(l) == [i \in DOMAIN l |-> IF l[i].active THEN l[i].amount ELSE 0]
EndedAmounts(l) == [i \in DOMAIN l |-> IF l[i].active THEN 0 ELSE l[i].amount]
ClaimedBonuses(l) == [i \in DOMAIN l |-> IF l[i].claimed THEN l[i].bonus ELSE 0]
Payable(l) == [i \in DOMAIN l |-> IF Bonuses!Claimable(l[i]) THEN l[i].bonus ELSE 0]
\* A list l of stakes makes up a staker's total t, principal r back and claims k.
AddsUp(l, t, r, k) ==
    /\ t = Total(LiveAmounts(l), Len(l)) /\ r <= Total(EndedAmounts(l), Len(l)) /\ k = Total(ClaimedBonuses(l), Len(l))

StakeList == Seq(Bonuses!StakeRecord)

LEMMA StakeFields ==
    \A s \in Bonuses!StakeRecord :
       /\ s.amount \in Nat /\ s.bonus \in Nat /\ s.active \in BOOLEAN /\ s.claimed \in BOOLEAN
       /\ DOMAIN s = {"amount", "unlock", "bonus", "claimed", "claimable", "active"}
BY DEF Bonuses!StakeRecord

LEMMA ListFacts ==
    ASSUME NEW l \in StakeList
    PROVE  /\ Len(l) \in Nat /\ DOMAIN l = 1..Len(l)
           /\ \A i \in 1..Len(l) :
                 /\ l[i] \in Bonuses!StakeRecord
                 /\ l[i].amount \in Nat /\ l[i].bonus \in Nat
                 /\ LiveAmounts(l)[i] = IF l[i].active THEN l[i].amount ELSE 0
                 /\ EndedAmounts(l)[i] = IF l[i].active THEN 0 ELSE l[i].amount
                 /\ ClaimedBonuses(l)[i] = IF l[i].claimed THEN l[i].bonus ELSE 0
                 /\ Payable(l)[i] = IF Bonuses!Claimable(l[i]) THEN l[i].bonus ELSE 0
                 /\ LiveAmounts(l)[i] \in Nat /\ EndedAmounts(l)[i] \in Nat /\ ClaimedBonuses(l)[i] \in Nat
                 /\ Payable(l)[i] \in Nat
<1>1. Len(l) \in Nat /\ DOMAIN l = 1..Len(l) /\ \A i \in 1..Len(l) : l[i] \in Bonuses!StakeRecord
  BY ItsEntries DEF StakeList
<1>2. \A i \in 1..Len(l) : l[i].amount \in Nat /\ l[i].bonus \in Nat
  BY <1>1, StakeFields
<1>3. \A i \in 1..Len(l) :
                 /\ LiveAmounts(l)[i] = IF l[i].active THEN l[i].amount ELSE 0
                 /\ EndedAmounts(l)[i] = IF l[i].active THEN 0 ELSE l[i].amount
                 /\ ClaimedBonuses(l)[i] = IF l[i].claimed THEN l[i].bonus ELSE 0
                 /\ Payable(l)[i] = IF Bonuses!Claimable(l[i]) THEN l[i].bonus ELSE 0
  BY <1>1 DEF LiveAmounts, EndedAmounts, ClaimedBonuses, Payable
<1> QED BY <1>1, <1>2, <1>3

\* One stake of a list.
LEMMA Entry ==
    ASSUME NEW l \in StakeList, NEW i \in 1..Len(l)
    PROVE  /\ LiveAmounts(l)[i] = IF l[i].active THEN l[i].amount ELSE 0
           /\ EndedAmounts(l)[i] = IF l[i].active THEN 0 ELSE l[i].amount
           /\ ClaimedBonuses(l)[i] = IF l[i].claimed THEN l[i].bonus ELSE 0
           /\ Payable(l)[i] = IF Bonuses!Claimable(l[i]) THEN l[i].bonus ELSE 0
           /\ LiveAmounts(l)[i] \in Int /\ EndedAmounts(l)[i] \in Int /\ ClaimedBonuses(l)[i] \in Int /\ Payable(l)[i] \in Int
BY ListFacts

LEMMA SumsTyped ==
    ASSUME NEW l \in StakeList
    PROVE  /\ Total(LiveAmounts(l), Len(l)) \in Int /\ Total(EndedAmounts(l), Len(l)) \in Int
           /\ Total(ClaimedBonuses(l), Len(l)) \in Int /\ Total(Payable(l), Len(l)) \in Int
<1>1. Len(l) \in Nat /\ \A i \in 1..Len(l) : /\ LiveAmounts(l)[i] \in Int /\ EndedAmounts(l)[i] \in Int
                                             /\ ClaimedBonuses(l)[i] \in Int /\ Payable(l)[i] \in Int
  BY ListFacts
<1> QED BY <1>1, TotalInt

\* A stake is made.
LEMMA StakeMade ==
    ASSUME NEW l \in StakeList, NEW t \in Int, NEW r \in Int, NEW k \in Int, AddsUp(l, t, r, k),
           NEW s \in Bonuses!StakeRecord, s.active, ~s.claimed
    PROVE  /\ Append(l, s) \in StakeList /\ AddsUp(Append(l, s), t + s.amount, r, k)
<1> DEFINE m == Append(l, s)
           n == Len(l)
<1>1. /\ m \in StakeList /\ Len(m) = n + 1 /\ n \in Nat
      /\ (\A i \in 1..n : m[i] = l[i]) /\ m[n + 1] = s
  BY AppendProperties, ListFacts DEF StakeList
<1> HIDE DEF m, n
<1>2. s.amount \in Nat
  BY StakeFields
<1>3. \A i \in 1..n : /\ LiveAmounts(m)[i] = LiveAmounts(l)[i] /\ EndedAmounts(m)[i] = EndedAmounts(l)[i] /\ ClaimedBonuses(m)[i] = ClaimedBonuses(l)[i]
                      /\ LiveAmounts(l)[i] \in Int /\ EndedAmounts(l)[i] \in Int /\ ClaimedBonuses(l)[i] \in Int
  <2> SUFFICES ASSUME NEW i \in 1..n
               PROVE  /\ LiveAmounts(m)[i] = LiveAmounts(l)[i] /\ EndedAmounts(m)[i] = EndedAmounts(l)[i] /\ ClaimedBonuses(m)[i] = ClaimedBonuses(l)[i]
                      /\ LiveAmounts(l)[i] \in Int /\ EndedAmounts(l)[i] \in Int /\ ClaimedBonuses(l)[i] \in Int
    OBVIOUS
  <2>1. /\ l \in StakeList /\ m \in StakeList
        /\ i \in 1..Len(m) /\ i \in 1..Len(l) /\ m[i] = l[i]
    BY <1>1 DEF n
  <2>2. LiveAmounts(l)[i] \in Int /\ EndedAmounts(l)[i] \in Int /\ ClaimedBonuses(l)[i] \in Int
    BY ONLY <2>1, Entry
  <2>3. LiveAmounts(m)[i] = LiveAmounts(l)[i]
    BY ONLY <2>1, Entry
  <2>4. EndedAmounts(m)[i] = EndedAmounts(l)[i]
    BY ONLY <2>1, Entry
  <2>5. ClaimedBonuses(m)[i] = ClaimedBonuses(l)[i]
    BY ONLY <2>1, Entry
  <2> QED BY <2>2, <2>3, <2>4, <2>5
<1>4. LiveAmounts(m)[n + 1] = s.amount /\ EndedAmounts(m)[n + 1] = 0 /\ ClaimedBonuses(m)[n + 1] = 0
  <2>1. n + 1 \in 1..Len(m)
    BY <1>1
  <2> QED BY <1>1, <2>1, ListFacts
<1>5. /\ Total(LiveAmounts(m), n + 1) = Total(LiveAmounts(l), n) + s.amount
      /\ Total(EndedAmounts(m), n + 1) = Total(EndedAmounts(l), n) + 0
      /\ Total(ClaimedBonuses(m), n + 1) = Total(ClaimedBonuses(l), n) + 0
  <2>1. \A i \in 1..n : LiveAmounts(l)[i] \in Int /\ LiveAmounts(m)[i] = LiveAmounts(l)[i]
    BY <1>3
  <2>2. \A i \in 1..n : EndedAmounts(l)[i] \in Int /\ EndedAmounts(m)[i] = EndedAmounts(l)[i]
    BY <1>3
  <2>3. \A i \in 1..n : ClaimedBonuses(l)[i] \in Int /\ ClaimedBonuses(m)[i] = ClaimedBonuses(l)[i]
    BY <1>3
  <2>4. LiveAmounts(m)[n + 1] \in Int /\ EndedAmounts(m)[n + 1] \in Int /\ ClaimedBonuses(m)[n + 1] \in Int /\ n \in Nat
    BY <1>1, <1>2, <1>4
  <2>5. Total(LiveAmounts(m), n + 1) = Total(LiveAmounts(l), n) + LiveAmounts(m)[n + 1]
    BY ONLY <2>1, <2>4, TotalGrows
  <2>6. Total(EndedAmounts(m), n + 1) = Total(EndedAmounts(l), n) + EndedAmounts(m)[n + 1]
    BY ONLY <2>2, <2>4, TotalGrows
  <2>7. Total(ClaimedBonuses(m), n + 1) = Total(ClaimedBonuses(l), n) + ClaimedBonuses(m)[n + 1]
    BY ONLY <2>3, <2>4, TotalGrows
  <2> QED BY <1>4, <2>5, <2>6, <2>7
<1>6. Total(EndedAmounts(l), n) \in Int /\ Total(ClaimedBonuses(l), n) \in Int
  BY SumsTyped DEF n
<1> QED BY <1>1, <1>5, <1>6 DEF AddsUp, m, n

\* A stake that is live is ended.
LEMMA StakeEnded ==
    ASSUME NEW l \in StakeList, NEW t \in Int, NEW r \in Int, NEW k \in Int, AddsUp(l, t, r, k),
           NEW id \in DOMAIN l, l[id].active, NEW back \in Int, back <= l[id].amount
    PROVE  /\ [l EXCEPT ![id].active = FALSE] \in StakeList
           /\ AddsUp([l EXCEPT ![id].active = FALSE], t - l[id].amount, r + back, k)
<1> DEFINE m == [l EXCEPT ![id].active = FALSE]
           s == [l[id] EXCEPT !.active = FALSE]
           n == Len(l)
<1>1. n \in Nat /\ id \in 1..n /\ l[id] \in Bonuses!StakeRecord /\ l[id].amount \in Nat
  BY ListFacts
<1>2. m = [l EXCEPT ![id] = s]
  OBVIOUS
<1>3. /\ s.amount = l[id].amount /\ s.bonus = l[id].bonus /\ s.claimed = l[id].claimed
      /\ s.active = FALSE
  BY <1>1, StakeFields
<1>4. s \in Bonuses!StakeRecord
  BY <1>1 DEF Bonuses!StakeRecord
<1> HIDE DEF s
<1>5. /\ m \in StakeList /\ Len(m) = n /\ m[id] = s /\ \A i \in 1..n : i # id => m[i] = l[i]
  <2>1. l \in Seq(Bonuses!StakeRecord) /\ id \in 1..Len(l)
    BY <1>1 DEF StakeList
  <2>2. /\ [l EXCEPT ![id] = s] \in Seq(Bonuses!StakeRecord) /\ Len([l EXCEPT ![id] = s]) = Len(l)
        /\ \A j \in 1..Len(l) : [l EXCEPT ![id] = s][j] = IF j = id THEN s ELSE l[j]
    BY <1>4, <2>1, ExceptSeq
  <2> HIDE DEF m
  <2>3. m \in Seq(Bonuses!StakeRecord) /\ Len(m) = Len(l)
        /\ \A j \in 1..Len(l) : m[j] = IF j = id THEN s ELSE l[j]
    BY <1>2, <2>2, Zenon
  <2> QED BY <2>1, <2>3 DEF StakeList
<1> HIDE DEF m, n
<1>6. \A i \in 1..n : /\ i # id => /\ LiveAmounts(m)[i] = LiveAmounts(l)[i] /\ EndedAmounts(m)[i] = EndedAmounts(l)[i]
                      /\ ClaimedBonuses(m)[i] = ClaimedBonuses(l)[i]
                      /\ LiveAmounts(l)[i] \in Int /\ EndedAmounts(l)[i] \in Int /\ ClaimedBonuses(l)[i] \in Int
  <2> SUFFICES ASSUME NEW i \in 1..n
               PROVE  /\ i # id => /\ LiveAmounts(m)[i] = LiveAmounts(l)[i] /\ EndedAmounts(m)[i] = EndedAmounts(l)[i]
                      /\ ClaimedBonuses(m)[i] = ClaimedBonuses(l)[i]
                      /\ LiveAmounts(l)[i] \in Int /\ EndedAmounts(l)[i] \in Int /\ ClaimedBonuses(l)[i] \in Int
    OBVIOUS
  <2>1. i \in 1..Len(m) /\ i \in 1..Len(l)
    BY <1>5 DEF n
  <2>2. i # id => m[i] = l[i]
    BY <1>5
  <2>3. m[i].claimed = l[i].claimed /\ m[i].bonus = l[i].bonus
    BY <1>3, <1>5
  <2>4. LiveAmounts(l)[i] \in Int /\ EndedAmounts(l)[i] \in Int /\ ClaimedBonuses(l)[i] \in Int
    BY <2>1, Entry
  <2>5. i # id => LiveAmounts(m)[i] = LiveAmounts(l)[i]
    BY <1>5, <2>1, <2>2, Entry
  <2>6. i # id => EndedAmounts(m)[i] = EndedAmounts(l)[i]
    BY <1>5, <2>1, <2>2, Entry
  <2>7. ClaimedBonuses(m)[i] = ClaimedBonuses(l)[i]
    BY <1>5, <2>1, <2>3, Entry
  <2> QED BY <2>4, <2>5, <2>6, <2>7
<1>7. LiveAmounts(m)[id] = 0 /\ EndedAmounts(m)[id] = l[id].amount /\ LiveAmounts(l)[id] = l[id].amount /\ EndedAmounts(l)[id] = 0
  <2>1. id \in 1..Len(m) /\ id \in 1..Len(l)
    BY <1>1, <1>5 DEF n
  <2>2. LiveAmounts(m)[id] = 0 /\ EndedAmounts(m)[id] = l[id].amount
    BY <1>3, <1>5, <2>1, Entry
  <2>3. LiveAmounts(l)[id] = l[id].amount /\ EndedAmounts(l)[id] = 0
    BY <2>1, Entry
  <2> QED BY <2>2, <2>3
<1>8. Total(LiveAmounts(m), n) = Total(LiveAmounts(l), n) + 0 - l[id].amount
  <2>1. (\A i \in 1..n : LiveAmounts(l)[i] \in Int) /\ (\A i \in 1..n : i # id => LiveAmounts(m)[i] = LiveAmounts(l)[i])
    BY <1>6
  <2>2. LiveAmounts(m)[id] \in Int
    BY <1>7
  <2>3. Total(LiveAmounts(m), n) = Total(LiveAmounts(l), n) + LiveAmounts(m)[id] - LiveAmounts(l)[id]
    BY ONLY <1>1, <2>1, <2>2, TotalUpdate
  <2> QED BY <1>7, <2>3
<1>9. Total(EndedAmounts(m), n) = Total(EndedAmounts(l), n) + l[id].amount - 0
  <2>1. (\A i \in 1..n : EndedAmounts(l)[i] \in Int) /\ (\A i \in 1..n : i # id => EndedAmounts(m)[i] = EndedAmounts(l)[i])
    BY <1>6
  <2>2. EndedAmounts(m)[id] \in Int
    BY <1>1, <1>7
  <2>3. Total(EndedAmounts(m), n) = Total(EndedAmounts(l), n) + EndedAmounts(m)[id] - EndedAmounts(l)[id]
    BY ONLY <1>1, <2>1, <2>2, TotalUpdate
  <2> QED BY <1>7, <2>3
<1>10. Total(ClaimedBonuses(m), n) = Total(ClaimedBonuses(l), n)
  BY <1>1, <1>6, TotalSame
<1>11. Total(LiveAmounts(l), n) \in Int /\ Total(EndedAmounts(l), n) \in Int
  BY SumsTyped DEF n
<1> QED BY <1>1, <1>5, <1>8, <1>9, <1>10, <1>11 DEF AddsUp, m, n

\* The bonuses of a list that can be claimed are.
LEMMA BonusesMarked ==
    ASSUME NEW l \in StakeList, NEW t \in Int, NEW r \in Int, NEW k \in Int, AddsUp(l, t, r, k)
    PROVE  /\ Bonuses!Settled(l) \in StakeList
           /\ AddsUp(Bonuses!Settled(l), t, r, k + Total(Payable(l), Len(l)))
           /\ (Bonuses!Settled(l) = <<>> <=> l = <<>>)
<1> DEFINE m == [i \in DOMAIN l |-> [l[i] EXCEPT !.claimed = @ \/ Bonuses!Claimable(l[i])]]
           n == Len(l)
<1>1. n \in Nat /\ DOMAIN l = 1..n /\ \A i \in 1..n : l[i] \in Bonuses!StakeRecord
  BY ListFacts
<1>2. ASSUME NEW i \in 1..n
      PROVE  /\ m[i] \in Bonuses!StakeRecord /\ m[i].amount = l[i].amount /\ m[i].bonus = l[i].bonus
             /\ m[i].active = l[i].active /\ (m[i].claimed <=> (l[i].claimed \/ Bonuses!Claimable(l[i])))
  <2> DEFINE b == l[i].claimed \/ Bonuses!Claimable(l[i])
  <2>1. \E c \in BOOLEAN : c = b
    <3>1. b \in BOOLEAN
      OBVIOUS
    <3> QED BY <3>1, Zenon
  <2>2. PICK c \in BOOLEAN : c = b
    BY <2>1
  <2>3. m[i] = [l[i] EXCEPT !.claimed = b]
    BY <1>1
  <2>4. m[i] = [l[i] EXCEPT !.claimed = c]
    BY <2>2, <2>3, Zenon
  <2>5. c <=> b
    BY <2>2
  <2>6. l[i] \in Bonuses!StakeRecord
    BY <1>1
  <2> HIDE DEF m, b
  <2>7. [l[i] EXCEPT !.claimed = c] \in Bonuses!StakeRecord
    BY <2>6 DEF Bonuses!StakeRecord
  <2>8. /\ [l[i] EXCEPT !.claimed = c].amount = l[i].amount
        /\ [l[i] EXCEPT !.claimed = c].bonus = l[i].bonus
        /\ [l[i] EXCEPT !.claimed = c].active = l[i].active
        /\ [l[i] EXCEPT !.claimed = c].claimed = c
    BY <2>6 DEF Bonuses!StakeRecord
  <2> QED BY <2>4, <2>5, <2>7, <2>8 DEF b
<1>0. m = Bonuses!Settled(l)
  BY DEF Bonuses!Settled
<1>3. m \in StakeList /\ Len(m) = n
  <2>1. m = [i \in 1..n |-> m[i]] /\ \A i \in 1..n : m[i] \in Bonuses!StakeRecord
    BY <1>1, <1>2
  <2> HIDE DEF m
  <2> QED BY <1>1, <2>1, FunctionIsSequence DEF StakeList
<1>4. m = <<>> <=> l = <<>>
  <2> HIDE DEF m
  <2> QED BY <1>1, <1>3, EmptySeq DEF StakeList
<1> HIDE DEF m, n
<1>5. \A i \in 1..n : /\ LiveAmounts(m)[i] = LiveAmounts(l)[i] /\ EndedAmounts(m)[i] = EndedAmounts(l)[i]
                      /\ ClaimedBonuses(m)[i] = ClaimedBonuses(l)[i] + 1 * Payable(l)[i]
                      /\ LiveAmounts(l)[i] \in Int /\ EndedAmounts(l)[i] \in Int /\ ClaimedBonuses(l)[i] \in Int
                      /\ Payable(l)[i] \in Int
  <2> SUFFICES ASSUME NEW i \in 1..n
               PROVE  /\ LiveAmounts(m)[i] = LiveAmounts(l)[i] /\ EndedAmounts(m)[i] = EndedAmounts(l)[i]
                      /\ ClaimedBonuses(m)[i] = ClaimedBonuses(l)[i] + 1 * Payable(l)[i]
                      /\ LiveAmounts(l)[i] \in Int /\ EndedAmounts(l)[i] \in Int /\ ClaimedBonuses(l)[i] \in Int
                      /\ Payable(l)[i] \in Int
    OBVIOUS
  <2>1. i \in 1..Len(m) /\ i \in 1..Len(l)
    BY <1>3 DEF n
  <2>2. Bonuses!Claimable(l[i]) => ~l[i].claimed
    BY DEF Bonuses!Claimable
  <2>3. l[i].bonus \in Int
    BY <2>1, ListFacts
  <2>4. ClaimedBonuses(m)[i] = ClaimedBonuses(l)[i] + Payable(l)[i]
    BY <1>2, <1>3, <2>1, <2>2, <2>3, ListFacts
  <2>5. LiveAmounts(m)[i] = LiveAmounts(l)[i] /\ EndedAmounts(m)[i] = EndedAmounts(l)[i]
    <3>1. /\ l \in StakeList /\ m \in StakeList
          /\ m[i].active = l[i].active /\ m[i].amount = l[i].amount
      BY <1>2, <1>3
    <3> QED BY ONLY <2>1, <3>1, Entry
  <2>6. LiveAmounts(l)[i] \in Int /\ EndedAmounts(l)[i] \in Int /\ ClaimedBonuses(l)[i] \in Int /\ Payable(l)[i] \in Int
    BY <2>1, ListFacts
  <2> QED BY <2>4, <2>5, <2>6
<1>6. Total(LiveAmounts(m), n) = Total(LiveAmounts(l), n) /\ Total(EndedAmounts(m), n) = Total(EndedAmounts(l), n)
  <2>1. \A i \in 1..n : LiveAmounts(l)[i] \in Int /\ LiveAmounts(m)[i] = LiveAmounts(l)[i]
    BY <1>5
  <2>2. \A i \in 1..n : EndedAmounts(l)[i] \in Int /\ EndedAmounts(m)[i] = EndedAmounts(l)[i]
    BY <1>5
  <2> QED BY ONLY <1>1, <2>1, <2>2, TotalSame
<1>7. Total(ClaimedBonuses(m), n) = Total(ClaimedBonuses(l), n) + 1 * Total(Payable(l), n)
  <2>1. \A i \in 1..n : ClaimedBonuses(l)[i] \in Int /\ Payable(l)[i] \in Int
                         /\ ClaimedBonuses(m)[i] = ClaimedBonuses(l)[i] + 1 * Payable(l)[i]
    BY <1>5
  <2> QED BY ONLY <1>1, <2>1, 1 \in Int, TotalPlus
<1>8. Total(Payable(l), n) \in Int /\ Total(ClaimedBonuses(l), n) \in Int
  BY SumsTyped DEF n
<1>9. AddsUp(m, t, r, k + Total(Payable(l), n))
  BY <1>3, <1>6, <1>7, <1>8 DEF AddsUp, n
<1> QED BY <1>0, <1>3, <1>4, <1>9 DEF n

LEMMA BonusConstants ==
    /\ IsFiniteSet(bonus.Users) /\ bonus.Tiers \subseteq Nat /\ bonus.BonusParts \in [bonus.Tiers -> Nat]
    /\ bonus.BonusUnit \in Nat \ {0} /\ bonus.Penalty \in Nat \ {0} /\ bonus.HoldingPeriod \in Nat
    /\ bonus.Amounts \subseteq Nat
<1>1. Bonuses!BonusAssumption
  BY CoreAssumption
<1>2. Bonuses!IsFiniteSet(bonus.Users)
  BY <1>1 DEF Bonuses!BonusAssumption
<1>3. IsFiniteSet(bonus.Users)
  BY <1>2 DEF Bonuses!IsFiniteSet, IsFiniteSet
<1> QED BY <1>1, <1>3 DEF Bonuses!BonusAssumption

LEMMA BonusSums ==
    /\ \A f, n : Bonuses!Total(f, n) = Total(f, n)
    /\ \A f, S : Bonuses!SetTotal(f, S) = SetTotal(f, S)
<1>1. \A f, n : Bonuses!Total(f, n) = Total(f, n)
  BY DEF Bonuses!Total, Total, Bonuses!PartialSums, PartialSums
<1>2. ASSUME NEW f, NEW S PROVE Bonuses!SetTotal(f, S) = SetTotal(f, S)
  <2>1. Bonuses!Cardinality(S) = Cardinality(S)
    BY DEF Bonuses!Cardinality, Cardinality
  <2>2. Bonuses!Enumeration(S) = Enumeration(S)
    BY <2>1 DEF Bonuses!Enumeration, Enumeration
  <2> QED BY <1>1, <2>1, <2>2 DEF Bonuses!SetTotal, SetTotal
<1> QED BY <1>1, <1>2

\* A sum over the stakers changes by what one of them changes.
LEMMA OneStaker ==
    ASSUME NEW u \in bonus.Users, NEW f, NEW h,
           \A v \in bonus.Users : f[v] \in Int /\ h[v] \in Int /\ (u # v => h[v] = f[v])
    PROVE  SetTotal(h, bonus.Users) = SetTotal(f, bonus.Users) + h[u] - f[u]
<1> DEFINE S == bonus.Users
<1>1. IsFiniteSet(S) /\ u \in S
  BY BonusConstants
<1>2. (\A v \in S : f[v] \in Int) /\ h[u] \in Int
  OBVIOUS
<1>3. \A v \in S : v # u => h[v] = f[v]
  OBVIOUS
<1>4. SetTotal(h, S) = SetTotal(f, S) + h[u] - f[u]
  <2> HIDE DEF S
  <2> QED BY ONLY <1>1, <1>2, <1>3, SetTotalUpdate
<1> QED BY <1>4

\* How often u is in the registry q.
Entered(q, u) == [i \in DOMAIN q |-> IF q[i] = u THEN 1 ELSE 0]
Occurs(q, u) == Total(Entered(q, u), Len(q))

\* The registry holds each staker once.
EachOnce(q, lists) ==
    \A u \in bonus.Users : Occurs(q, u) = IF lists[u] = <<>> THEN 0 ELSE 1

BonusTyped ==
    /\ s1 \in [bonus.Users -> StakeList] /\ s2 \in [bonus.Users -> Int]
    /\ s5 \in [bonus.Users -> Int] /\ s9 \in [bonus.Users -> Int]
    /\ s7 \in Seq(bonus.Users) /\ s10 \in Nat

BonusTotals ==
    /\ \A u \in bonus.Users : AddsUp(s1[u], s2[u], s9[u], s5[u])
    /\ s3 = SetTotal(s2, bonus.Users) /\ s6 = SetTotal(s5, bonus.Users)

BonusInv == BonusTyped /\ BonusTotals /\ EachOnce(s7, s1)

LEMMA BonusBegins ==
    ASSUME Bonuses!Init
    PROVE  BonusInv
<1>1. /\ s1 = [u \in bonus.Users |-> <<>>] /\ s2 = [u \in bonus.Users |-> 0] /\ s3 = 0
      /\ s5 = [u \in bonus.Users |-> 0] /\ s6 = 0 /\ s7 = <<>> /\ s9 = [u \in bonus.Users |-> 0]
      /\ s10 = 1
  BY DEF Bonuses!Init
<1>2. <<>> \in StakeList /\ s7 \in Seq(bonus.Users) /\ Len(<<>>) = 0
  BY <1>1 DEF StakeList
<1>3. BonusTyped
  BY <1>1, <1>2 DEF BonusTyped
<1>4. \A u \in bonus.Users : s2[u] = 0 /\ s5[u] = 0 /\ s1[u] = <<>> /\ s9[u] = 0
  BY <1>1
<1>5. SetTotal(s2, bonus.Users) = 0 /\ SetTotal(s5, bonus.Users) = 0
  BY <1>4, BonusConstants, SetTotalZero
<1>6. AddsUp(<<>>, 0, 0, 0)
  BY <1>2, TotalEmpty DEF AddsUp
<1>7. BonusTotals
  BY <1>1, <1>4, <1>5, <1>6 DEF BonusTotals
<1>8. \A u \in bonus.Users : Occurs(s7, u) = 0
  BY <1>1, <1>2, TotalEmpty DEF Occurs
<1> QED BY <1>3, <1>4, <1>7, <1>8 DEF BonusInv, EachOnce

\* One staker's list changes with what it adds up to.
LEMMA StakerMoves ==
    ASSUME BonusInv, NEW u \in bonus.Users, NEW l \in StakeList, NEW t \in Int, NEW r \in Int,
           NEW k \in Int, AddsUp(l, t, r, k),
           s1' = [s1 EXCEPT ![u] = l], s2' = [s2 EXCEPT ![u] = t], s5' = [s5 EXCEPT ![u] = k],
           s9' = [s9 EXCEPT ![u] = r], s3' = s3 + (t - s2[u]), s6' = s6 + (k - s5[u]),
           s7' \in Seq(bonus.Users), EachOnce(s7', s1'), s10' \in Nat
    PROVE  BonusInv'
<1>1. BonusTyped /\ BonusTotals
  BY DEF BonusInv
<1>2. BonusTyped'
  BY <1>1 DEF BonusTyped
<1>3. /\ s1'[u] = l /\ s2'[u] = t /\ s5'[u] = k /\ s9'[u] = r
      /\ \A v \in bonus.Users : v # u => /\ s1'[v] = s1[v] /\ s2'[v] = s2[v] /\ s5'[v] = s5[v]
                                         /\ s9'[v] = s9[v]
  BY <1>1 DEF BonusTyped
<1>4. \A v \in bonus.Users : AddsUp(s1'[v], s2'[v], s9'[v], s5'[v])
  BY <1>1, <1>3 DEF BonusTotals
<1>5. \A v \in bonus.Users : s2[v] \in Int /\ s2'[v] \in Int /\ (u # v => s2'[v] = s2[v])
  BY <1>1, <1>2, <1>3 DEF BonusTyped
<1>6. SetTotal(s2', bonus.Users) = SetTotal(s2, bonus.Users) + s2'[u] - s2[u]
  BY ONLY <1>5, OneStaker, u \in bonus.Users
<1>7. \A v \in bonus.Users : s5[v] \in Int /\ s5'[v] \in Int /\ (u # v => s5'[v] = s5[v])
  BY <1>1, <1>2, <1>3 DEF BonusTyped
<1>8. SetTotal(s5', bonus.Users) = SetTotal(s5, bonus.Users) + s5'[u] - s5[u]
  BY ONLY <1>7, OneStaker, u \in bonus.Users
<1>9. SetTotal(s2, bonus.Users) \in Int /\ SetTotal(s5, bonus.Users) \in Int
  BY <1>5, <1>7, BonusConstants, SetTotalInt
<1>10. s3 = SetTotal(s2, bonus.Users) /\ s6 = SetTotal(s5, bonus.Users)
  BY <1>1 DEF BonusTotals
<1>11. s2[u] \in Int /\ s5[u] \in Int
  BY <1>5, <1>7
<1>12. s3' = SetTotal(s2', bonus.Users) /\ s6' = SetTotal(s5', bonus.Users)
  BY <1>3, <1>6, <1>8, <1>9, <1>10, <1>11
<1>13. BonusTotals'
  <2>1. (\A v \in bonus.Users : AddsUp(s1[v], s2[v], s9[v], s5[v]))'
    BY <1>4 DEF AddsUp, LiveAmounts, EndedAmounts, ClaimedBonuses
  <2> QED BY <1>12, <2>1 DEF BonusTotals
<1>14. EachOnce(s7, s1)'
  BY DEF EachOnce, Occurs, Entered
<1> QED BY <1>2, <1>13, <1>14 DEF BonusInv

\* A staker not in the registry is entered.
LEMMA EnteredOnce ==
    ASSUME NEW q \in Seq(bonus.Users), NEW u \in bonus.Users, NEW v
    PROVE  Occurs(Append(q, u), v) = Occurs(q, v) + (IF u = v THEN 1 ELSE 0)
<1> DEFINE m == Append(q, u)
           n == Len(q)
<1>1. /\ m \in Seq(bonus.Users) /\ Len(m) = n + 1 /\ n \in Nat /\ DOMAIN q = 1..n /\ DOMAIN m = 1..(n + 1)
      /\ (\A i \in 1..n : m[i] = q[i]) /\ m[n + 1] = u
  BY AppendProperties, ItsEntries
<1> HIDE DEF m, n
<1>2. \A i \in 1..n : Entered(q, v)[i] \in Int /\ Entered(m, v)[i] = Entered(q, v)[i]
  BY <1>1 DEF Entered
<1>3. Entered(m, v)[n + 1] = (IF u = v THEN 1 ELSE 0) /\ Entered(m, v)[n + 1] \in Int
  BY <1>1 DEF Entered
<1>4. Total(Entered(m, v), n + 1) = Total(Entered(q, v), n) + Entered(m, v)[n + 1]
  BY ONLY <1>1, <1>2, <1>3, TotalGrows
<1> QED BY <1>1, <1>3, <1>4 DEF Occurs, m, n

\* Nothing about the stakes changes but the clock and what a distribution earns.
LEMMA BonusLasts ==
    ASSUME BonusInv, UNCHANGED <<s1, s2, s3, s5, s6, s7, s9>>, s10' \in Nat
    PROVE  BonusInv'
<1>1. BonusTyped'
  BY DEF BonusInv, BonusTyped
<1>2. BonusTotals'
  BY DEF BonusInv, BonusTotals, AddsUp, LiveAmounts, EndedAmounts, ClaimedBonuses
<1>3. EachOnce(s7, s1)'
  BY DEF BonusInv, EachOnce, Occurs, Entered
<1> QED BY <1>1, <1>2, <1>3 DEF BonusInv

LEMMA StakeGoesOn ==
    ASSUME BonusInv, NEW u \in bonus.Users, NEW amount \in bonus.Amounts, NEW tier \in bonus.Tiers,
           Bonuses!Stake(u, amount, tier)
    PROVE  BonusInv'
<1> DEFINE s == [amount |-> amount, unlock |-> s10 + tier, bonus |-> Bonuses!Bonus(amount, tier),
                 claimed |-> FALSE, claimable |-> s10 + bonus.HoldingPeriod, active |-> TRUE]
           l == Append(s1[u], s)
<1>1. BonusTyped /\ BonusTotals /\ EachOnce(s7, s1)
  BY DEF BonusInv
<1>2. /\ s1' = [s1 EXCEPT ![u] = l] /\ s2' = [s2 EXCEPT ![u] = s2[u] + amount] /\ s3' = s3 + amount
      /\ s7' = (IF s1[u] = <<>> THEN Append(s7, u) ELSE s7) /\ UNCHANGED <<s5, s6, s9, s10>>
  BY DEF Bonuses!Stake
<1>3. /\ s1[u] \in StakeList /\ s2[u] \in Int /\ s5[u] \in Int /\ s9[u] \in Int /\ s10 \in Nat
      /\ s7 \in Seq(bonus.Users) /\ amount \in Nat /\ tier \in Nat /\ bonus.HoldingPeriod \in Nat
  BY <1>1, BonusConstants DEF BonusTyped
<1>4. Bonuses!Bonus(amount, tier) \in Nat
  <2> DEFINE x == amount * bonus.BonusParts[tier]
  <2>1. bonus.BonusParts[tier] \in Nat /\ bonus.BonusUnit \in Nat \ {0}
    BY BonusConstants
  <2>2. x \in Nat
    BY <1>3, <2>1, ProductNat
  <2>3. Bonuses!Bonus(amount, tier) = x \div bonus.BonusUnit
    BY DEF Bonuses!Bonus
  <2> HIDE DEF x
  <2> QED BY <2>1, <2>2, <2>3, RoundedDown
<1>5. s \in Bonuses!StakeRecord /\ s.active /\ ~s.claimed /\ s.amount = amount
  <2>1. s10 + tier \in Nat /\ s10 + bonus.HoldingPeriod \in Nat
    BY <1>3
  <2>2. s.active /\ ~s.claimed /\ s.amount = amount
    OBVIOUS
  <2> QED BY <1>3, <1>4, <2>1, <2>2 DEF Bonuses!StakeRecord
<1> HIDE DEF s
<1>6. AddsUp(s1[u], s2[u], s9[u], s5[u])
  BY <1>1 DEF BonusTotals
<1>7. l \in StakeList /\ AddsUp(l, s2[u] + amount, s9[u], s5[u])
  BY <1>3, <1>5, <1>6, StakeMade
<1>8. l # <<>>
  BY <1>3, <1>5, AppendProperties DEF StakeList
<1> HIDE DEF l
<1>9. s7' \in Seq(bonus.Users)
  BY <1>2, <1>3, AppendProperties
<1>10. EachOnce(s7', s1')
  <2> SUFFICES ASSUME NEW v \in bonus.Users
               PROVE  Occurs(s7', v) = IF s1'[v] = <<>> THEN 0 ELSE 1
    BY DEF EachOnce
  <2>1. Occurs(s7, v) = IF s1[v] = <<>> THEN 0 ELSE 1
    BY <1>1 DEF EachOnce
  <2>2. s1'[v] = IF v = u THEN l ELSE s1[v]
    BY <1>1, <1>2 DEF BonusTyped
  <2>3. Occurs(s7', v) = Occurs(s7, v) + (IF s1[u] = <<>> /\ u = v THEN 1 ELSE 0)
    <3>1. CASE s1[u] = <<>>
      <4>1. s7' = Append(s7, u)
        BY <1>2, <3>1
      <4>2. Occurs(Append(s7, u), v) = Occurs(s7, v) + (IF u = v THEN 1 ELSE 0)
        BY <1>3, EnteredOnce
      <4> QED BY <3>1, <4>1, <4>2
    <3>2. CASE s1[u] # <<>>
      BY <1>2, <2>1, <3>2
    <3> QED BY <3>1, <3>2
  <2> QED BY <1>8, <2>1, <2>2, <2>3
<1>11. s5' = [s5 EXCEPT ![u] = s5[u]] /\ s9' = [s9 EXCEPT ![u] = s9[u]]
  BY <1>1, <1>2 DEF BonusTyped
<1>12. SetTotal(s5, bonus.Users) \in Int
  <2>1. \A v \in bonus.Users : s5[v] \in Int
    BY <1>1 DEF BonusTyped
  <2> QED BY <2>1, BonusConstants, SetTotalInt
<1>13. s3' = s3 + ((s2[u] + amount) - s2[u]) /\ s6' = s6 + (s5[u] - s5[u])
  BY <1>1, <1>2, <1>3, <1>12 DEF BonusTotals
<1>14. s2[u] + amount \in Int /\ s10' \in Nat
  BY <1>2, <1>3
<1> QED BY <1>2, <1>3, <1>7, <1>9, <1>10, <1>11, <1>13, <1>14, StakerMoves

\* A live stake is ended and its principal, or less of it, handed back.
LEMMA EndedGoesOn ==
    ASSUME BonusInv, NEW u \in bonus.Users, NEW id \in DOMAIN s1[u], s1[u][id].active,
           NEW back \in Int, back <= s1[u][id].amount, Bonuses!Ended(u, id, back)
    PROVE  BonusInv'
<1> DEFINE l == [s1[u] EXCEPT ![id].active = FALSE]
           a == s1[u][id].amount
<1>1. BonusTyped /\ BonusTotals /\ EachOnce(s7, s1)
  BY DEF BonusInv
<1>2. /\ s1' = [s1 EXCEPT ![u] = l] /\ s2' = [s2 EXCEPT ![u] = s2[u] - a] /\ s3' = s3 - a
      /\ s9' = [s9 EXCEPT ![u] = s9[u] + back] /\ UNCHANGED <<s5, s6, s7, s10>>
  BY DEF Bonuses!Ended
<1>3. /\ s1[u] \in StakeList /\ s2[u] \in Int /\ s5[u] \in Int /\ s9[u] \in Int /\ s10 \in Nat
      /\ s7 \in Seq(bonus.Users)
  BY <1>1 DEF BonusTyped
<1>4. a \in Nat
  BY <1>3, ListFacts
<1>5. AddsUp(s1[u], s2[u], s9[u], s5[u])
  BY <1>1 DEF BonusTotals
<1>6. l \in StakeList /\ AddsUp(l, s2[u] - a, s9[u] + back, s5[u])
  BY <1>3, <1>5, StakeEnded
<1>7. l # <<>> /\ s1[u] # <<>>
  <2>1. s1[u] # <<>>
    BY <1>3, ItsEntries DEF StakeList
  <2>2. DOMAIN l = DOMAIN s1[u]
    OBVIOUS
  <2> HIDE DEF l
  <2> QED BY <2>1, <2>2
<1> HIDE DEF l, a
<1>8. EachOnce(s7', s1')
  <2> SUFFICES ASSUME NEW v \in bonus.Users
               PROVE  Occurs(s7', v) = IF s1'[v] = <<>> THEN 0 ELSE 1
    BY DEF EachOnce
  <2>1. Occurs(s7, v) = IF s1[v] = <<>> THEN 0 ELSE 1
    BY <1>1 DEF EachOnce
  <2>2. s1'[v] = IF v = u THEN l ELSE s1[v]
    BY <1>1, <1>2 DEF BonusTyped
  <2> QED BY <1>2, <1>7, <2>1, <2>2
<1>9. s5' = [s5 EXCEPT ![u] = s5[u]]
  BY <1>1, <1>2 DEF BonusTyped
<1>10. SetTotal(s5, bonus.Users) \in Int /\ SetTotal(s2, bonus.Users) \in Int
  <2>1. \A v \in bonus.Users : s5[v] \in Int /\ s2[v] \in Int
    BY <1>1 DEF BonusTyped
  <2> QED BY <2>1, BonusConstants, SetTotalInt
<1>11. s3' = s3 + ((s2[u] - a) - s2[u]) /\ s6' = s6 + (s5[u] - s5[u])
  BY <1>1, <1>2, <1>3, <1>4, <1>10 DEF BonusTotals
<1>12. s2[u] - a \in Int /\ s9[u] + back \in Int /\ s10' \in Nat /\ s7' \in Seq(bonus.Users)
  BY <1>2, <1>3, <1>4
<1> QED BY <1>2, <1>3, <1>6, <1>8, <1>9, <1>11, <1>12, StakerMoves

LEMMA ClaimGoesOn ==
    ASSUME BonusInv, NEW u \in bonus.Users, Bonuses!ClaimBonuses(u)
    PROVE  BonusInv'
<1> DEFINE l == Bonuses!Settled(s1[u])
           c == Total(Payable(s1[u]), Len(s1[u]))
<1>1. BonusTyped /\ BonusTotals /\ EachOnce(s7, s1)
  BY DEF BonusInv
<1>2. /\ s1' = [s1 EXCEPT ![u] = l] /\ s5' = [s5 EXCEPT ![u] = s5[u] + c] /\ s6' = s6 + c
      /\ UNCHANGED <<s2, s3, s7, s9, s10>>
  <2>1. Bonuses!SumOf(s1[u], LAMBDA s : IF Bonuses!Claimable(s) THEN s.bonus ELSE 0) = c
    BY BonusSums DEF Bonuses!SumOf, Payable
  <2>2. /\ s5' = [s5 EXCEPT ![u] = s5[u] + Bonuses!SumOf(s1[u], LAMBDA s : IF Bonuses!Claimable(s) THEN s.bonus ELSE 0)]
        /\ s6' = s6 + Bonuses!SumOf(s1[u], LAMBDA s : IF Bonuses!Claimable(s) THEN s.bonus ELSE 0)
    BY DEF Bonuses!ClaimBonuses
  <2>3. s1' = [s1 EXCEPT ![u] = l] /\ UNCHANGED <<s2, s3, s7, s9, s10>>
    BY DEF Bonuses!ClaimBonuses
  <2> HIDE DEF l, c
  <2> QED BY <2>1, <2>2, <2>3
<1>3. /\ s1[u] \in StakeList /\ s2[u] \in Int /\ s5[u] \in Int /\ s9[u] \in Int /\ s10 \in Nat
      /\ s7 \in Seq(bonus.Users)
  BY <1>1 DEF BonusTyped
<1>4. AddsUp(s1[u], s2[u], s9[u], s5[u])
  BY <1>1 DEF BonusTotals
<1>5. l \in StakeList /\ AddsUp(l, s2[u], s9[u], s5[u] + c) /\ (l = <<>> <=> s1[u] = <<>>)
  BY <1>3, <1>4, BonusesMarked
<1>6. c \in Int
  BY <1>3, SumsTyped
<1> HIDE DEF l, c
<1>7. EachOnce(s7', s1')
  <2> SUFFICES ASSUME NEW v \in bonus.Users
               PROVE  Occurs(s7', v) = IF s1'[v] = <<>> THEN 0 ELSE 1
    BY DEF EachOnce
  <2>1. Occurs(s7, v) = IF s1[v] = <<>> THEN 0 ELSE 1
    BY <1>1 DEF EachOnce
  <2>2. s1'[v] = IF v = u THEN l ELSE s1[v]
    BY <1>1, <1>2 DEF BonusTyped
  <2> QED BY <1>2, <1>5, <2>1, <2>2
<1>8. s2' = [s2 EXCEPT ![u] = s2[u]] /\ s9' = [s9 EXCEPT ![u] = s9[u]]
  BY <1>1, <1>2 DEF BonusTyped
<1>9. SetTotal(s5, bonus.Users) \in Int /\ SetTotal(s2, bonus.Users) \in Int
  <2>1. \A v \in bonus.Users : s5[v] \in Int /\ s2[v] \in Int
    BY <1>1 DEF BonusTyped
  <2> QED BY <2>1, BonusConstants, SetTotalInt
<1>10. s3' = s3 + (s2[u] - s2[u]) /\ s6' = s6 + ((s5[u] + c) - s5[u])
  BY <1>1, <1>2, <1>3, <1>6, <1>9 DEF BonusTotals
<1>11. s5[u] + c \in Int /\ s10' \in Nat /\ s7' \in Seq(bonus.Users)
  BY <1>2, <1>3, <1>6
<1> QED BY <1>2, <1>3, <1>5, <1>7, <1>8, <1>10, <1>11, StakerMoves

LEMMA BonusGoesOn ==
    ASSUME BonusInv, Bonuses!Next
    PROVE  BonusInv'
<1>1. BonusTyped
  BY DEF BonusInv
<1>2. ASSUME NEW u \in bonus.Users, NEW id \in DOMAIN s1[u]
      PROVE  s1[u][id].amount \in Nat /\ s1[u][id].amount \div bonus.Penalty \in Nat
  <2>1. s1[u] \in StakeList
    BY <1>1 DEF BonusTyped
  <2>2. s1[u][id].amount \in Nat
    BY <2>1, ListFacts
  <2> QED BY <2>2, BonusConstants, RoundedDown
<1>3. ASSUME NEW u \in bonus.Users, NEW id \in DOMAIN s1[u], Bonuses!UnstakeEarly(u, id)
      PROVE  BonusInv'
  <2> DEFINE a == s1[u][id].amount
             x == a \div bonus.Penalty
  <2>1. s1[u][id].active /\ Bonuses!Ended(u, id, a - x)
    BY <1>3 DEF Bonuses!UnstakeEarly
  <2>2. a - x \in Int /\ a - x <= a
    <3>1. a \in Nat /\ x \in Nat
      BY <1>2
    <3> HIDE DEF a, x
    <3> QED BY <3>1
  <2> QED BY <2>1, <2>2, EndedGoesOn
<1>4. ASSUME NEW u \in bonus.Users, NEW id \in DOMAIN s1[u], Bonuses!ClaimStake(u, id)
      PROVE  BonusInv'
  <2>1. s1[u][id].active /\ Bonuses!Ended(u, id, s1[u][id].amount) /\ s1[u][id].amount \in Int
        /\ s1[u][id].amount <= s1[u][id].amount
    BY <1>2, <1>4 DEF Bonuses!ClaimStake
  <2> QED BY <2>1, EndedGoesOn
<1>5. CASE Bonuses!ExecuteDistribution
  <2>1. UNCHANGED <<s1, s2, s3, s5, s6, s7, s9, s10>>
    BY <1>5 DEF Bonuses!ExecuteDistribution
  <2>2. s10' \in Nat
    BY <1>1, <2>1 DEF BonusTyped
  <2> QED BY <2>1, <2>2, BonusLasts
<1>6. CASE Bonuses!Tick
  <2>1. UNCHANGED <<s1, s2, s3, s5, s6, s7, s9>> /\ s10' = s10 + 1
    BY <1>6 DEF Bonuses!Tick
  <2>2. s10' \in Nat
    BY <1>1, <2>1 DEF BonusTyped
  <2> QED BY <2>1, <2>2, BonusLasts
<1> QED BY <1>3, <1>4, <1>5, <1>6, StakeGoesOn, ClaimGoesOn DEF Bonuses!Next

\* What the runs check is the invariant.
LEMMA BonusAddsUp ==
    ASSUME BonusInv
    PROVE  Bonuses!StakesAddUp
<1>1. /\ \A u \in bonus.Users : AddsUp(s1[u], s2[u], s9[u], s5[u])
      /\ s3 = SetTotal(s2, bonus.Users) /\ s6 = SetTotal(s5, bonus.Users)
      /\ \A u \in bonus.Users : Occurs(s7, u) = IF s1[u] = <<>> THEN 0 ELSE 1
  BY DEF BonusInv, BonusTotals, EachOnce
<1>2. ASSUME NEW u \in bonus.Users
      PROVE  /\ s2[u] = Bonuses!SumOf(s1[u], LAMBDA s : IF s.active THEN s.amount ELSE 0)
             /\ s9[u] <= Bonuses!SumOf(s1[u], LAMBDA s : IF s.active THEN 0 ELSE s.amount)
             /\ s5[u] = Bonuses!SumOf(s1[u], LAMBDA s : IF s.claimed THEN s.bonus ELSE 0)
             /\ Bonuses!Registered(u) = (IF s1[u] = <<>> THEN 0 ELSE 1)
  <2>1. AddsUp(s1[u], s2[u], s9[u], s5[u]) /\ Occurs(s7, u) = IF s1[u] = <<>> THEN 0 ELSE 1
    BY <1>1
  <2>2. s2[u] = Bonuses!SumOf(s1[u], LAMBDA s : IF s.active THEN s.amount ELSE 0)
    BY <2>1, BonusSums DEF Bonuses!SumOf, AddsUp, LiveAmounts
  <2>3. s9[u] <= Bonuses!SumOf(s1[u], LAMBDA s : IF s.active THEN 0 ELSE s.amount)
    BY <2>1, BonusSums DEF Bonuses!SumOf, AddsUp, EndedAmounts
  <2>4. s5[u] = Bonuses!SumOf(s1[u], LAMBDA s : IF s.claimed THEN s.bonus ELSE 0)
    BY <2>1, BonusSums DEF Bonuses!SumOf, AddsUp, ClaimedBonuses
  <2>5. Bonuses!Registered(u) = (IF s1[u] = <<>> THEN 0 ELSE 1)
    BY <2>1, BonusSums DEF Bonuses!Registered, Bonuses!SumOf, Occurs, Entered
  <2> QED BY <2>2, <2>3, <2>4, <2>5
<1> QED BY <1>1, <1>2, BonusSums DEF Bonuses!StakesAddUp

\* Staking, farming and bonuses (farming.rs, staking_bonus.rs): what was claimed and is
\* pending is within what the pool emitted, and the totals are those of the stakes.
THEOREM StakersAreCoveredAlways == CoreSpec => []StakersAreCovered
<1> DEFINE Inv == /\ part = "farming" => FarmInv
                  /\ part = "bonuses" => BonusInv
<1>1. CoreInit => Inv
  BY PartBegins, FarmBegins, BonusBegins DEF InFarming, InBonuses
<1>2. Inv /\ [CoreNext]_vars => Inv'
  <2>1. ASSUME Inv, CoreNext, part = "farming" PROVE Inv'
    BY <2>1, PartGoesOn, FarmGoesOn DEF FarmingStep
  <2>2. ASSUME Inv, CoreNext, part = "bonuses" PROVE Inv'
    BY <2>2, PartGoesOn, BonusGoesOn DEF BonusesStep
  <2>3. ASSUME Inv, CoreNext, part # "farming", part # "bonuses" PROVE Inv'
    BY <2>3, PartGoesOn
  <2>4. ASSUME Inv, UNCHANGED vars, part = "farming" PROVE Inv'
    BY <2>4, NothingMoves DEF FarmInv, FarmTyped, Covered, Due, Farms!PoolFarmState,
                              Farms!UserFarmPosition
  <2>5. ASSUME Inv, UNCHANGED vars, part = "bonuses" PROVE Inv'
    <3>1. UNCHANGED <<part, s1, s2, s3, s5, s6, s7, s9, s10>>
      BY <2>5, NothingMoves
    <3>2. s10' \in Nat
      BY <2>5, <3>1 DEF BonusInv, BonusTyped
    <3> QED BY <2>5, <3>1, <3>2, BonusLasts
  <2>6. ASSUME Inv, UNCHANGED vars, part # "farming", part # "bonuses" PROVE Inv'
    BY <2>6, NothingMoves
  <2> QED BY <2>1, <2>2, <2>3, <2>4, <2>5, <2>6
<1>3. Inv => StakersAreCovered
  BY FarmCovers, BonusAddsUp DEF StakersAreCovered
<1> QED BY <1>1, <1>2, <1>3, PTL DEF CoreSpec

-----------------------------------------------------------------------------
(* Limit and recurring orders.                                             *)

LEMMA DeskAssumed ==
    /\ desk.Precision \in Nat \ {0} /\ desk.Amounts \subseteq Nat \ {0} /\ desk.Takes \subseteq Nat \ {0}
    /\ desk.Prices \subseteq Nat \ {0} /\ desk.Deadlines \subseteq Nat
    /\ desk.Intervals \subseteq Nat \ {0} /\ desk.Occurrences \subseteq Nat \ {0}
BY CoreAssumption DEF Trades!OrdersAssumption

\* The quotients of two numbers are together at most the quotient of their sum.
LEMMA QuotientsAdd ==
    ASSUME NEW a \in Nat, NEW b \in Nat, NEW h \in Nat \ {0}
    PROVE  a \div h \in Nat /\ b \div h \in Nat /\ a \div h + b \div h <= (a + b) \div h
<1> DEFINE p == a \div h
           q == b \div h
<1>1. p \in Nat /\ p * h \in Nat /\ p * h <= a /\ q \in Nat /\ q * h \in Nat /\ q * h <= b
  BY RoundedDown
<1> HIDE DEF p, q
<1>2. (p + q) * h = p * h + q * h
  BY <1>1, Distributed
<1>3. (p + q) * h <= a + b /\ p + q \in Nat /\ a + b \in Nat
  BY <1>1, <1>2
<1>4. p + q <= (a + b) \div h
  BY <1>3, QuotientOrder
<1> QED BY <1>1, <1>4 DEF p, q

DeskOrder ==
    [owner : desk.Traders, type : {"Limit", "Recurring"}, side : {"Buy", "Sell"},
     amount : desk.Amounts, remaining : Nat, price : desk.Prices \cup {0},
     status : {"Pending", "PartiallyFilled", "Filled", "Cancelled", "Expired", "Scheduled"},
     expires : desk.Deadlines, created : Nat, interval : Nat, occurrences : Nat, next : Nat]

\* What was used of the budget g of a limit order is u.
LimitSound(o, u, g) ==
    /\ u <= g
    /\ o.status \in Trades!Open => u + Trades!Reserve(o.side, o.remaining, o.price) <= g
    /\ o.side = "Sell" /\ o.status \in Trades!Open => u + o.remaining = g
    /\ o.side = "Sell" /\ o.status = "Cancelled" => u = g

\* A recurring order has runs left while it waits, and waits for its interval.
RunsSound(o, u, g, t) ==
    /\ u + o.amount * o.occurrences = g
    /\ o.created <= t /\ u * o.interval <= (t - o.created) * o.amount
    /\ o.status \in {"Pending", "Scheduled"} =>
          /\ o.occurrences > 0 /\ o.created + o.interval <= o.next
          /\ u * o.interval <= (o.next - o.interval - o.created) * o.amount

OrderSound(o, u, g, t) ==
    /\ o.type = "Limit" => LimitSound(o, u, g)
    /\ o.type = "Recurring" => RunsSound(o, u, g, t)

\* A reserve is a number, and that of two parts is at most that of the whole.
LEMMA ReserveSplits ==
    ASSUME NEW side \in {"Buy", "Sell"}, NEW x \in Nat, NEW y \in Nat, NEW price \in Nat
    PROVE  /\ Trades!Reserve(side, x, price) \in Nat /\ Trades!Reserve(side, y, price) \in Nat
           /\ Trades!Reserve(side, x, price) + Trades!Reserve(side, y, price)
                 <= Trades!Reserve(side, x + y, price)
           /\ side = "Sell" => Trades!Reserve(side, x, price) = x
<1> DEFINE a == x * price
           b == y * price
           h == desk.Precision
<1>1. a \in Nat /\ b \in Nat /\ (x + y) * price = a + b
  BY ProductNat, Distributed
<1>2. h \in Nat \ {0}
  BY DeskAssumed
<1>3. a \div h \in Nat /\ b \div h \in Nat /\ a \div h + b \div h <= (a + b) \div h
  BY <1>1, <1>2, QuotientsAdd
<1>4. /\ Trades!Quote(x, price) = a \div h /\ Trades!Quote(y, price) = b \div h
      /\ Trades!Quote(x + y, price) = (a + b) \div h
  BY <1>1 DEF Trades!Quote
<1> HIDE DEF a, b, h
<1>5. x + y <= x + y
  OBVIOUS
<1> QED BY <1>3, <1>4, <1>5 DEF Trades!Reserve

LEMMA DeskFields ==
    ASSUME NEW o \in DeskOrder
    PROVE  /\ o.owner \in desk.Traders /\ o.type \in {"Limit", "Recurring"}
           /\ o.side \in {"Buy", "Sell"} /\ o.amount \in Nat /\ o.remaining \in Nat /\ o.price \in Nat
           /\ o.status \in {"Pending", "PartiallyFilled", "Filled", "Cancelled", "Expired", "Scheduled"}
           /\ o.expires \in Nat /\ o.created \in Nat /\ o.interval \in Nat /\ o.occurrences \in Nat
           /\ o.next \in Nat
BY DeskAssumed DEF DeskOrder

\* The terms of an order, which it keeps.
SameTerms(q, o) ==
    /\ q.type = o.type /\ q.side = o.side /\ q.price = o.price
    /\ q.amount = o.amount /\ q.created = o.created /\ q.interval = o.interval

\* An order that closes without a use of its budget.
LEMMA OrderCloses ==
    ASSUME NEW o \in DeskOrder, NEW st \in {"Filled", "Expired"}, NEW u \in Nat, NEW g \in Nat, NEW t \in Nat,
           OrderSound(o, u, g, t)
    PROVE  LET q == [o EXCEPT !.status = st]
           IN  q \in DeskOrder /\ SameTerms(q, o) /\ q.status = st /\ OrderSound(q, u, g, t)
<1> DEFINE q == [o EXCEPT !.status = st]
<1>1. /\ q \in DeskOrder /\ SameTerms(q, o) /\ q.status = st /\ q.remaining = o.remaining
      /\ q.occurrences = o.occurrences
  BY DEF DeskOrder, SameTerms
<1> HIDE DEF q
<1>2. q.status \notin Trades!Open /\ q.status # "Cancelled" /\ q.status \notin {"Pending", "Scheduled"}
  BY <1>1 DEF Trades!Open
<1>3. OrderSound(q, u, g, t)
  BY <1>1, <1>2 DEF OrderSound, LimitSound, RunsSound, SameTerms
<1> QED BY <1>1, <1>3 DEF q

\* A part of an open limit order, or all of it, is filled.
LEMMA OrderFills ==
    ASSUME NEW o \in DeskOrder, o.type = "Limit", o.status \in Trades!Open,
           NEW u \in Nat, NEW g \in Nat, NEW t \in Nat, LimitSound(o, u, g), NEW left \in Nat
    PROVE  LET base == Trades!Min2(o.remaining, left)
               st == IF base = o.remaining THEN "Filled" ELSE "PartiallyFilled"
               q == [o EXCEPT !.remaining = @ - base, !.status = st]
               w == u + Trades!Reserve(o.side, base, o.price)
           IN  /\ base \in Nat /\ left - base \in Nat
               /\ q \in DeskOrder /\ SameTerms(q, o) /\ q.status = st
               /\ w \in Nat /\ LimitSound(q, w, g)
<1> DEFINE base == Trades!Min2(o.remaining, left)
           st == IF base = o.remaining THEN "Filled" ELSE "PartiallyFilled"
           q == [o EXCEPT !.remaining = @ - base, !.status = st]
           r == Trades!Reserve(o.side, base, o.price)
           w == u + r
<1>1. o.remaining \in Nat /\ o.side \in {"Buy", "Sell"} /\ o.price \in Nat
  BY DeskFields
<1>2. base \in Nat /\ left - base \in Nat /\ o.remaining - base \in Nat
  BY <1>1 DEF Trades!Min2
<1> HIDE DEF base
<1>3. st \in {"Filled", "PartiallyFilled"}
  OBVIOUS
<1> HIDE DEF st
<1>4. q \in DeskOrder /\ SameTerms(q, o) /\ q.status = st /\ q.remaining = o.remaining - base
  BY <1>2, <1>3 DEF DeskOrder, SameTerms
<1> HIDE DEF q
<1> DEFINE m == o.remaining - base
           rest == Trades!Reserve(o.side, m, o.price)
           whole == Trades!Reserve(o.side, o.remaining, o.price)
<1>5. r \in Nat /\ rest \in Nat /\ r + rest <= whole /\ (o.side = "Sell" => r = base)
  <2>1. m \in Nat /\ base + m = o.remaining
    <3> DEFINE n == o.remaining
    <3>1. n \in Nat /\ base \in Nat /\ n - base \in Nat
      BY <1>1, <1>2
    <3> HIDE DEF n
    <3>2. base + (n - base) = n
      BY <3>1
    <3> QED BY <3>1, <3>2 DEF n
  <2> HIDE DEF m
  <2> DEFINE side == o.side
             price == o.price
  <2>2. base + m = o.remaining
    BY <2>1
  <2>3. side \in {"Buy", "Sell"} /\ price \in Nat /\ base \in Nat /\ m \in Nat
    BY <1>1, <1>2, <2>1
  <2> HIDE DEF side, price
  <2>4. /\ Trades!Reserve(side, base, price) \in Nat /\ Trades!Reserve(side, m, price) \in Nat
        /\ Trades!Reserve(side, base, price) + Trades!Reserve(side, m, price)
              <= Trades!Reserve(side, base + m, price)
        /\ side = "Sell" => Trades!Reserve(side, base, price) = base
    BY ONLY <2>3, ReserveSplits
  <2>5. Trades!Reserve(side, base + m, price) = whole
    BY <2>2 DEF side, price
  <2> HIDE DEF whole
  <2> QED BY <2>4, <2>5 DEF side, price
<1>6. whole \in Nat
  BY <1>1, ReserveSplits
<1>7. u + whole <= g /\ (o.side = "Sell" => u + o.remaining = g)
  BY DEF LimitSound
<1> HIDE DEF r, rest, whole
<1>8. w \in Nat /\ w <= g /\ w + rest <= g
  BY <1>5, <1>6, <1>7
<1>9. o.side = "Sell" => w + m = g
  BY <1>1, <1>2, <1>5, <1>7
<1>10. q.status # "Cancelled"
  BY <1>3, <1>4
<1> HIDE DEF w
<1>11. Trades!Reserve(q.side, q.remaining, q.price) = rest /\ q.side = o.side /\ q.remaining = m
  BY <1>4 DEF SameTerms, rest
<1>12. LimitSound(q, w, g)
  BY <1>8, <1>9, <1>10, <1>11 DEF LimitSound
<1> QED BY <1>2, <1>4, <1>8, <1>12 DEF q, w, r, st, base

\* A cancelled order gives back the reserve of what remains.
LEMMA OrderIsCancelled ==
    ASSUME NEW o \in DeskOrder, o.type = "Limit", o.status \in Trades!Open,
           NEW u \in Nat, NEW g \in Nat, LimitSound(o, u, g)
    PROVE  LET q == [o EXCEPT !.status = "Cancelled"]
               w == u + Trades!Reserve(o.side, o.remaining, o.price)
           IN  q \in DeskOrder /\ SameTerms(q, o) /\ q.status = "Cancelled" /\ w \in Nat /\ LimitSound(q, w, g)
<1> DEFINE q == [o EXCEPT !.status = "Cancelled"]
           r == Trades!Reserve(o.side, o.remaining, o.price)
<1>1. q \in DeskOrder /\ SameTerms(q, o) /\ q.status = "Cancelled"
  BY DEF DeskOrder, SameTerms
<1> HIDE DEF q
<1>2. r \in Nat /\ (o.side = "Sell" => r = o.remaining)
  BY DeskFields, ReserveSplits
<1>3. u + r <= g /\ (o.side = "Sell" => u + o.remaining = g)
  BY DEF LimitSound
<1> HIDE DEF r
<1>4. q.status \notin Trades!Open /\ q.side = o.side
  BY <1>1 DEF Trades!Open, SameTerms
<1>5. LimitSound(q, u + r, g)
  BY <1>2, <1>3, <1>4 DEF LimitSound
<1> QED BY <1>1, <1>2, <1>5 DEF q, r

\* Runs that wait for their interval stay apart.
LEMMA RunsApart ==
    ASSUME NEW u \in Nat, NEW a \in Nat, NEW i \in Nat, NEW n \in Nat, NEW c \in Nat, NEW t \in Nat,
           c + i <= n, n <= t, u * i <= (n - i - c) * a
    PROVE  (u + a) * i <= (t - c) * a
<1> DEFINE k == n - i - c
<1>1. k \in Nat /\ k + i \in Nat /\ t - c \in Nat /\ k + i <= t - c
  OBVIOUS
<1>2. u * i <= k * a
  OBVIOUS
<1> HIDE DEF k
<1>3. (u + a) * i = u * i + a * i /\ (k + i) * a = k * a + i * a /\ a * i = i * a
  BY <1>1, Distributed, ProductNat
<1>4. (k + i) * a <= (t - c) * a
  BY <1>1, ProductOrder
<1>5. u * i \in Nat /\ a * i \in Nat /\ i * a \in Nat /\ k * a \in Nat /\ (t - c) * a \in Nat
  BY <1>1, ProductNat
<1> QED BY <1>2, <1>3, <1>4, <1>5

\* The distance from the placement grows with time.
LEMMA PaceKept ==
    ASSUME NEW c \in Nat, NEW t \in Nat, NEW t2 \in Nat, c <= t, t <= t2, NEW a \in Nat, NEW x \in Nat,
           x <= (t - c) * a
    PROVE  x <= (t2 - c) * a
<1>1. t - c \in Nat /\ t2 - c \in Nat /\ t - c <= t2 - c
  OBVIOUS
<1> DEFINE p == t - c
           q == t2 - c
<1>2. p * a <= q * a /\ p * a \in Nat /\ q * a \in Nat
  BY <1>1, ProductOrder, ProductNat
<1>3. x <= p * a
  OBVIOUS
<1> HIDE DEF p, q
<1>4. x <= q * a
  BY <1>2, <1>3
<1> QED BY <1>4 DEF q

\* The call that runs what is due.
LEMMA OrderRuns ==
    ASSUME NEW o \in DeskOrder, o.type = "Recurring", NEW u \in Nat, NEW g \in Nat, s7 \in Nat,
           RunsSound(o, u, g, s7)
    PROVE  LET q == Trades!Executed(o)
               w == IF Trades!Due(o) THEN u + o.amount ELSE u
           IN  q \in DeskOrder /\ SameTerms(q, o) /\ w \in Nat /\ RunsSound(q, w, g, s7)
<1> DEFINE q == Trades!Executed(o)
           w == IF Trades!Due(o) THEN u + o.amount ELSE u
           t == s7
<1>1. /\ o.amount \in Nat /\ o.occurrences \in Nat /\ o.interval \in Nat /\ o.created \in Nat
      /\ o.next \in Nat
  BY DeskFields
<1>2. CASE Trades!Late(o)
  <2> DEFINE p == [o EXCEPT !.status = "Expired"]
  <2>1. q = p /\ w = u
    BY <1>2 DEF Trades!Executed, Trades!Due
  <2>2. OrderSound(o, u, g, s7)
    BY DEF OrderSound
  <2>3. p \in DeskOrder /\ SameTerms(p, o) /\ OrderSound(p, u, g, s7)
    BY <2>2, OrderCloses
  <2> HIDE DEF p
  <2> QED BY <2>1, <2>3 DEF OrderSound, SameTerms
<1>3. CASE ~Trades!Late(o) /\ ~Trades!Due(o)
  BY <1>3 DEF Trades!Executed, SameTerms
<1>4. CASE ~Trades!Late(o) /\ Trades!Due(o)
  <2>1. /\ w = u + o.amount /\ o.status \in {"Pending", "Scheduled"} /\ o.next <= t
    BY <1>1, <1>4 DEF Trades!Due
  <2>2. /\ o.occurrences > 0 /\ o.created + o.interval <= o.next
        /\ u * o.interval <= (o.next - o.interval - o.created) * o.amount
        /\ u + o.amount * o.occurrences = g
    BY <2>1 DEF RunsSound
  <2>3. (u + o.amount) * o.interval <= (t - o.created) * o.amount
    <3> DEFINE a == o.amount
               i == o.interval
               n == o.next
               c == o.created
    <3>1. /\ a \in Nat /\ i \in Nat /\ n \in Nat /\ c \in Nat /\ c + i <= n /\ n <= t
          /\ u * i <= (n - i - c) * a
      BY <1>1, <2>1, <2>2
    <3> HIDE DEF a, i, n, c
    <3>2. (u + a) * i <= (t - c) * a
      BY <3>1, RunsApart
    <3> QED BY <3>2 DEF a, i, n, c
  <2> DEFINE k == o.occurrences - 1
  <2>4. k \in Nat /\ w \in Nat /\ w + o.amount * k = g
    <3> DEFINE a == o.amount
               m == o.occurrences
    <3>1. a \in Nat /\ m \in Nat /\ m > 0 /\ u + a * m = g
      BY <1>1, <2>2
    <3> HIDE DEF a, m
    <3>2. a * m = a * (m - 1) + a * 1 /\ a * (m - 1) \in Nat /\ m - 1 \in Nat /\ a * 1 = a
      <4>1. m - 1 \in Nat /\ m = (m - 1) + 1
        BY <3>1
      <4>2. a * ((m - 1) + 1) = a * (m - 1) + a * 1
        BY <3>1, <4>1, Distributed
      <4> QED BY <3>1, <4>1, <4>2, ProductNat
    <3>3. (u + a) + a * (m - 1) = g
      BY <3>1, <3>2
    <3>4. u + a \in Nat
      BY <3>1
    <3> QED BY <2>1, <3>2, <3>3, <3>4 DEF a, m
  <2>5. o.created <= t
    BY DEF RunsSound
  <2>6. CASE o.occurrences = 1
    <3> DEFINE p == [o EXCEPT !.occurrences = 0, !.status = "Filled", !.next = 0]
    <3>1. q = p
      BY <1>4, <2>6 DEF Trades!Executed
    <3>2. p \in DeskOrder /\ SameTerms(p, o) /\ p.status = "Filled" /\ p.occurrences = 0
      BY DEF DeskOrder, SameTerms
    <3> HIDE DEF p
    <3>3. RunsSound(p, w, g, t)
      <4>1. w + p.amount * p.occurrences = g
        BY <2>4, <2>6, <3>2 DEF SameTerms
      <4> HIDE DEF w, k
      <4> QED BY <2>1, <2>3, <2>5, <3>2, <4>1 DEF RunsSound, SameTerms
    <3> QED BY <2>4, <3>1, <3>2, <3>3
  <2>7. CASE o.occurrences # 1
    <3> DEFINE p == [o EXCEPT !.occurrences = @ - 1, !.status = "Scheduled", !.next = t + o.interval]
    <3>1. q = p
      BY <1>4, <2>7 DEF Trades!Executed
    <3>2. /\ p \in DeskOrder /\ SameTerms(p, o) /\ p.status = "Scheduled" /\ p.occurrences = k
          /\ p.next = t + o.interval
      <4>1. t + o.interval \in Nat
        BY <1>1
      <4> QED BY <2>4, <4>1 DEF DeskOrder, SameTerms
    <3> HIDE DEF p
    <3>3. k > 0
      BY <1>1, <2>2, <2>7
    <3>4. p.next - p.interval - p.created = t - p.created /\ p.created + p.interval <= p.next
      BY <1>1, <2>5, <3>2 DEF SameTerms
    <3>5. RunsSound(p, w, g, t)
      <4> HIDE DEF w, k
      <4>1. w * p.interval <= (t - p.created) * p.amount
        BY <2>1, <2>3, <3>2 DEF SameTerms
      <4>2. w * p.interval <= (p.next - p.interval - p.created) * p.amount
        BY <3>4, <4>1
      <4>3. w + p.amount * p.occurrences = g
        BY <2>4, <3>2 DEF SameTerms
      <4>4. p.created <= t
        BY <2>5, <3>2 DEF SameTerms
      <4> QED BY <3>2, <3>3, <3>4, <4>1, <4>2, <4>3, <4>4 DEF RunsSound
    <3> QED BY <2>4, <3>1, <3>2, <3>5
  <2> QED BY <2>6, <2>7
<1> QED BY <1>2, <1>3, <1>4

\* An hour later.
LEMMA OrderWaits ==
    ASSUME NEW o \in DeskOrder, NEW u \in Nat, NEW g \in Nat, NEW t \in Nat, OrderSound(o, u, g, t)
    PROVE  OrderSound(o, u, g, t + 1)
<1>1. CASE o.type = "Limit"
  BY <1>1 DEF OrderSound
<1>2. CASE o.type = "Recurring"
  <2>1. RunsSound(o, u, g, t) /\ o.created \in Nat /\ o.amount \in Nat /\ o.interval \in Nat
    BY <1>2, DeskFields DEF OrderSound
  <2> DEFINE x == u * o.interval
             c == o.created
             a == o.amount
  <2>2. x \in Nat /\ c \in Nat /\ a \in Nat /\ x <= (t - c) * a /\ c <= t
    BY <2>1, ProductNat DEF RunsSound
  <2> HIDE DEF x, c, a
  <2>3. x <= ((t + 1) - c) * a /\ c <= t + 1
    BY <2>2, PaceKept
  <2>4. RunsSound(o, u, g, t + 1)
    BY <2>1, <2>3 DEF RunsSound, x, c, a
  <2> QED BY <1>2, <2>4 DEF OrderSound
<1> QED BY <1>1, <1>2, DeskFields

\* Order a has priority over b on the side s of the book: the price, then the age.
Precedes(O, s, a, b) ==
    Trades!Better(s, O[a].price, O[b].price) \/ (O[a].price = O[b].price /\ a < b)

\* The book lists orders of its side in priority, among them all that are open.
Stands(O, book, s) ==
    /\ book \in Seq(Nat)
    /\ \A i \in 1..Len(book) : book[i] \in DOMAIN O /\ O[book[i]].type = "Limit"
    /\ \A i, j \in 1..Len(book) : i < j => Precedes(O, s, book[i], book[j])
    /\ \A id \in DOMAIN O : O[id].type = "Limit" /\ O[id].side = s /\ O[id].status \in Trades!Open
                               => \E i \in 1..Len(book) : book[i] = id

\* The orders of Q are those of O, and none is opened again.
Kept(O, Q) ==
    /\ DOMAIN Q = DOMAIN O
    /\ \A id \in DOMAIN O : /\ SameTerms(Q[id], O[id])
                            /\ Q[id].status \in Trades!Open => O[id].status \in Trades!Open

LEMMA StandsStill ==
    ASSUME NEW O, NEW Q, NEW book, NEW s, Stands(O, book, s), Kept(O, Q)
    PROVE  Stands(Q, book, s)
<1>1. /\ book \in Seq(Nat) /\ \A i \in 1..Len(book) : book[i] \in DOMAIN O /\ O[book[i]].type = "Limit"
      /\ \A i, j \in 1..Len(book) : i < j => Precedes(O, s, book[i], book[j])
      /\ \A id \in DOMAIN O : O[id].type = "Limit" /\ O[id].side = s /\ O[id].status \in Trades!Open
                               => \E i \in 1..Len(book) : book[i] = id
  BY DEF Stands
<1>2. /\ DOMAIN Q = DOMAIN O
      /\ \A id \in DOMAIN O : /\ Q[id].type = O[id].type /\ Q[id].side = O[id].side
                              /\ Q[id].price = O[id].price
                              /\ Q[id].status \in Trades!Open => O[id].status \in Trades!Open
  BY DEF Kept, SameTerms
<1>3. \A i \in 1..Len(book) : book[i] \in DOMAIN Q /\ Q[book[i]].type = "Limit"
  BY <1>1, <1>2
<1>4. ASSUME NEW i \in 1..Len(book), NEW j \in 1..Len(book), i < j
      PROVE  Precedes(Q, s, book[i], book[j])
  <2>1. Precedes(O, s, book[i], book[j]) /\ book[i] \in DOMAIN O /\ book[j] \in DOMAIN O
    BY <1>1, <1>4
  <2>2. Q[book[i]].price = O[book[i]].price /\ Q[book[j]].price = O[book[j]].price
    BY <1>2, <2>1
  <2> QED BY <2>1, <2>2 DEF Precedes
<1>5. \A id \in DOMAIN Q : Q[id].type = "Limit" /\ Q[id].side = s /\ Q[id].status \in Trades!Open
                               => \E i \in 1..Len(book) : book[i] = id
  BY <1>1, <1>2
<1> QED BY <1>1, <1>3, <1>4, <1>5 DEF Stands

\* The book without an order that is no longer open.
LEMMA StandsWithout ==
    ASSUME NEW O, NEW book, NEW s, Stands(O, book, s), NEW id, O[id].status \notin Trades!Open
    PROVE  Stands(O, Trades!RemoveFirst(book, id), s)
<1> DEFINE n == Len(book)
           I == {i \in 1..n : book[i] = id}
           left == Trades!RemoveFirst(book, id)
<1>1. /\ book \in Seq(Nat) /\ \A i \in 1..n : book[i] \in DOMAIN O /\ O[book[i]].type = "Limit"
      /\ \A i, j \in 1..n : i < j => Precedes(O, s, book[i], book[j])
      /\ \A x \in DOMAIN O : O[x].type = "Limit" /\ O[x].side = s /\ O[x].status \in Trades!Open
                               => \E i \in 1..n : book[i] = x
  BY DEF Stands
<1>2. n \in Nat
  BY <1>1
<1>3. CASE I = {}
  <2>1. left = book
    BY <1>3 DEF Trades!RemoveFirst
  <2> QED BY <2>1
<1>4. CASE I # {}
  <2> DEFINE k == Trades!Min(I)
  <2>1. k \in I
    <3>1. I \subseteq Nat
      OBVIOUS
    <3>2. \E i \in I : \A j \in I : i <= j
      BY <1>4, <3>1, LeastNatural
    <3> HIDE DEF I
    <3> QED BY <3>2 DEF Trades!Min
  <2>2. left = SubSeq(book, 1, k - 1) \o SubSeq(book, k + 1, n)
    <3>1. \E i \in 1..n : book[i] = id
      BY <1>4
    <3> QED BY <1>4, <3>1 DEF Trades!RemoveFirst, Trades!RemoveAt, Trades!SelectInSeq
  <2> HIDE DEF k
  <2>3. k \in 1..n /\ book[k] = id
    BY <2>1
  <2> HIDE DEF left, n
  <2>4. /\ left \in Seq(Nat) /\ Len(left) = n - 1
        /\ \A i \in 1..k - 1 : left[i] = book[i]
        /\ \A i \in k..n - 1 : left[i] = book[i + 1]
    BY <1>1, <2>2, <2>3, RemoveAnywhere DEF n
  <2> DEFINE from(l) == IF l < k THEN l ELSE l + 1
  <2>5. \A l \in 1..n - 1 : from(l) \in 1..n /\ left[l] = book[from(l)]
    <3> TAKE l \in 1..n - 1
    <3>1. CASE l < k
      <4>1. l \in 1..k - 1 /\ l \in 1..n
        BY <1>2, <2>3, <3>1
      <4> QED BY <2>4, <3>1, <4>1
    <3>2. CASE ~(l < k)
      <4>1. l \in k..n - 1 /\ l + 1 \in 1..n
        BY <1>2, <2>3, <3>2
      <4> QED BY <2>4, <3>2, <4>1
    <3> QED BY <3>1, <3>2
  <2>6. \A l, m \in 1..n - 1 : l < m => from(l) < from(m)
    BY <1>2, <2>3
  <2>7. ASSUME NEW i \in 1..n, i # k PROVE \E l \in 1..n - 1 : left[l] = book[i]
    <3>1. CASE i < k
      <4>1. i \in 1..n - 1 /\ i \in 1..k - 1
        BY <1>2, <2>3, <3>1
      <4> QED BY <2>4, <4>1
    <3>2. CASE i > k
      <4>1. i - 1 \in 1..n - 1 /\ i - 1 \in k..n - 1 /\ (i - 1) + 1 = i
        BY <1>2, <2>3, <3>2
      <4> QED BY <2>4, <4>1
    <3> QED BY <1>2, <2>3, <2>7, <3>1, <3>2
  <2> HIDE DEF from
  <2>8. \A i \in 1..n - 1 : left[i] \in DOMAIN O /\ O[left[i]].type = "Limit"
    BY <1>1, <2>5 DEF n
  <2>9. ASSUME NEW i \in 1..n - 1, NEW j \in 1..n - 1, i < j PROVE Precedes(O, s, left[i], left[j])
    <3>1. from(i) \in 1..n /\ from(j) \in 1..n /\ from(i) < from(j)
      BY <2>5, <2>6, <2>9
    <3>2. Precedes(O, s, book[from(i)], book[from(j)])
      BY <1>1, <3>1 DEF n
    <3> QED BY <2>5, <3>2
  <2>10. ASSUME NEW x \in DOMAIN O, O[x].type = "Limit" /\ O[x].side = s /\ O[x].status \in Trades!Open
         PROVE  \E l \in 1..n - 1 : left[l] = x
    <3>1. PICK i \in 1..n : book[i] = x
      BY <1>1, <2>10 DEF n
    <3>2. i # k
      BY <2>3, <2>10, <3>1
    <3> QED BY <2>7, <3>1, <3>2
  <2> QED BY <2>4, <2>8, <2>9, <2>10 DEF Stands, left
<1> QED BY <1>3, <1>4

\* Priority by price is transitive.
LEMMA PriorityHolds ==
    ASSUME NEW s, NEW a \in Nat, NEW b \in Nat, NEW c \in Nat
    PROVE  /\ Trades!Better(s, a, b) /\ Trades!Better(s, b, c) => Trades!Better(s, a, c)
           /\ Trades!Better(s, a, b) \/ a = b \/ Trades!Better(s, b, a)
<1>1. CASE s = "Buy"
  BY <1>1 DEF Trades!Better
<1>2. CASE s # "Buy"
  BY <1>2 DEF Trades!Better
<1> QED BY <1>1, <1>2

\* A book for one order more, which is not of its side.
LEMMA StandsBeside ==
    ASSUME NEW O \in Seq(DeskOrder), NEW e \in DeskOrder, NEW book, NEW s, Stands(O, book, s),
           ~(e.type = "Limit" /\ e.side = s)
    PROVE  Stands(Append(O, e), book, s)
<1> DEFINE Q == Append(O, e)
           n == Len(O)
<1>1. /\ book \in Seq(Nat) /\ \A i \in 1..Len(book) : book[i] \in DOMAIN O /\ O[book[i]].type = "Limit"
      /\ \A i, j \in 1..Len(book) : i < j => Precedes(O, s, book[i], book[j])
      /\ \A id \in DOMAIN O : O[id].type = "Limit" /\ O[id].side = s /\ O[id].status \in Trades!Open
                               => \E i \in 1..Len(book) : book[i] = id
  BY DEF Stands
<1>2. /\ DOMAIN O = 1..n /\ DOMAIN Q = 1..n + 1 /\ n \in Nat /\ Q[n + 1] = e
      /\ \A id \in 1..n : Q[id] = O[id]
  OBVIOUS
<1> HIDE DEF Q, n
<1>3. \A id \in 1..n + 1 : id \in 1..n \/ id = n + 1
  BY <1>2
<1>4. \A i \in 1..Len(book) : book[i] \in DOMAIN Q /\ book[i] \in 1..n /\ Q[book[i]].type = "Limit"
  BY <1>1, <1>2
<1>5. ASSUME NEW i \in 1..Len(book), NEW j \in 1..Len(book), i < j
      PROVE  Precedes(Q, s, book[i], book[j])
  <2>1. Precedes(O, s, book[i], book[j])
    BY <1>1, <1>5
  <2>2. Q[book[i]] = O[book[i]] /\ Q[book[j]] = O[book[j]]
    BY <1>2, <1>4
  <2> QED BY <2>1, <2>2 DEF Precedes
<1>6. \A id \in DOMAIN Q : Q[id].type = "Limit" /\ Q[id].side = s /\ Q[id].status \in Trades!Open
                               => \E i \in 1..Len(book) : book[i] = id
  BY <1>1, <1>2, <1>3
<1> QED BY <1>1, <1>4, <1>5, <1>6 DEF Stands, Q

\* add_to_order_book finds the place of a new order.
LEMMA StandsWith ==
    ASSUME s1 \in Seq(DeskOrder), NEW e \in DeskOrder, NEW book, NEW s, Stands(s1, book, s),
           e.type = "Limit"
    PROVE  Stands(Append(s1, e), Trades!AddToOrderBook(book, s, e.price, Len(s1) + 1), s)
<1> DEFINE O == s1
           n == Len(s1)
           Q == Append(s1, e)
           m == Len(book)
           p == e.price
           W == {i \in DOMAIN book : Trades!Better(s, p, O[book[i]].price)}
           all == Trades!AddToOrderBook(book, s, p, n + 1)
           at == IF W = {} THEN m + 1 ELSE Trades!Min(W)
           k == at - 1
<1>1. /\ book \in Seq(Nat) /\ \A i \in 1..m : book[i] \in DOMAIN O /\ O[book[i]].type = "Limit"
      /\ \A i, j \in 1..m : i < j => Precedes(O, s, book[i], book[j])
      /\ \A id \in DOMAIN O : O[id].type = "Limit" /\ O[id].side = s /\ O[id].status \in Trades!Open
                               => \E i \in 1..m : book[i] = id
  BY DEF Stands
<1>2. /\ DOMAIN O = 1..n /\ DOMAIN Q = 1..n + 1 /\ n \in Nat /\ Q[n + 1] = e
      /\ \A id \in 1..n : Q[id] = O[id]
  OBVIOUS
<1>3. /\ p \in Nat /\ \A id \in 1..n : O[id].price \in Nat
  <2>1. \A id \in 1..n : O[id] \in DeskOrder
    BY <1>2
  <2> HIDE DEF n, O
  <2> QED BY <2>1, DeskFields
<1>4. m \in Nat /\ DOMAIN book = 1..m /\ \A i \in 1..m : book[i] \in 1..n
  BY <1>1, <1>2
<1>5. /\ at \in 1..m + 1
      /\ \A i \in 1..m : i < at => ~Trades!Better(s, p, O[book[i]].price)
      /\ at <= m => Trades!Better(s, p, O[book[at]].price)
  <2>1. CASE W = {}
    <3>1. at = m + 1
      BY <2>1
    <3>2. \A i \in 1..m : ~Trades!Better(s, p, O[book[i]].price)
      BY <1>4, <2>1
    <3> HIDE DEF at, W
    <3> QED BY <1>4, <3>1, <3>2
  <2>2. CASE W # {}
    <3>1. W \subseteq Nat /\ W \subseteq 1..m
      BY <1>4
    <3>2. \E i \in W : \A j \in W : i <= j
      BY <2>2, <3>1, LeastNatural
    <3>3. at = Trades!Min(W)
      BY <2>2
    <3>4. \A i \in 1..m : Trades!Better(s, p, O[book[i]].price) => i \in W
      BY <1>4
    <3>5. \A i \in W : Trades!Better(s, p, O[book[i]].price)
      OBVIOUS
    <3> HIDE DEF W, at
    <3>6. at \in W /\ \A j \in W : at <= j
      BY <3>2, <3>3 DEF Trades!Min
    <3>7. at \in 1..m
      BY <3>1, <3>6
    <3> QED BY <1>4, <3>1, <3>4, <3>5, <3>6, <3>7
  <2> QED BY <2>1, <2>2
<1>6. all = Inserted(book, k, n + 1)
  <2>1. all = Trades!InsertAt(book, at, n + 1)
    BY DEF Trades!AddToOrderBook
  <2>2. Trades!InsertAt(book, at, n + 1) = SubSeq(book, 1, at - 1) \o <<n + 1>> \o SubSeq(book, at, m)
    BY DEF Trades!InsertAt
  <2>3. k + 1 = at
    BY <1>4, <1>5
  <2> HIDE DEF at, all, m, n
  <2> QED BY <2>1, <2>2, <2>3 DEF Inserted, m
<1> HIDE DEF W, at, all
<1>7. k \in 0..m /\ n + 1 \in Nat /\ k + 1 = at
  BY <1>2, <1>4, <1>5
<1>8. /\ all \in Seq(Nat) /\ Len(all) = m + 1 /\ all[k + 1] = n + 1
      /\ \A i \in 1..k : all[i] = book[i]
      /\ \A i \in k + 1..m : all[i + 1] = book[i]
  <2> DEFINE x == n + 1
             N == Nat
  <2> HIDE DEF k, x
  <2>1. k \in 0..Len(book) /\ x \in N /\ book \in Seq(N)
    BY <1>1, <1>7 DEF x
  <2> HIDE DEF N
  <2>2. all = Inserted(book, k, x)
    BY <1>6 DEF x
  <2>3. all \in Seq(N) /\ PutAfter(all, book, k, x)
    BY ONLY <2>1, <2>2, InsertAnywhere
  <2> QED BY <2>3 DEF PutAfter, x, N
<1> HIDE DEF k, m, n, Q, O
<1>9. ASSUME NEW i \in 1..m, i <= k PROVE Precedes(Q, s, book[i], n + 1)
  <2> DEFINE b == O[book[i]].price
  <2>1. i < at /\ book[i] \in 1..n
    BY <1>4, <1>7, <1>9
  <2>2. b \in Nat /\ ~Trades!Better(s, p, b)
    BY <1>3, <1>5, <2>1
  <2> HIDE DEF b
  <2>3. Trades!Better(s, b, p) \/ b = p
    BY <1>3, <2>2, PriorityHolds
  <2>4. Q[book[i]].price = b /\ Q[n + 1].price = p /\ book[i] < n + 1
    BY <1>2, <2>1 DEF b
  <2> QED BY <2>3, <2>4 DEF Precedes
<1>10. ASSUME NEW i \in 1..m, i > k PROVE Precedes(Q, s, n + 1, book[i])
  <2> DEFINE a == O[book[at]].price
             b == O[book[i]].price
  <2>1. at \in 1..m /\ at <= i /\ book[i] \in 1..n /\ book[at] \in 1..n
    BY <1>4, <1>7, <1>10
  <2>2. a \in Nat /\ b \in Nat /\ Trades!Better(s, p, a)
    BY <1>3, <1>5, <2>1
  <2>3. at = i \/ Precedes(O, s, book[at], book[i])
    BY <1>1, <2>1
  <2>4. at = i \/ Trades!Better(s, a, b) \/ a = b
    BY <2>3 DEF Precedes
  <2>5. at = i => a = b
    OBVIOUS
  <2> HIDE DEF a, b
  <2>6. Trades!Better(s, p, b)
    BY <1>3, <2>2, <2>4, <2>5, PriorityHolds
  <2>7. Q[book[i]].price = b /\ Q[n + 1].price = p
    BY <1>2, <2>1 DEF b
  <2> QED BY <2>6, <2>7 DEF Precedes
<1>11. ASSUME NEW i \in 1..m, NEW j \in 1..m, i < j PROVE Precedes(Q, s, book[i], book[j])
  <2>1. Precedes(O, s, book[i], book[j])
    BY <1>1, <1>11
  <2>2. Q[book[i]] = O[book[i]] /\ Q[book[j]] = O[book[j]]
    BY <1>2, <1>4
  <2> QED BY <2>1, <2>2 DEF Precedes
<1>12. ASSUME NEW i \in 1..m + 1
       PROVE  \/ i \in 1..k /\ i \in 1..m /\ i <= k /\ all[i] = book[i]
              \/ i = k + 1 /\ all[i] = n + 1
              \/ i - 1 \in k + 1..m /\ i - 1 \in 1..m /\ i - 1 > k /\ all[i] = book[i - 1]
  <2>1. CASE i <= k
    <3>1. i \in 1..k /\ i \in 1..m
      BY <1>4, <1>7, <2>1
    <3> QED BY <1>8, <2>1, <3>1
  <2>2. CASE i = k + 1
    BY <1>8, <2>2
  <2>3. CASE i > k + 1
    <3>1. i - 1 \in k + 1..m /\ (i - 1) + 1 = i /\ i - 1 \in 1..m /\ i - 1 > k
      BY <1>4, <1>7, <2>3
    <3>2. all[(i - 1) + 1] = book[i - 1]
      BY <1>8, <3>1
    <3> QED BY <3>1, <3>2
  <2> QED BY <1>4, <1>7, <2>1, <2>2, <2>3
<1>13. ASSUME NEW i \in 1..m + 1, NEW j \in 1..m + 1, i < j PROVE Precedes(Q, s, all[i], all[j])
  <2>1. CASE i \in 1..k /\ i \in 1..m /\ i <= k /\ all[i] = book[i]
    <3>1. CASE j \in 1..k /\ j \in 1..m /\ j <= k /\ all[j] = book[j]
      BY <1>11, <1>13, <2>1, <3>1
    <3>2. CASE j = k + 1 /\ all[j] = n + 1
      BY <1>9, <2>1, <3>2
    <3>3. CASE j - 1 \in k + 1..m /\ j - 1 \in 1..m /\ j - 1 > k /\ all[j] = book[j - 1]
      <4>1. i < j - 1
        BY <1>7, <2>1, <3>3
      <4> QED BY <1>11, <2>1, <3>3, <4>1
    <3> QED BY <1>12, <3>1, <3>2, <3>3
  <2>2. CASE i = k + 1 /\ all[i] = n + 1
    <3>1. j > k + 1
      BY <1>13, <2>2
    <3>2. j - 1 \in 1..m /\ j - 1 > k /\ all[j] = book[j - 1]
      BY <1>7, <1>12, <3>1
    <3> QED BY <1>10, <2>2, <3>2
  <2>3. CASE i - 1 \in k + 1..m /\ i - 1 \in 1..m /\ i - 1 > k /\ all[i] = book[i - 1]
    <3>1. j > k + 1 /\ i - 1 < j - 1
      BY <1>7, <1>13, <2>3
    <3>2. j - 1 \in 1..m /\ j - 1 > k /\ all[j] = book[j - 1]
      BY <1>7, <1>12, <3>1
    <3> QED BY <1>11, <2>3, <3>1, <3>2
  <2> QED BY <1>12, <2>1, <2>2, <2>3
<1>14. \A i \in 1..m + 1 : all[i] \in DOMAIN Q /\ Q[all[i]].type = "Limit"
  <2> TAKE i \in 1..m + 1
  <2>1. CASE i = k + 1 /\ all[i] = n + 1
    <3>1. n + 1 \in 1..n + 1
      BY <1>2
    <3> QED BY <1>2, <2>1, <3>1
  <2>2. ASSUME NEW l \in 1..m, all[i] = book[l] PROVE all[i] \in DOMAIN Q /\ Q[all[i]].type = "Limit"
    <3>1. book[l] \in 1..n /\ O[book[l]].type = "Limit"
      BY <1>1, <1>4
    <3>2. book[l] \in 1..n + 1
      BY <1>2, <3>1
    <3> QED BY <1>2, <2>2, <3>1, <3>2
  <2> QED BY <1>12, <2>1, <2>2
<1>15. ASSUME NEW id \in DOMAIN Q, Q[id].type = "Limit" /\ Q[id].side = s /\ Q[id].status \in Trades!Open
       PROVE  \E i \in 1..m + 1 : all[i] = id
  <2>1. CASE id = n + 1
    <3>1. k + 1 \in 1..m + 1
      BY <1>4, <1>7
    <3> QED BY <1>8, <2>1, <3>1
  <2>2. CASE id \in 1..n
    <3>1. PICK i \in 1..m : book[i] = id
      BY <1>1, <1>2, <1>15, <2>2
    <3>2. CASE i <= k
      <4>1. i \in 1..m + 1 /\ i \in 1..k
        BY <1>4, <1>7, <3>2
      <4> QED BY <1>8, <3>1, <4>1
    <3>3. CASE i > k
      <4>1. i + 1 \in 1..m + 1 /\ i \in k + 1..m
        BY <1>4, <1>7, <3>3
      <4> QED BY <1>8, <3>1, <4>1
    <3> QED BY <1>7, <3>2, <3>3
  <2> QED BY <1>2, <2>1, <2>2
<1>16. Stands(Q, all, s)
  BY <1>8, <1>13, <1>14, <1>15 DEF Stands
<1> QED BY <1>16 DEF Q, all, p, n

\* What the traders hold.
Purses == [desk.Traders -> [{"base", "quote"} -> Nat]]

\* The inductive invariant of the orders.
OrdersInv ==
    /\ s1 \in Seq(DeskOrder) /\ s5 \in Seq(Nat) /\ s6 \in Seq(Nat)
    /\ Len(s5) = Len(s1) /\ Len(s6) = Len(s1) /\ s7 \in Nat /\ s4 \in Purses
    /\ s2 \in [{"Buy", "Sell"} -> Seq(Nat)]
    /\ s3 \in Seq(Nat) /\ \A i \in DOMAIN s3 : s3[i] \in DOMAIN s1 /\ s1[s3[i]].type = "Recurring"
    /\ \A id \in 1..Len(s1) : OrderSound(s1[id], s6[id], s5[id], s7)
    /\ \A side \in {"Buy", "Sell"} : Stands(s1, s2[side], side)

LEMMA OrdersTotals ==
    /\ Trades!Sides = {"Buy", "Sell"}
    /\ Trades!Opposite("Buy") = "Sell" /\ Trades!Opposite("Sell") = "Buy"
    /\ \A side : Trades!ReserveToken(side) \in {"base", "quote"}
    /\ \A x, p \in Nat : Trades!Quote(x, p) \in Nat
<1>1. Trades!Sides = {"Buy", "Sell"}
  BY DEF Trades!Sides
<1>2. Trades!Opposite("Buy") = "Sell"
  <2>1. \E s \in Trades!Sides : s # "Buy"
    BY <1>1
  <2> QED BY <1>1, <2>1 DEF Trades!Opposite
<1>3. Trades!Opposite("Sell") = "Buy"
  <2>1. \E s \in Trades!Sides : s # "Sell"
    BY <1>1
  <2> QED BY <1>1, <2>1 DEF Trades!Opposite
<1>4. ASSUME NEW x \in Nat, NEW p \in Nat PROVE Trades!Quote(x, p) \in Nat
  BY ReserveSplits DEF Trades!Reserve
<1> QED BY <1>1, <1>2, <1>3, <1>4 DEF Trades!ReserveToken

LEMMA PurseFilled ==
    ASSUME NEW B \in Purses, NEW t \in desk.Traders, NEW k \in {"base", "quote"}, NEW a \in Nat
    PROVE  [B EXCEPT ![t][k] = @ + a] \in Purses
<1>1. B[t][k] + a \in Nat
  BY DEF Purses
<1> QED BY <1>1 DEF Purses

LEMMA KeptFurther ==
    ASSUME NEW O, NEW P, NEW Q, Kept(O, P), Kept(P, Q)
    PROVE  Kept(O, Q)
BY DEF Kept, SameTerms

\* One order changes, and keeps its terms.
LEMMA OneOrderChanges ==
    ASSUME NEW O \in Seq(DeskOrder), NEW id \in DOMAIN O, NEW q \in DeskOrder, SameTerms(q, O[id]),
           q.status \in Trades!Open => O[id].status \in Trades!Open
    PROVE  LET Q == [O EXCEPT ![id] = q]
           IN  /\ Q \in Seq(DeskOrder) /\ Len(Q) = Len(O) /\ Kept(O, Q) /\ Q[id] = q
               /\ \A x \in DOMAIN O : x # id => Q[x] = O[x]
<1> DEFINE Q == [O EXCEPT ![id] = q]
<1>1. Q \in Seq(DeskOrder) /\ Len(Q) = Len(O)
  BY ExceptSeq
<1>2. DOMAIN Q = DOMAIN O /\ Q[id] = q /\ \A x \in DOMAIN O : x # id => Q[x] = O[x]
  OBVIOUS
<1> HIDE DEF Q
<1>3. Kept(O, Q)
  <2>1. \A x \in DOMAIN O : SameTerms(O[x], O[x])
    BY DEF SameTerms
  <2> QED BY <1>2, <2>1 DEF Kept
<1> QED BY <1>1, <1>2, <1>3 DEF Q

\* Orders of which one was changed and used are sound.
LEMMA OneOrderUsed ==
    ASSUME NEW O, NEW U, NEW Q, NEW V, NEW G, NEW t, NEW id, NEW n,
           \A x \in 1..n : OrderSound(O[x], U[x], G[x], t),
           \A x \in 1..n : x # id => Q[x] = O[x] /\ V[x] = U[x],
           OrderSound(Q[id], V[id], G[id], t)
    PROVE  \A x \in 1..n : OrderSound(Q[x], V[x], G[x], t)
<1> TAKE x \in 1..n
<1>1. CASE x = id
  BY <1>1
<1>2. CASE x # id
  BY <1>2
<1> QED BY <1>1, <1>2

\* The states of a walk along the list of the side.
DeskState(side) ==
    {x \in [orders : Seq(DeskOrder), listed : Seq(Nat), left : Nat, balances : Purses, used : Seq(Nat)] :
        /\ Len(x.orders) = Len(s1) /\ Len(x.used) = Len(s1) /\ Kept(s1, x.orders)
        /\ Stands(x.orders, x.listed, side)
        /\ \A id \in 1..Len(s1) : OrderSound(x.orders[id], x.used[id], s5[id], s7)}

LEMMA DeskStateFields ==
    ASSUME OrdersInv, NEW side, NEW x \in DeskState(side)
    PROVE  /\ x.orders \in Seq(DeskOrder) /\ x.listed \in Seq(Nat) /\ x.left \in Nat
           /\ x.balances \in Purses /\ x.used \in Seq(Nat)
           /\ Len(x.orders) = Len(s1) /\ Len(x.used) = Len(s1) /\ Kept(s1, x.orders)
           /\ Stands(x.orders, x.listed, side)
           /\ \A id \in 1..Len(s1) : OrderSound(x.orders[id], x.used[id], s5[id], s7)
           /\ DOMAIN x.orders = 1..Len(s1) /\ DOMAIN x.used = 1..Len(s1) /\ DOMAIN s1 = 1..Len(s1)
           /\ \A id \in 1..Len(s1) : /\ x.orders[id] \in DeskOrder /\ x.used[id] \in Nat
                                     /\ s5[id] \in Nat
<1>1. /\ x.orders \in Seq(DeskOrder) /\ x.listed \in Seq(Nat) /\ x.left \in Nat
      /\ x.balances \in Purses /\ x.used \in Seq(Nat)
      /\ Len(x.orders) = Len(s1) /\ Len(x.used) = Len(s1) /\ Kept(s1, x.orders)
      /\ Stands(x.orders, x.listed, side)
      /\ \A id \in 1..Len(s1) : OrderSound(x.orders[id], x.used[id], s5[id], s7)
  BY DEF DeskState
<1>2. s1 \in Seq(DeskOrder) /\ s5 \in Seq(Nat) /\ Len(s5) = Len(s1)
  BY DEF OrdersInv
<1> DEFINE O == x.orders
           U == x.used
<1>3. O \in Seq(DeskOrder) /\ U \in Seq(Nat) /\ Len(O) = Len(s1) /\ Len(U) = Len(s1)
  BY <1>1
<1> HIDE DEF O, U
<1>4. /\ DOMAIN O = 1..Len(s1) /\ DOMAIN U = 1..Len(s1) /\ DOMAIN s1 = 1..Len(s1)
      /\ \A id \in 1..Len(s1) : O[id] \in DeskOrder /\ U[id] \in Nat /\ s5[id] \in Nat
  BY <1>2, <1>3
<1> QED BY <1>1, <1>4 DEF O, U

\* A step of the walk: it passes the order, closes it when its time is over, or fills it.
LEMMA WalkKeeps ==
    ASSUME OrdersInv, NEW taker \in desk.Traders, NEW side \in {"Buy", "Sell"}, NEW limit, NEW opp,
           NEW x \in DeskState(opp), NEW id \in 1..Len(s1), s1[id].type = "Limit"
    PROVE  Trades!TakeStep(taker, side, limit, x, id) \in DeskState(opp)
<1> DEFINE o == x.orders[id]
           u == x.used[id]
           R == [orders : Seq(DeskOrder), listed : Seq(Nat), left : Nat, balances : Purses, used : Seq(Nat)]
<1>1. /\ x.orders \in Seq(DeskOrder) /\ x.listed \in Seq(Nat) /\ x.left \in Nat
      /\ x.balances \in Purses /\ x.used \in Seq(Nat)
      /\ Len(x.orders) = Len(s1) /\ Len(x.used) = Len(s1) /\ Kept(s1, x.orders)
      /\ Stands(x.orders, x.listed, opp)
      /\ \A y \in 1..Len(s1) : OrderSound(x.orders[y], x.used[y], s5[y], s7)
      /\ DOMAIN x.orders = 1..Len(s1) /\ DOMAIN x.used = 1..Len(s1)
      /\ o \in DeskOrder /\ u \in Nat /\ s5[id] \in Nat /\ x \in R
  BY DeskStateFields DEF DeskState
<1>2. o.type = "Limit" /\ DOMAIN s1 = 1..Len(s1) /\ s7 \in Nat
  BY <1>1, DeskStateFields DEF Kept, SameTerms, OrdersInv
<1>3. OrderSound(o, u, s5[id], s7) /\ LimitSound(o, u, s5[id])
  BY <1>1, <1>2 DEF OrderSound
<1> HIDE DEF o, u
<1>4. CASE x.left = 0 \/ o.status \notin Trades!Open
  BY <1>4 DEF Trades!TakeStep, o
<1>5. CASE x.left # 0 /\ o.status \in Trades!Open /\ Trades!Late(o)
  <2> DEFINE q == [o EXCEPT !.status = "Expired"]
             Q == [x.orders EXCEPT ![id] = q]
             y == [x EXCEPT !.orders = Q]
  <2>1. Trades!TakeStep(taker, side, limit, x, id) = y
    <3>1. Trades!TakeStep(taker, side, limit, x, id) = [x EXCEPT !.orders[id].status = "Expired"]
      BY <1>5 DEF Trades!TakeStep, o
    <3> QED BY <3>1 DEF o
  <2>2. q \in DeskOrder /\ SameTerms(q, o) /\ OrderSound(q, u, s5[id], s7)
    BY <1>1, <1>2, <1>3, OrderCloses
  <2> HIDE DEF q
  <2>3. /\ Q \in Seq(DeskOrder) /\ Len(Q) = Len(x.orders) /\ Kept(x.orders, Q) /\ Q[id] = q
        /\ \A z \in DOMAIN x.orders : z # id => Q[z] = x.orders[z]
    <3>1. SameTerms(q, x.orders[id])
      BY <2>2 DEF o
    <3> QED BY <1>1, <1>5, <2>2, <3>1, OneOrderChanges DEF o
  <2> HIDE DEF Q
  <2>4. /\ y \in R /\ y.orders = Q /\ y.listed = x.listed /\ y.used = x.used
    BY <1>1, <2>3
  <2> HIDE DEF y
  <2>5. Stands(Q, x.listed, opp)
    BY <1>1, <2>3, StandsStill
  <2>6. Kept(s1, Q)
    BY <1>1, <2>3, KeptFurther
  <2>7. \A z \in 1..Len(s1) : OrderSound(Q[z], x.used[z], s5[z], s7)
    <3>1. OrderSound(Q[id], x.used[id], s5[id], s7)
      BY <2>2, <2>3 DEF u
    <3>2. \A z \in 1..Len(s1) : z # id => Q[z] = x.orders[z] /\ x.used[z] = x.used[z]
      BY <1>1, <2>3
    <3> QED BY <1>1, <3>1, <3>2, OneOrderUsed
  <2>8. y \in DeskState(opp)
    BY <1>1, <2>3, <2>4, <2>5, <2>6, <2>7 DEF DeskState
  <2> QED BY <2>1, <2>8
<1>6. CASE /\ x.left # 0 /\ o.status \in Trades!Open /\ ~Trades!Late(o)
           /\ ~Trades!WithinLimit(side, o.price, limit)
  BY <1>6 DEF Trades!TakeStep, o
<1>7. CASE /\ x.left # 0 /\ o.status \in Trades!Open /\ ~Trades!Late(o)
           /\ Trades!WithinLimit(side, o.price, limit)
  <2> DEFINE left == x.left
             base == Trades!Min2(o.remaining, left)
             st == IF base = o.remaining THEN "Filled" ELSE "PartiallyFilled"
             q == [o EXCEPT !.remaining = @ - base, !.status = st]
             w == u + Trades!Reserve(o.side, base, o.price)
             Q == [x.orders EXCEPT ![id] = q]
             L == IF base = o.remaining THEN Trades!RemoveFirst(x.listed, id) ELSE x.listed
             B == Trades!Paid(x.balances, taker, side, o, base)
             V == [x.used EXCEPT ![id] = w]
             y == [x EXCEPT !.orders = Q, !.listed = L, !.left = left - base, !.balances = B, !.used = V]
  <2>1. Trades!TakeStep(taker, side, limit, x, id) = y
    <3>1. Trades!TakeStep(taker, side, limit, x, id) = Trades!Fill(x, taker, side, id)
      BY <1>7 DEF Trades!TakeStep, o
    <3>2. Trades!Fill(x, taker, side, id) = y
      BY <1>1 DEF Trades!Fill, o, u
    <3> QED BY <3>1, <3>2
  <2>2. /\ base \in Nat /\ left - base \in Nat
        /\ q \in DeskOrder /\ SameTerms(q, o) /\ q.status = st
        /\ w \in Nat /\ LimitSound(q, w, s5[id])
    <3>1. left \in Nat /\ s5[id] \in Nat /\ u \in Nat /\ o \in DeskOrder /\ s7 \in Nat
      BY <1>1, <1>2
    <3> HIDE DEF left
    <3> QED BY <1>2, <1>3, <1>7, <3>1, OrderFills
  <2> HIDE DEF base, q, w
  <2>3. /\ Q \in Seq(DeskOrder) /\ Len(Q) = Len(x.orders) /\ Kept(x.orders, Q) /\ Q[id] = q
        /\ \A z \in DOMAIN x.orders : z # id => Q[z] = x.orders[z]
    <3>1. SameTerms(q, x.orders[id])
      BY <2>2 DEF o
    <3> QED BY <1>1, <1>7, <2>2, <3>1, OneOrderChanges DEF o
  <2>4. B \in Purses
    <3>1. o.price \in Nat /\ o.owner \in desk.Traders
      BY <1>1, DeskFields
    <3> DEFINE quote == Trades!Quote(base, o.price)
               got == IF side = "Buy" THEN base ELSE quote
               other == IF side = "Buy" THEN quote ELSE base
               k == Trades!ReserveToken(Trades!Opposite(side))
               m == Trades!ReserveToken(side)
               first == [x.balances EXCEPT ![taker][k] = @ + got]
    <3>2. B = [first EXCEPT ![o.owner][m] = @ + other]
      BY DEF Trades!Paid
    <3>3. quote \in Nat
      BY <2>2, <3>1, OrdersTotals
    <3>4. got \in Nat /\ other \in Nat
      BY <2>2, <3>3
    <3>5. k \in {"base", "quote"} /\ m \in {"base", "quote"}
      BY OrdersTotals
    <3> HIDE DEF got, other, k, m
    <3>6. first \in Purses
      BY <1>1, <3>4, <3>5, PurseFilled
    <3> HIDE DEF first
    <3> QED BY <3>1, <3>2, <3>4, <3>5, <3>6, PurseFilled
  <2>5. /\ V \in Seq(Nat) /\ Len(V) = Len(x.used) /\ V[id] = w
        /\ \A z \in 1..Len(s1) : z # id => V[z] = x.used[z]
    BY <1>1, <2>2, ExceptSeq
  <2>6. L \in Seq(Nat) /\ Stands(Q, L, opp)
    <3>1. Stands(Q, x.listed, opp)
      BY <1>1, <2>3, StandsStill
    <3>2. CASE base = o.remaining
      <4>1. Q[id].status \notin Trades!Open
        BY <2>2, <2>3, <3>2 DEF Trades!Open
      <4>2. Stands(Q, Trades!RemoveFirst(x.listed, id), opp)
        BY <3>1, <4>1, StandsWithout
      <4>3. Trades!RemoveFirst(x.listed, id) \in Seq(Nat)
        BY <4>2 DEF Stands
      <4> QED BY <3>2, <4>2, <4>3
    <3>3. CASE base # o.remaining
      BY <1>1, <3>1, <3>3
    <3> QED BY <3>2, <3>3
  <2> HIDE DEF Q, L, B, V, left
  <2>7. /\ y \in R /\ y.orders = Q /\ y.listed = L /\ y.used = V
    <3> DEFINE l == left - base
    <3>1. l \in Nat
      BY <2>2
    <3>2. /\ x \in R /\ Q \in Seq(DeskOrder) /\ L \in Seq(Nat) /\ B \in Purses /\ V \in Seq(Nat)
          /\ y = [x EXCEPT !.orders = Q, !.listed = L, !.left = l, !.balances = B, !.used = V]
      BY <1>1, <2>3, <2>4, <2>5, <2>6
    <3> HIDE DEF l, y
    <3> QED BY <3>1, <3>2
  <2> HIDE DEF y
  <2>8. Kept(s1, Q)
    BY <1>1, <2>3, KeptFurther
  <2>9. \A z \in 1..Len(s1) : OrderSound(Q[z], V[z], s5[z], s7)
    <3>1. q.type = "Limit"
      BY <1>2, <2>2 DEF SameTerms
    <3>2. OrderSound(Q[id], V[id], s5[id], s7)
      BY <2>2, <2>3, <2>5, <3>1 DEF OrderSound
    <3>3. \A z \in 1..Len(s1) : z # id => Q[z] = x.orders[z] /\ V[z] = x.used[z]
      BY <1>1, <2>3, <2>5
    <3> QED BY <1>1, <3>2, <3>3, OneOrderUsed
  <2>10. y \in DeskState(opp)
    BY <1>1, <2>3, <2>5, <2>6, <2>7, <2>8, <2>9 DEF DeskState
  <2> QED BY <2>1, <2>10
<1> QED BY <1>4, <1>5, <1>6, <1>7

\* The walk ends in such a state as well.
LEMMA WalkEnds ==
    ASSUME OrdersInv, NEW taker \in desk.Traders, NEW side \in {"Buy", "Sell"}, NEW limit, NEW opp,
           NEW start \in DeskState(opp), NEW book \in Seq(Nat),
           \A i \in 1..Len(book) : book[i] \in 1..Len(s1) /\ s1[book[i]].type = "Limit"
    PROVE  Trades!Walk(taker, side, limit, start, book)[Len(book)] \in DeskState(opp)
<1> DEFINE N == Len(book)
           X == DeskState(opp)
           Step(n, x) == Trades!TakeStep(taker, side, limit, x, book[n])
           IsWalk(g) == g = [n \in 0..N |-> IF n = 0 THEN start ELSE Step(n, g[n - 1])]
           p == CHOOSE g : IsWalk(g)
<1>1. N \in Nat
  OBVIOUS
<1>2. \A n \in 1..N, x \in X : Step(n, x) \in X
  BY WalkKeeps
<1>3. \E g : IsWalk(g)
  <2> DEFINE f == [y \in Nat \X X |-> IF y[1] \in 1..N THEN Step(y[1], y[2]) ELSE y[2]]
  <2> HIDE DEF Step, N, X
  <2>1. f \in [Nat \X X -> X] /\ start \in X
    BY <1>2 DEF X
  <2>2. \A n \in 1..N, x \in X : f[<<n, x>>] = Step(n, x)
    BY <1>1
  <2> HIDE DEF f
  <2>3. PICK g : Recursion(g, X, start, f, N)
    BY <1>1, <2>1, RecursionExists
  <2>4. ASSUME NEW n \in 0..N
        PROVE  g[n] = IF n = 0 THEN start ELSE Step(n, g[n - 1])
    <3>1. CASE n = 0
      BY <2>3, <3>1 DEF Recursion
    <3>2. CASE n # 0
      <4>1. n \in 1..N /\ n - 1 \in 0..N
        BY <1>1, <3>2
      <4> QED BY <2>2, <2>3, <3>2, <4>1 DEF Recursion
    <3> QED BY <3>1, <3>2
  <2>5. g = [n \in 0..N |-> IF n = 0 THEN start ELSE Step(n, g[n - 1])]
    BY <2>3, <2>4 DEF Recursion
  <2> QED BY <2>5
<1>4. IsWalk(p)
  BY <1>3
<1>5. Trades!Walk(taker, side, limit, start, book) = p
  BY DEF Trades!Walk
<1> HIDE DEF p, Step, N
<1>6. p[0] = start /\ \A n \in 1..N : p[n] = Step(n, p[n - 1])
  <2>1. 0 \in 0..N /\ \A n \in 1..N : n \in 0..N /\ n # 0
    BY <1>1
  <2> QED BY <1>4, <2>1
<1>7. p[0] \in X /\ \A k \in 1..N : p[k - 1] \in X => p[k] \in X
  BY <1>2, <1>6
<1> HIDE DEF X
<1>8. p[N] \in X
  BY <1>1, <1>7, RecursionStays
<1> QED BY <1>5, <1>8 DEF N, X

\* The lists of orders that keep their terms.
LEMMA ListsStay ==
    ASSUME OrdersInv, NEW Q, Kept(s1, Q)
    PROVE  /\ \A i \in DOMAIN s3 : s3[i] \in DOMAIN Q /\ Q[s3[i]].type = "Recurring"
           /\ \A side \in {"Buy", "Sell"} : Stands(Q, s2[side], side)
<1>1. \A i \in DOMAIN s3 : s3[i] \in DOMAIN Q /\ Q[s3[i]].type = "Recurring"
  BY DEF OrdersInv, Kept, SameTerms
<1>2. \A side \in {"Buy", "Sell"} : Stands(Q, s2[side], side)
  BY StandsStill DEF OrdersInv
<1> QED BY <1>1, <1>2

LEMMA TakesKeep ==
    ASSUME OrdersInv, NEW taker \in desk.Traders, NEW side \in {"Buy", "Sell"}, NEW amount \in desk.Takes,
           NEW limit, Trades!TakeOrder(taker, side, amount, limit)
    PROVE  OrdersInv'
<1> DEFINE opp == Trades!Opposite(side)
           book == s2[opp]
           start == [orders |-> s1, listed |-> book, left |-> amount, balances |-> s4, used |-> s6]
           done == Trades!Walk(taker, side, limit, start, book)[Len(book)]
<1>1. /\ s1' = done.orders /\ s4' = done.balances /\ s6' = done.used
      /\ s2' = [s2 EXCEPT ![opp] = done.listed] /\ s3' = s3 /\ s5' = s5 /\ s7' = s7
  BY DEF Trades!TakeOrder
<1>2. opp \in {"Buy", "Sell"}
  BY OrdersTotals
<1> HIDE DEF opp
<1>3. /\ s1 \in Seq(DeskOrder) /\ s5 \in Seq(Nat) /\ s6 \in Seq(Nat)
      /\ Len(s5) = Len(s1) /\ Len(s6) = Len(s1) /\ s7 \in Nat /\ s4 \in Purses
      /\ s2 \in [{"Buy", "Sell"} -> Seq(Nat)] /\ s3 \in Seq(Nat)
      /\ \A id \in 1..Len(s1) : OrderSound(s1[id], s6[id], s5[id], s7)
      /\ \A s \in {"Buy", "Sell"} : Stands(s1, s2[s], s)
  BY DEF OrdersInv
<1>4. /\ book \in Seq(Nat) /\ Stands(s1, book, opp)
      /\ \A i \in 1..Len(book) : book[i] \in 1..Len(s1) /\ s1[book[i]].type = "Limit"
  <2>1. Stands(s1, book, opp)
    BY <1>2, <1>3
  <2>2. DOMAIN s1 = 1..Len(s1)
    BY <1>3
  <2> HIDE DEF book
  <2> QED BY <2>1, <2>2 DEF Stands
<1> HIDE DEF book
<1>5. start \in DeskState(opp)
  <2>1. Kept(s1, s1)
    BY DEF Kept, SameTerms
  <2>2. amount \in Nat
    BY DeskAssumed
  <2>3. start \in [orders : Seq(DeskOrder), listed : Seq(Nat), left : Nat, balances : Purses, used : Seq(Nat)]
    BY <1>3, <1>4, <2>2
  <2>4. start.orders = s1 /\ start.used = s6 /\ start.listed = book
    OBVIOUS
  <2> HIDE DEF start
  <2> QED BY <1>3, <1>4, <2>1, <2>3, <2>4 DEF DeskState
<1> HIDE DEF start
<1>6. done \in DeskState(opp)
  BY <1>4, <1>5, WalkEnds
<1> HIDE DEF done
<1>7. /\ done.orders \in Seq(DeskOrder) /\ done.listed \in Seq(Nat)
      /\ done.balances \in Purses /\ done.used \in Seq(Nat)
      /\ Len(done.orders) = Len(s1) /\ Len(done.used) = Len(s1) /\ Kept(s1, done.orders)
      /\ Stands(done.orders, done.listed, opp)
      /\ \A id \in 1..Len(s1) : OrderSound(done.orders[id], done.used[id], s5[id], s7)
  BY <1>6, DeskStateFields
<1>8. /\ \A i \in DOMAIN s3 : s3[i] \in DOMAIN s1' /\ s1'[s3[i]].type = "Recurring"
      /\ \A s \in {"Buy", "Sell"} : Stands(s1', s2[s], s)
  BY <1>1, <1>7, ListsStay
<1>9. s2' \in [{"Buy", "Sell"} -> Seq(Nat)] /\ \A s \in {"Buy", "Sell"} : Stands(s1', s2'[s], s)
  BY <1>1, <1>2, <1>3, <1>7, <1>8
<1> QED BY <1>1, <1>3, <1>7, <1>8, <1>9 DEF OrdersInv

\* An order changes its status outside of the books.
LEMMA StatusKeeps ==
    ASSUME OrdersInv, NEW id \in DOMAIN s1, NEW q \in DeskOrder, SameTerms(q, s1[id]), NEW w \in Nat,
           q.status \in Trades!Open => s1[id].status \in Trades!Open,
           OrderSound(q, w, s5[id], s7), s1' = [s1 EXCEPT ![id] = q], s6' = [s6 EXCEPT ![id] = w],
           s2' = s2, s3' = s3, s4' \in Purses, s5' = s5, s7' = s7
    PROVE  OrdersInv'
<1>1. /\ s1 \in Seq(DeskOrder) /\ s5 \in Seq(Nat) /\ s6 \in Seq(Nat)
      /\ Len(s5) = Len(s1) /\ Len(s6) = Len(s1) /\ s7 \in Nat
      /\ s2 \in [{"Buy", "Sell"} -> Seq(Nat)] /\ s3 \in Seq(Nat)
      /\ \A x \in 1..Len(s1) : OrderSound(s1[x], s6[x], s5[x], s7)
  BY DEF OrdersInv
<1>2. /\ s1' \in Seq(DeskOrder) /\ Len(s1') = Len(s1) /\ Kept(s1, s1') /\ s1'[id] = q
      /\ \A x \in DOMAIN s1 : x # id => s1'[x] = s1[x]
  BY <1>1, OneOrderChanges
<1>3. DOMAIN s1 = 1..Len(s1) /\ DOMAIN s6 = 1..Len(s1)
  BY <1>1
<1>4. s6' \in Seq(Nat) /\ Len(s6') = Len(s1) /\ s6'[id] = w /\ \A x \in 1..Len(s1) : x # id => s6'[x] = s6[x]
  BY <1>1, <1>3, ExceptSeq
<1>5. \A x \in 1..Len(s1) : OrderSound(s1'[x], s6'[x], s5[x], s7)
  <2>1. \A x \in 1..Len(s1) : x # id => s1'[x] = s1[x] /\ s6'[x] = s6[x]
    BY <1>2, <1>3, <1>4
  <2>2. OrderSound(s1'[id], s6'[id], s5[id], s7)
    BY <1>2, <1>4
  <2> QED BY <1>1, <2>1, <2>2, OneOrderUsed
<1>6. /\ \A i \in DOMAIN s3 : s3[i] \in DOMAIN s1' /\ s1'[s3[i]].type = "Recurring"
      /\ \A s \in {"Buy", "Sell"} : Stands(s1', s2[s], s)
  <2>1. Kept(s1, s1')
    BY <1>2
  <2> QED BY ONLY OrdersInv, <2>1, ListsStay
<1> QED BY <1>1, <1>2, <1>4, <1>5, <1>6 DEF OrdersInv

LEMMA CancelKeeps ==
    ASSUME OrdersInv, NEW t \in desk.Traders, NEW id \in DOMAIN s1, Trades!CancelOrder(t, id)
    PROVE  OrdersInv'
<1> DEFINE o == s1[id]
           r == Trades!Reserve(o.side, o.remaining, o.price)
           q == [o EXCEPT !.status = "Cancelled"]
           w == s6[id] + r
<1>1. /\ o.type = "Limit" /\ o.status \in Trades!Open
      /\ s1' = [s1 EXCEPT ![id] = q] /\ s6' = [s6 EXCEPT ![id] = w]
      /\ s4' = [s4 EXCEPT ![t][Trades!ReserveToken(o.side)] = @ + r]
      /\ s2' = s2 /\ s3' = s3 /\ s5' = s5 /\ s7' = s7
  BY DEF Trades!CancelOrder
<1>2. /\ o \in DeskOrder /\ s6[id] \in Nat /\ s5[id] \in Nat /\ OrderSound(o, s6[id], s5[id], s7)
      /\ s4 \in Purses
  BY DEF OrdersInv
<1> HIDE DEF o
<1>3. r \in Nat
  BY <1>2, DeskFields, ReserveSplits
<1>4. s4' \in Purses
  <2> HIDE DEF r
  <2> QED BY <1>1, <1>2, <1>3, OrdersTotals, PurseFilled
<1>5. q \in DeskOrder /\ SameTerms(q, o) /\ q.status = "Cancelled" /\ w \in Nat /\ LimitSound(q, w, s5[id])
  <2>1. LimitSound(o, s6[id], s5[id])
    BY <1>1, <1>2 DEF OrderSound
  <2> QED BY <1>1, <1>2, <2>1, OrderIsCancelled
<1> HIDE DEF q, w
<1>6. OrderSound(q, w, s5[id], s7)
  BY <1>1, <1>5 DEF OrderSound, SameTerms
<1>7. SameTerms(q, s1[id]) /\ q.status \notin Trades!Open
  BY <1>5 DEF o, Trades!Open
<1> QED BY <1>1, <1>4, <1>5, <1>6, <1>7, StatusKeeps

LEMMA RunsCancelled ==
    ASSUME OrdersInv, NEW t \in desk.Traders, NEW id \in DOMAIN s1, Trades!CancelRecurring(t, id)
    PROVE  OrdersInv'
<1> DEFINE o == s1[id]
           q == [o EXCEPT !.status = "Cancelled"]
           w == s6[id]
<1>1. /\ o.type = "Recurring" /\ s1' = [s1 EXCEPT ![id] = q]
      /\ s2' = s2 /\ s3' = s3 /\ s4' = s4 /\ s5' = s5 /\ s6' = s6 /\ s7' = s7
  BY DEF Trades!CancelRecurring
<1>2. /\ o \in DeskOrder /\ w \in Nat /\ s5[id] \in Nat /\ OrderSound(o, w, s5[id], s7)
      /\ s4 \in Purses /\ s6' = [s6 EXCEPT ![id] = w]
  <2>1. s6 \in Seq(Nat)
    BY DEF OrdersInv
  <2>2. s6 = [s6 EXCEPT ![id] = s6[id]]
    BY <2>1
  <2> QED BY <1>1, <2>2 DEF OrdersInv
<1> HIDE DEF o, w
<1>3. /\ q \in DeskOrder /\ SameTerms(q, o) /\ q.status = "Cancelled" /\ q.occurrences = o.occurrences
  BY <1>2 DEF DeskOrder, SameTerms
<1> HIDE DEF q
<1>4. OrderSound(q, w, s5[id], s7)
  BY <1>1, <1>2, <1>3 DEF OrderSound, RunsSound, SameTerms
<1>5. SameTerms(q, s1[id]) /\ q.status \notin Trades!Open
  BY <1>3 DEF o, Trades!Open
<1> QED BY <1>1, <1>2, <1>3, <1>4, <1>5, StatusKeeps

\* All orders change at once, and keep their terms.
LEMMA ManyOrdersChange ==
    ASSUME OrdersInv, s1' \in [1..Len(s1) -> DeskOrder], s6' \in [1..Len(s1) -> Nat],
           \A id \in 1..Len(s1) :
               /\ SameTerms(s1'[id], s1[id])
               /\ s1'[id].status \in Trades!Open => s1[id].status \in Trades!Open
               /\ OrderSound(s1'[id], s6'[id], s5[id], s7),
           s2' = s2, s3' = s3, s4' = s4, s5' = s5, s7' = s7
    PROVE  OrdersInv'
<1>1. /\ s1 \in Seq(DeskOrder) /\ s5 \in Seq(Nat) /\ s6 \in Seq(Nat)
      /\ Len(s5) = Len(s1) /\ Len(s6) = Len(s1) /\ s7 \in Nat /\ s4 \in Purses
      /\ s2 \in [{"Buy", "Sell"} -> Seq(Nat)] /\ s3 \in Seq(Nat)
  BY DEF OrdersInv
<1>2. DOMAIN s1 = 1..Len(s1) /\ Len(s1) \in Nat
  BY <1>1
<1>3. s1' \in Seq(DeskOrder) /\ Len(s1') = Len(s1) /\ s6' \in Seq(Nat) /\ Len(s6') = Len(s1)
  BY <1>2, FunctionIsSequence
<1>4. Kept(s1, s1')
  BY <1>2 DEF Kept
<1>5. /\ \A i \in DOMAIN s3 : s3[i] \in DOMAIN s1' /\ s1'[s3[i]].type = "Recurring"
      /\ \A s \in {"Buy", "Sell"} : Stands(s1', s2[s], s)
  BY <1>4, ListsStay
<1> QED BY <1>1, <1>3, <1>5 DEF OrdersInv

LEMMA MatchesKeep ==
    ASSUME OrdersInv, NEW price, Trades!MatchPendingOrders(price)
    PROVE  OrdersInv'
<1> DEFINE n == Len(s1)
           bids == s2["Buy"]
<1>1. /\ s1' = [id \in DOMAIN s1 |-> IF Trades!Contains(bids, id) THEN Trades!Matched(s1[id], price) ELSE s1[id]]
      /\ s2' = s2 /\ s3' = s3 /\ s4' = s4 /\ s5' = s5 /\ s6' = s6 /\ s7' = s7
  BY DEF Trades!MatchPendingOrders, Trades!Ids
<1>2. /\ s1 \in Seq(DeskOrder) /\ s5 \in Seq(Nat) /\ s6 \in Seq(Nat) /\ Len(s5) = n /\ Len(s6) = n
      /\ s7 \in Nat /\ Stands(s1, bids, "Buy")
      /\ \A id \in 1..n : OrderSound(s1[id], s6[id], s5[id], s7)
  BY DEF OrdersInv
<1>3. /\ DOMAIN s1 = 1..n /\ s6' \in [1..n -> Nat]
      /\ \A id \in 1..n : s1[id] \in DeskOrder /\ s5[id] \in Nat /\ s6[id] \in Nat
  <2>1. s6 \in Seq(Nat) /\ Len(s6) = n
    BY <1>2
  <2>2. s6 \in [1..n -> Nat]
    <3> HIDE DEF n
    <3> QED BY <2>1
  <2>3. DOMAIN s1 = 1..n /\ \A id \in 1..n : s1[id] \in DeskOrder /\ s5[id] \in Nat /\ s6[id] \in Nat
    BY <1>2
  <2> QED BY <1>1, <2>2, <2>3
<1>4. ASSUME NEW id \in 1..n
      PROVE  /\ s1'[id] \in DeskOrder /\ SameTerms(s1'[id], s1[id])
             /\ s1'[id].status \in Trades!Open => s1[id].status \in Trades!Open
             /\ OrderSound(s1'[id], s6'[id], s5[id], s7)
  <2> DEFINE o == s1[id]
  <2>1. o \in DeskOrder /\ s6[id] \in Nat /\ s5[id] \in Nat /\ OrderSound(o, s6[id], s5[id], s7)
    BY <1>2, <1>3
  <2>2. \A st \in {"Filled", "Expired"} :
            LET q == [o EXCEPT !.status = st]
            IN  q \in DeskOrder /\ SameTerms(q, o) /\ q.status = st /\ OrderSound(q, s6[id], s5[id], s7)
    BY <1>2, <2>1, OrderCloses
  <2>3. SameTerms(o, o)
    BY DEF SameTerms
  <2>4. \/ s1'[id] = o \/ s1'[id] = [o EXCEPT !.status = "Expired"]
        \/ s1'[id] = [o EXCEPT !.status = "Filled"]
    BY <1>1, <1>3 DEF Trades!Matched
  <2> HIDE DEF o
  <2>5. CASE s1'[id] = o
    BY <1>1, <2>1, <2>3, <2>5 DEF o
  <2>6. CASE s1'[id] = [o EXCEPT !.status = "Expired"]
    BY <1>1, <2>2, <2>6 DEF o, Trades!Open
  <2>7. CASE s1'[id] = [o EXCEPT !.status = "Filled"]
    BY <1>1, <2>2, <2>7 DEF o, Trades!Open
  <2> QED BY <2>4, <2>5, <2>6, <2>7
<1>5. s1' \in [1..n -> DeskOrder]
  <2>1. DOMAIN s1' = 1..n /\ s1' = [id \in 1..n |-> s1'[id]]
    BY <1>1, <1>3
  <2> QED BY <1>4, <2>1
<1> QED BY <1>1, <1>3, <1>4, <1>5, ManyOrdersChange

LEMMA RunsKeep ==
    ASSUME OrdersInv, Trades!ExecuteDueOrders
    PROVE  OrdersInv'
<1> DEFINE n == Len(s1)
           runs == Trades!Range(s3)
<1>1. /\ s1' = [id \in DOMAIN s1 |-> IF id \in runs THEN Trades!Executed(s1[id]) ELSE s1[id]]
      /\ s6' = [id \in DOMAIN s1 |-> IF id \in runs /\ Trades!Due(s1[id])
                                     THEN s6[id] + s1[id].amount ELSE s6[id]]
      /\ s2' = s2 /\ s3' = s3 /\ s4' = s4 /\ s5' = s5 /\ s7' = s7
  BY DEF Trades!ExecuteDueOrders, Trades!Ids
<1>2. /\ s1 \in Seq(DeskOrder) /\ s5 \in Seq(Nat) /\ s6 \in Seq(Nat) /\ Len(s5) = n /\ Len(s6) = n
      /\ s7 \in Nat
      /\ \A id \in 1..n : OrderSound(s1[id], s6[id], s5[id], s7)
      /\ \A i \in DOMAIN s3 : s3[i] \in DOMAIN s1 /\ s1[s3[i]].type = "Recurring"
  BY DEF OrdersInv
<1>3. /\ DOMAIN s1 = 1..n
      /\ \A id \in 1..n : s1[id] \in DeskOrder /\ s5[id] \in Nat /\ s6[id] \in Nat
  BY <1>2
<1>4. \A id \in runs : s1[id].type = "Recurring"
  BY <1>2 DEF Trades!Range
<1> HIDE DEF runs
<1>5. ASSUME NEW id \in 1..n
      PROVE  /\ s1'[id] \in DeskOrder /\ s6'[id] \in Nat /\ SameTerms(s1'[id], s1[id])
             /\ s1'[id].status \in Trades!Open => s1[id].status \in Trades!Open
             /\ OrderSound(s1'[id], s6'[id], s5[id], s7)
  <2> DEFINE o == s1[id]
             u == s6[id]
             w == IF Trades!Due(o) THEN u + o.amount ELSE u
  <2>1. o \in DeskOrder /\ u \in Nat /\ s5[id] \in Nat /\ OrderSound(o, u, s5[id], s7)
    BY <1>2, <1>3
  <2>2. CASE id \notin runs
    <3>1. s1'[id] = o /\ s6'[id] = u
      BY <1>1, <1>3, <2>2
    <3>2. SameTerms(o, o)
      BY DEF SameTerms
    <3> QED BY <2>1, <3>1, <3>2
  <2>3. CASE id \in runs
    <3>1. s1'[id] = Trades!Executed(o) /\ s6'[id] = w
      BY <1>1, <1>3, <2>3
    <3>2. o.type = "Recurring" /\ RunsSound(o, u, s5[id], s7)
      BY <1>4, <2>1, <2>3 DEF OrderSound
    <3> HIDE DEF o, u
    <3>3. /\ Trades!Executed(o) \in DeskOrder /\ SameTerms(Trades!Executed(o), o) /\ w \in Nat
          /\ RunsSound(Trades!Executed(o), w, s5[id], s7)
      BY <1>2, <2>1, <3>2, OrderRuns
    <3>4. OrderSound(Trades!Executed(o), w, s5[id], s7)
      BY <3>2, <3>3 DEF OrderSound, SameTerms
    <3>5. Trades!Executed(o).status \in Trades!Open => o.status \in Trades!Open
      <4> DEFINE q == Trades!Executed(o)
      <4>1. q.status \in {"Expired", "Filled", "Scheduled"} \/ q = o
        BY <2>1 DEF Trades!Executed, DeskOrder
      <4> HIDE DEF q
      <4>2. q.status \in Trades!Open => o.status \in Trades!Open
        BY <4>1 DEF Trades!Open
      <4> QED BY <4>2 DEF q
    <3> QED BY <3>1, <3>3, <3>4, <3>5 DEF o
  <2> QED BY <2>2, <2>3
<1>6. s1' \in [1..n -> DeskOrder] /\ s6' \in [1..n -> Nat]
  <2>1. DOMAIN s1' = 1..n /\ s1' = [id \in 1..n |-> s1'[id]]
    BY <1>1, <1>3
  <2>2. DOMAIN s6' = 1..n /\ s6' = [id \in 1..n |-> s6'[id]]
    BY <1>1, <1>3
  <2> QED BY <1>5, <2>1, <2>2
<1> QED BY <1>1, <1>5, <1>6, ManyOrdersChange

\* An order more, with what it may use.
LEMMA OrderAdded ==
    ASSUME OrdersInv, NEW e \in DeskOrder, NEW g \in Nat, OrderSound(e, 0, g, s7),
           s1' = Append(s1, e), s5' = Append(s5, g), s6' = Append(s6, 0), s7' = s7
    PROVE  /\ s1' \in Seq(DeskOrder) /\ s5' \in Seq(Nat) /\ s6' \in Seq(Nat)
           /\ Len(s1') = Len(s1) + 1 /\ Len(s5') = Len(s1') /\ Len(s6') = Len(s1')
           /\ \A id \in 1..Len(s1') : OrderSound(s1'[id], s6'[id], s5'[id], s7')
           /\ \A i \in DOMAIN s3 : s3[i] \in DOMAIN s1' /\ s1'[s3[i]].type = "Recurring"
           /\ Len(s1) + 1 \in DOMAIN s1' /\ s1'[Len(s1) + 1] = e
<1> DEFINE n == Len(s1)
<1>1. /\ s1 \in Seq(DeskOrder) /\ s5 \in Seq(Nat) /\ s6 \in Seq(Nat) /\ Len(s5) = n /\ Len(s6) = n
      /\ \A id \in 1..n : OrderSound(s1[id], s6[id], s5[id], s7)
      /\ \A i \in DOMAIN s3 : s3[i] \in DOMAIN s1 /\ s1[s3[i]].type = "Recurring"
  BY DEF OrdersInv
<1>2. n \in Nat /\ DOMAIN s1 = 1..n
  BY <1>1
<1>3. /\ s1' \in Seq(DeskOrder) /\ Len(s1') = n + 1 /\ DOMAIN s1' = 1..n + 1 /\ s1'[n + 1] = e
      /\ \A id \in 1..n : s1'[id] = s1[id]
  BY <1>1
<1>4. /\ s5' \in Seq(Nat) /\ Len(s5') = n + 1 /\ s5'[n + 1] = g /\ \A id \in 1..n : s5'[id] = s5[id]
  BY <1>1
<1>5. /\ s6' \in Seq(Nat) /\ Len(s6') = n + 1 /\ s6'[n + 1] = 0 /\ \A id \in 1..n : s6'[id] = s6[id]
  BY <1>1
<1> HIDE DEF n
<1>6. \A id \in 1..n + 1 : OrderSound(s1'[id], s6'[id], s5'[id], s7')
  <2> TAKE id \in 1..n + 1
  <2>1. CASE id = n + 1
    BY <1>3, <1>4, <1>5, <2>1
  <2>2. CASE id \in 1..n
    BY <1>1, <1>3, <1>4, <1>5, <2>2
  <2>3. id = n + 1 \/ id \in 1..n
    BY <1>2
  <2> QED BY <2>1, <2>2, <2>3
<1>7. \A i \in DOMAIN s3 : s3[i] \in DOMAIN s1' /\ s1'[s3[i]].type = "Recurring"
  <2> TAKE i \in DOMAIN s3
  <2>1. s3[i] \in 1..n /\ s1[s3[i]].type = "Recurring"
    BY <1>1, <1>2
  <2> QED BY <1>2, <1>3, <2>1
<1>8. n + 1 \in DOMAIN s1'
  BY <1>2, <1>3
<1> QED BY <1>3, <1>4, <1>5, <1>6, <1>7, <1>8 DEF n

LEMMA LimitPlaced ==
    ASSUME OrdersInv, NEW t \in desk.Traders, NEW side \in {"Buy", "Sell"}, NEW amount \in desk.Amounts,
           NEW price \in desk.Prices, NEW expires \in desk.Deadlines,
           Trades!PlaceLimitOrder(t, side, amount, price, expires)
    PROVE  OrdersInv'
<1> DEFINE token == Trades!ReserveToken(side)
           r == Trades!Reserve(side, amount, price)
           id == Len(s1) + 1
           e == [owner |-> t, type |-> "Limit", side |-> side, amount |-> amount,
                 remaining |-> amount, price |-> price, status |-> "Pending",
                 expires |-> expires, created |-> s7, interval |-> 0,
                 occurrences |-> 0, next |-> 0]
           L == Trades!AddToOrderBook(s2[side], side, price, id)
<1>1. /\ s4[t][token] >= r /\ s4' = [s4 EXCEPT ![t][token] = @ - r] /\ s1' = Append(s1, e)
      /\ s2' = [s2 EXCEPT ![side] = L] /\ s5' = Append(s5, r) /\ s6' = Append(s6, 0)
      /\ s3' = s3 /\ s7' = s7
  BY DEF Trades!PlaceLimitOrder
<1>2. amount \in Nat /\ price \in Nat /\ expires \in Nat /\ s7 \in Nat
  BY DeskAssumed DEF OrdersInv
<1>3. r \in Nat /\ (side = "Sell" => r = amount)
  BY <1>2, ReserveSplits
<1>4. /\ e \in DeskOrder /\ e.type = "Limit" /\ e.side = side /\ e.price = price /\ e.remaining = amount
      /\ e.status = "Pending"
  BY <1>2 DEF DeskOrder
<1>5. OrderSound(e, 0, r, s7)
  <2>1. Trades!Reserve(e.side, e.remaining, e.price) = r
    BY <1>4
  <2> HIDE DEF e, r
  <2>2. LimitSound(e, 0, r)
    BY <1>2, <1>3, <1>4, <2>1 DEF LimitSound
  <2> QED BY <1>4, <2>2 DEF OrderSound
<1> HIDE DEF e, r, token, L
<1>6. /\ s1' \in Seq(DeskOrder) /\ s5' \in Seq(Nat) /\ s6' \in Seq(Nat)
      /\ Len(s1') = Len(s1) + 1 /\ Len(s5') = Len(s1') /\ Len(s6') = Len(s1')
      /\ \A x \in 1..Len(s1') : OrderSound(s1'[x], s6'[x], s5'[x], s7')
      /\ \A i \in DOMAIN s3 : s3[i] \in DOMAIN s1' /\ s1'[s3[i]].type = "Recurring"
  BY <1>1, <1>3, <1>4, <1>5, OrderAdded
<1>7. s4' \in Purses
  <2>1. s4 \in Purses /\ token \in {"base", "quote"}
    BY OrdersTotals DEF OrdersInv, token
  <2>2. s4[t][token] - r \in Nat
    BY <1>1, <1>3, <2>1 DEF Purses
  <2> QED BY <1>1, <2>1, <2>2 DEF Purses
<1>8. /\ s1 \in Seq(DeskOrder) /\ s2 \in [{"Buy", "Sell"} -> Seq(Nat)] /\ s3 \in Seq(Nat)
      /\ \A s \in {"Buy", "Sell"} : Stands(s1, s2[s], s)
  BY DEF OrdersInv
<1>9. Stands(s1', L, side) /\ L \in Seq(Nat)
  <2> DEFINE book == s2[side]
  <2>1. Stands(s1, book, side)
    BY <1>8
  <2> HIDE DEF book
  <2>2. Stands(Append(s1, e), Trades!AddToOrderBook(book, side, e.price, Len(s1) + 1), side)
    BY <1>4, <1>8, <2>1, StandsWith
  <2>3. Stands(s1', L, side)
    BY <1>1, <1>4, <2>2 DEF L, book
  <2> QED BY <2>3 DEF Stands
<1>10. \A s \in {"Buy", "Sell"} : s # side => Stands(s1', s2[s], s)
  BY <1>1, <1>4, <1>8, StandsBeside
<1>11. s2' \in [{"Buy", "Sell"} -> Seq(Nat)] /\ \A s \in {"Buy", "Sell"} : Stands(s1', s2'[s], s)
  BY <1>1, <1>8, <1>9, <1>10
<1> QED BY <1>1, <1>2, <1>6, <1>7, <1>8, <1>11 DEF OrdersInv

LEMMA RunsPlaced ==
    ASSUME OrdersInv, NEW t \in desk.Traders, NEW amount \in desk.Amounts, NEW interval \in desk.Intervals,
           NEW occurrences \in desk.Occurrences, NEW expires \in desk.Deadlines,
           Trades!PlaceRecurringOrder(t, amount, interval, occurrences, expires)
    PROVE  OrdersInv'
<1> DEFINE g == amount * occurrences
           id == Len(s1) + 1
           e == [owner |-> t, type |-> "Recurring", side |-> "Buy", amount |-> amount,
                 remaining |-> 0, price |-> 0, status |-> "Pending", expires |-> expires,
                 created |-> s7, interval |-> interval, occurrences |-> occurrences,
                 next |-> s7 + interval]
<1>1. /\ s1' = Append(s1, e) /\ s3' = Append(s3, id) /\ s5' = Append(s5, g) /\ s6' = Append(s6, 0)
      /\ s2' = s2 /\ s4' = s4 /\ s7' = s7
  BY DEF Trades!PlaceRecurringOrder
<1>2. /\ amount \in Nat /\ interval \in Nat /\ occurrences \in Nat \ {0} /\ expires \in Nat /\ s7 \in Nat
      /\ s7 + interval \in Nat
  BY DeskAssumed DEF OrdersInv
<1>3. g \in Nat
  BY <1>2, ProductNat
<1>4. /\ e \in DeskOrder /\ e.type = "Recurring" /\ e.amount = amount /\ e.interval = interval
      /\ e.occurrences = occurrences /\ e.created = s7 /\ e.next = s7 + interval
  BY <1>2 DEF DeskOrder
<1>5. OrderSound(e, 0, g, s7)
  <2>1. g = e.amount * e.occurrences /\ g \in Nat
    BY <1>3, <1>4
  <2> HIDE DEF e, g
  <2>2. 0 * e.interval = 0 /\ s7 - e.created = 0 /\ 0 * e.amount = 0 /\ e.next - e.interval - e.created = 0
    BY <1>2, <1>4
  <2>3. 0 + e.amount * e.occurrences = g
    BY <2>1
  <2>4. e.created <= s7 /\ e.occurrences > 0 /\ e.created + e.interval <= e.next
    BY <1>2, <1>4
  <2>5. 0 * e.interval <= (s7 - e.created) * e.amount
    BY <2>2
  <2>6. 0 * e.interval <= (e.next - e.interval - e.created) * e.amount
    BY <2>2
  <2>7. RunsSound(e, 0, g, s7)
    BY <2>3, <2>4, <2>5, <2>6 DEF RunsSound
  <2> QED BY <1>4, <2>7 DEF OrderSound
<1> HIDE DEF e, g
<1>6. /\ s1' \in Seq(DeskOrder) /\ s5' \in Seq(Nat) /\ s6' \in Seq(Nat)
      /\ Len(s1') = Len(s1) + 1 /\ Len(s5') = Len(s1') /\ Len(s6') = Len(s1')
      /\ \A x \in 1..Len(s1') : OrderSound(s1'[x], s6'[x], s5'[x], s7')
      /\ \A i \in DOMAIN s3 : s3[i] \in DOMAIN s1' /\ s1'[s3[i]].type = "Recurring"
      /\ id \in DOMAIN s1' /\ s1'[id] = e
  BY <1>1, <1>3, <1>4, <1>5, OrderAdded
<1>7. /\ s1 \in Seq(DeskOrder) /\ s2 \in [{"Buy", "Sell"} -> Seq(Nat)] /\ s3 \in Seq(Nat) /\ s4 \in Purses
      /\ \A s \in {"Buy", "Sell"} : Stands(s1, s2[s], s)
  BY DEF OrdersInv
<1>8. id \in Nat
  BY <1>7
<1> HIDE DEF id
<1>9. s3' \in Seq(Nat) /\ \A i \in DOMAIN s3' : s3'[i] \in DOMAIN s1' /\ s1'[s3'[i]].type = "Recurring"
  <2> DEFINE m == Len(s3)
  <2>1. /\ s3' \in Seq(Nat) /\ m \in Nat /\ DOMAIN s3 = 1..m /\ DOMAIN s3' = 1..m + 1 /\ s3'[m + 1] = id
        /\ \A i \in 1..m : s3'[i] = s3[i]
    BY <1>1, <1>7, <1>8
  <2> HIDE DEF m
  <2>2. \A i \in 1..m + 1 : i = m + 1 \/ i \in 1..m
    BY <2>1
  <2> QED BY <1>4, <1>6, <2>1, <2>2
<1>10. \A s \in {"Buy", "Sell"} : Stands(s1', s2[s], s)
  <2>1. e.type # "Limit"
    BY <1>4
  <2> QED BY <1>1, <1>4, <1>7, <2>1, StandsBeside
<1> QED BY <1>1, <1>2, <1>6, <1>7, <1>9, <1>10 DEF OrdersInv

LEMMA OrdersBegin == InOrders => OrdersInv
<1> SUFFICES ASSUME InOrders PROVE OrdersInv
  OBVIOUS
<1>1. /\ s1 = <<>> /\ s2 = [s \in {"Buy", "Sell"} |-> <<>>] /\ s3 = <<>> /\ s5 = <<>> /\ s6 = <<>>
      /\ s7 = 1 /\ s4 = [t \in desk.Traders |-> [x \in {"base", "quote"} |-> desk.Funds]]
  BY OrdersTotals DEF InOrders, Trades!Init
<1>2. desk.Funds \in Nat
  BY CoreAssumption DEF Trades!OrdersAssumption
<1>3. s4 \in Purses
  BY <1>1, <1>2 DEF Purses
<1>4. /\ s1 \in Seq(DeskOrder) /\ s3 \in Seq(Nat) /\ s5 \in Seq(Nat) /\ s6 \in Seq(Nat)
      /\ Len(s1) = 0 /\ Len(s5) = 0 /\ Len(s6) = 0 /\ DOMAIN s1 = {} /\ DOMAIN s3 = {}
      /\ s2 \in [{"Buy", "Sell"} -> Seq(Nat)]
  BY <1>1
<1>5. \A s \in {"Buy", "Sell"} : Stands(s1, s2[s], s)
  <2> TAKE s \in {"Buy", "Sell"}
  <2>1. s2[s] = <<>> /\ <<>> \in Seq(Nat) /\ Len(<<>>) = 0 /\ 1..0 = {}
    BY <1>1
  <2> QED BY <1>4, <2>1 DEF Stands
<1>6. \A id \in 1..Len(s1) : OrderSound(s1[id], s6[id], s5[id], s7)
  BY <1>4
<1>7. s7 \in Nat /\ Len(s5) = Len(s1) /\ Len(s6) = Len(s1)
  BY <1>1, <1>4
<1> QED BY <1>3, <1>4, <1>5, <1>6, <1>7 DEF OrdersInv

LEMMA OrdersGoOn ==
    ASSUME OrdersInv, Trades!Next
    PROVE  OrdersInv'
<1>1. ASSUME NEW t \in desk.Traders, NEW side \in Trades!Sides, NEW amount \in desk.Amounts,
             NEW price \in desk.Prices, NEW d \in desk.Deadlines,
             Trades!PlaceLimitOrder(t, side, amount, price, d)
      PROVE  OrdersInv'
  BY <1>1, LimitPlaced, OrdersTotals
<1>2. ASSUME NEW t \in desk.Traders, NEW side \in Trades!Sides, NEW amount \in desk.Takes, NEW limit,
             Trades!TakeOrder(t, side, amount, limit)
      PROVE  OrdersInv'
  BY <1>2, TakesKeep, OrdersTotals
<1>3. ASSUME NEW t \in desk.Traders, NEW id \in Trades!Ids,
             Trades!CancelOrder(t, id) \/ Trades!CancelRecurring(t, id)
      PROVE  OrdersInv'
  BY <1>3, CancelKeeps, RunsCancelled DEF Trades!Ids
<1>4. CASE \E price \in desk.Prices : Trades!MatchPendingOrders(price)
  BY <1>4, MatchesKeep
<1>5. ASSUME NEW t \in desk.Traders, NEW amount \in desk.Amounts, NEW i \in desk.Intervals,
             NEW n \in desk.Occurrences, NEW d \in desk.Deadlines,
             Trades!PlaceRecurringOrder(t, amount, i, n, d)
      PROVE  OrdersInv'
  BY <1>5, RunsPlaced
<1>6. CASE Trades!ExecuteDueOrders
  BY <1>6, RunsKeep
<1>7. CASE Trades!Tick
  <2>1. /\ s7' = s7 + 1 /\ s1' = s1 /\ s2' = s2 /\ s3' = s3 /\ s4' = s4 /\ s5' = s5 /\ s6' = s6
        /\ s7 \in Nat
    BY <1>7 DEF Trades!Tick, OrdersInv
  <2>2. \A id \in 1..Len(s1) : s1[id] \in DeskOrder /\ s5[id] \in Nat /\ s6[id] \in Nat
    BY DEF OrdersInv
  <2>3. \A id \in 1..Len(s1) : OrderSound(s1[id], s6[id], s5[id], s7 + 1)
    BY <2>1, <2>2, OrderWaits DEF OrdersInv
  <2> QED BY <2>1, <2>3 DEF OrdersInv
<1> QED BY <1>1, <1>2, <1>3, <1>4, <1>5, <1>6, <1>7 DEF Trades!Next

LEMMA OrdersKeepPromises ==
    OrdersInv => Trades!BudgetKept /\ Trades!BookInPriority /\ Trades!RecurringPaced
<1> SUFFICES ASSUME OrdersInv
             PROVE  Trades!BudgetKept /\ Trades!BookInPriority /\ Trades!RecurringPaced
  OBVIOUS
<1>1. /\ DOMAIN s1 = 1..Len(s1) /\ Trades!Ids = 1..Len(s1)
      /\ \A id \in 1..Len(s1) : s1[id] \in DeskOrder /\ s5[id] \in Nat /\ s6[id] \in Nat
  BY DEF OrdersInv, Trades!Ids
<1>2. ASSUME NEW id \in Trades!Ids
      PROVE  /\ s6[id] <= s5[id]
             /\ (s1[id].type = "Limit" /\ s1[id].side = "Sell" /\ s1[id].status = "Cancelled")
                    => s6[id] = s5[id]
             /\ s1[id].type = "Recurring" =>
                    s6[id] * s1[id].interval <= (s7 - s1[id].created) * s1[id].amount
  <2> DEFINE o == s1[id]
             u == s6[id]
             g == s5[id]
  <2>1. o \in DeskOrder /\ u \in Nat /\ g \in Nat /\ OrderSound(o, u, g, s7)
    BY <1>1 DEF OrdersInv
  <2> HIDE DEF o, u, g
  <2>2. CASE o.type = "Limit"
    BY <2>1, <2>2 DEF OrderSound, LimitSound, o, u, g
  <2>3. CASE o.type = "Recurring"
    <3>1. RunsSound(o, u, g, s7)
      BY <2>1, <2>3 DEF OrderSound
    <3> DEFINE x == o.amount * o.occurrences
    <3>2. x \in Nat
      BY <2>1, DeskFields, ProductNat
    <3>3. u + x = g /\ u * o.interval <= (s7 - o.created) * o.amount
      BY <3>1 DEF RunsSound
    <3> HIDE DEF x
    <3>4. u <= g
      BY <2>1, <3>2, <3>3
    <3> QED BY <2>3, <3>3, <3>4 DEF o, u, g
  <2>4. o.type = "Limit" \/ o.type = "Recurring"
    BY <2>1, DeskFields
  <2> QED BY <2>2, <2>3, <2>4
<1>3. ASSUME NEW s \in {"Buy", "Sell"}, NEW i \in DOMAIN s2[s], NEW j \in DOMAIN s2[s], i < j
      PROVE  \/ Trades!Better(s, s1[s2[s][i]].price, s1[s2[s][j]].price)
             \/ s1[s2[s][i]].price = s1[s2[s][j]].price /\ s2[s][i] < s2[s][j]
  <2>1. Stands(s1, s2[s], s) /\ DOMAIN s2[s] = 1..Len(s2[s])
    BY DEF OrdersInv
  <2>2. Precedes(s1, s, s2[s][i], s2[s][j])
    BY <1>3, <2>1 DEF Stands
  <2> QED BY <2>2 DEF Precedes
<1>4. ASSUME NEW id \in Trades!Ids, s1[id].type = "Limit", s1[id].status \in Trades!Open
      PROVE  Trades!Contains(s2[s1[id].side], id)
  <2> DEFINE side == s1[id].side
  <2>1. side \in {"Buy", "Sell"}
    BY <1>1, DeskFields
  <2>2. Stands(s1, s2[side], side)
    BY <2>1 DEF OrdersInv
  <2>3. \E i \in 1..Len(s2[side]) : s2[side][i] = id
    BY <1>1, <1>4, <2>2 DEF Stands
  <2> QED BY <2>3 DEF Trades!Contains
<1>5. Trades!BudgetKept
  BY <1>2 DEF Trades!BudgetKept
<1>6. Trades!RecurringPaced
  BY <1>2 DEF Trades!RecurringPaced
<1>7. Trades!BookInPriority
  BY <1>3, <1>4, OrdersTotals DEF Trades!BookInPriority
<1> QED BY <1>5, <1>6, <1>7

\* The theorem behind OrdersHold: whatever the order of takes at rounded prices, expiries,
\* matches, runs and cancellations, no order uses more than its budget, the books stay in
\* priority and complete, and recurring orders keep their pace.
THEOREM OrdersHoldAlways == CoreSpec => []OrdersHold
<1> DEFINE Inv == part = "orders" => OrdersInv
<1>1. CoreInit => Inv
  BY PartBegins, OrdersBegin
<1>2. Inv /\ [CoreNext]_vars => Inv'
  <2>1. ASSUME Inv, CoreNext PROVE Inv'
    <3>1. CASE part = "orders"
      BY <2>1, <3>1, PartGoesOn, OrdersGoOn DEF OrdersStep
    <3>2. CASE part # "orders"
      BY <3>2, <2>1, PartGoesOn
    <3> QED BY <3>1, <3>2
  <2>2. ASSUME Inv, UNCHANGED vars PROVE Inv'
    BY <2>2, NothingMoves DEF OrdersInv
  <2> QED BY <2>1, <2>2
<1>3. Inv => OrdersHold
  BY OrdersKeepPromises DEF OrdersHold
<1> QED BY <1>1, <1>2, <1>3, PTL DEF CoreSpec

-----------------------------------------------------------------------------
(* The fee and its history.                                                *)

\* The smaller and the larger of two numbers.
LEMMA TwoNumbers ==
    ASSUME NEW x \in Int, NEW y \in Int
    PROVE  /\ Tariff!Min({x, y}) = IF x <= y THEN x ELSE y
           /\ Tariff!Max({x, y}) = IF x >= y THEN x ELSE y
<1>1. Tariff!Min({x, y}) = IF x <= y THEN x ELSE y
  <2> DEFINE m == IF x <= y THEN x ELSE y
             P(k) == k \in {x, y} /\ \A l \in {x, y} : k <= l
  <2>1. P(m)
    OBVIOUS
  <2>2. \A k : P(k) => k = m
    OBVIOUS
  <2>3. (CHOOSE k : P(k)) = m
    BY <2>1, <2>2
  <2>4. Tariff!Min({x, y}) = CHOOSE k : P(k)
    BY DEF Tariff!Min
  <2> QED BY <2>3, <2>4
<1>2. Tariff!Max({x, y}) = IF x >= y THEN x ELSE y
  <2> DEFINE m == IF x >= y THEN x ELSE y
             P(k) == k \in {x, y} /\ \A l \in {x, y} : k >= l
  <2>1. P(m)
    OBVIOUS
  <2>2. \A k : P(k) => k = m
    OBVIOUS
  <2>3. (CHOOSE k : P(k)) = m
    BY <2>1, <2>2
  <2>4. Tariff!Max({x, y}) = CHOOSE k : P(k)
    BY DEF Tariff!Max
  <2> QED BY <2>3, <2>4
<1> QED BY <1>1, <1>2

\* h is what the n lists of q become, joined one after the other.
Joins(h, q, n) ==
    /\ n \in Nat \ {0} /\ Len(q) = n /\ h[1] = q[1]
    /\ \A i \in 2..n : h[i] = h[i - 1] \o q[i]

LEMMA FlattenIs ==
    ASSUME NEW n, NEW q, NEW h, Joins(h, q, n)
    PROVE  Tariff!FlattenSeq(q) = h[n]
<1>0. n \in Nat \ {0} /\ Len(q) = n /\ h[1] = q[1] /\ \A i \in 2..n : h[i] = h[i - 1] \o q[i]
  BY DEF Joins
<1> DEFINE IsFlat(g) == g = [i \in 1..n |-> IF i = 1 THEN q[i] ELSE g[i - 1] \o q[i]]
           p == CHOOSE g : IsFlat(g)
<1>1. \E g : IsFlat(g)
  <2> DEFINE g == [i \in 1..n |-> h[i]]
  <2>1. ASSUME NEW i \in 1..n PROVE g[i] = IF i = 1 THEN q[i] ELSE g[i - 1] \o q[i]
    <3>1. CASE i = 1
      BY <1>0, <3>1
    <3>2. CASE i # 1
      <4>1. i \in 2..n /\ i - 1 \in 1..n
        BY <1>0, <3>2
      <4>2. g[i] = h[i] /\ g[i - 1] = h[i - 1]
        BY <4>1
      <4>3. h[i] = h[i - 1] \o q[i]
        BY <4>1, <1>0
      <4> QED BY <3>2, <4>2, <4>3
    <3> QED BY <3>1, <3>2
  <2>2. g = [i \in 1..n |-> g[i]]
    OBVIOUS
  <2> HIDE DEF g
  <2>3. g = [i \in 1..n |-> IF i = 1 THEN q[i] ELSE g[i - 1] \o q[i]]
    BY <2>1, <2>2
  <2> QED BY <2>3
<1>2. IsFlat(p)
  BY <1>1
<1>3. Tariff!FlattenSeq(q) = p[n]
  BY <1>0 DEF Tariff!FlattenSeq
<1> HIDE DEF p
<1> DEFINE S == {k \in Nat : k + 1 <= n => p[k + 1] = h[k + 1]}
<1>4. 0 \in S
  <2>1. 1 \in 1..n
    BY <1>0
  <2>2. p[1] = q[1]
    BY <1>2, <2>1
  <2> QED BY <1>0, <2>2
<1>5. ASSUME NEW k \in Nat, k \in S PROVE k + 1 \in S
  <2> SUFFICES ASSUME (k + 1) + 1 <= n PROVE p[(k + 1) + 1] = h[(k + 1) + 1]
    OBVIOUS
  <2> DEFINE i == (k + 1) + 1
  <2>1. i \in 1..n /\ i # 1 /\ i \in 2..n /\ i - 1 = k + 1
    BY <1>0
  <2>2. p[k + 1] = h[k + 1]
    BY <1>0, <1>5
  <2> HIDE DEF i
  <2>3. p[i] = p[i - 1] \o q[i]
    BY <1>2, <2>1
  <2>4. h[i] = h[i - 1] \o q[i]
    BY <1>0, <2>1
  <2>5. p[i] = h[i]
    BY <2>1, <2>2, <2>3, <2>4
  <2> QED BY <2>5 DEF i
<1> HIDE DEF S
<1>6. n - 1 \in S
  <2>1. n - 1 \in Nat
    BY <1>0
  <2> QED BY <1>4, <1>5, <2>1, NatSetInduction
<1>7. p[n] = h[n]
  <2>1. n - 1 \in Nat /\ (n - 1) + 1 = n
    BY <1>0
  <2> QED BY <1>0, <1>6, <2>1 DEF S
<1> QED BY <1>3, <1>7

\* The pages of the history give every entry once, in their order.
LEMMA PagesGiveAll ==
    ASSUME NEW S, s9 \in Seq(S)
    PROVE  Tariff!PagesCover
<1> DEFINE N == Len(s9)
           d == tariff.PageSize
           n == Tariff!TotalPages
           E(i) == IF i * d <= N THEN i * d ELSE N
           q == [p \in 1..n |-> Tariff!Page(p - 1)]
           h == [i \in 1..n |-> SubSeq(s9, 1, E(i))]
<1> SUFFICES Tariff!FlattenSeq(q) = s9
  BY DEF Tariff!PagesCover
<1>1. N \in Nat /\ d \in Nat \ {0}
  BY CoreAssumption DEF Tariff!DynamicFeesAssumption
<1>2. n = (N + d - 1) \div d
  BY DEF Tariff!TotalPages
<1> HIDE DEF N, d, n
<1>3. N + d - 1 \in Nat
  BY <1>1
<1>4. n \in Nat /\ n * d \in Nat /\ n * d <= N + d - 1 /\ N + d - 1 < n * d + d
  BY <1>1, <1>2, <1>3, RoundedDown
<1>5. N <= n * d
  BY <1>1, <1>4
<1>6. Len(q) = n
  BY <1>4
<1>7. \A i \in 1..n : q[i] = SubSeq(s9, (i - 1) * d + 1, E(i))
  <2> SUFFICES ASSUME NEW i \in 1..n PROVE q[i] = SubSeq(s9, (i - 1) * d + 1, E(i))
    OBVIOUS
  <2>1. ~(i - 1 >= n) /\ (i - 1) + 1 = i /\ i \in Nat
    BY <1>4
  <2>2. i * d \in Int
    BY <1>1, <2>1, ProductNat
  <2>3. q[i] = Tariff!Page(i - 1)
    OBVIOUS
  <2>4. Tariff!Page(i - 1) = SubSeq(s9, (i - 1) * d + 1, Tariff!Min({((i - 1) + 1) * d, N}))
    BY <2>1 DEF Tariff!Page, d, n, N
  <2>5. Tariff!Min({i * d, N}) = E(i)
    BY <1>1, <2>2, TwoNumbers
  <2> HIDE DEF q, E
  <2> QED BY <2>1, <2>3, <2>4, <2>5
<1>8. CASE n = 0
  <2>1. N = 0
    <3>1. 0 * d = 0
      BY <1>1
    <3> QED BY <1>1, <1>5, <1>8, <3>1
  <2>2. s9 = <<>>
    BY <2>1 DEF N
  <2>3. q = <<>>
    BY <1>8
  <2>4. Tariff!FlattenSeq(<<>>) = <<>>
    BY DEF Tariff!FlattenSeq
  <2> HIDE DEF q
  <2> QED BY <2>2, <2>3, <2>4
<1>9. CASE n # 0
  <2>1. n \in Nat \ {0}
    BY <1>4, <1>9
  <2>2. h[1] = q[1]
    <3>1. 1 \in 1..n /\ (1 - 1) * d + 1 = 1
      BY <1>1, <2>1
    <3>2. h[1] = SubSeq(s9, 1, E(1))
      BY <3>1
    <3> HIDE DEF h, q, E
    <3> QED BY <1>7, <3>1, <3>2
  <2>3. ASSUME NEW i \in 2..n PROVE h[i] = h[i - 1] \o q[i]
    <3>1. i \in 1..n /\ i - 1 \in 1..n /\ i \in Nat /\ i - 1 \in Nat
      BY <2>1
    <3>2. h[i] = SubSeq(s9, 1, E(i)) /\ h[i - 1] = SubSeq(s9, 1, E(i - 1))
      BY <3>1
    <3>3. (i - 1) * d \in Nat /\ i * d \in Nat /\ i * d = (i - 1) * d + d
      <4>1. ((i - 1) + 1) * d = (i - 1) * d + 1 * d /\ 1 * d = d
        BY <1>1, <3>1
      <4>2. (i - 1) + 1 = i
        BY <3>1
      <4> QED BY <1>1, <3>1, <4>1, <4>2, ProductNat
    <3>4. i * d <= n * d
      <4>1. i \in Int /\ n \in Int /\ i <= n /\ d \in Nat
        BY <1>1, <1>4, <3>1
      <4> QED BY <4>1, ProductOrder
    <3>5. (i - 1) * d <= N
      BY <1>1, <1>4, <3>3, <3>4
    <3>6. E(i - 1) = (i - 1) * d /\ E(i) \in 0..N /\ E(i - 1) \in 0..N /\ E(i - 1) <= E(i)
      BY <1>1, <3>3, <3>5
    <3> HIDE DEF h, q, E
    <3>7. q[i] = SubSeq(s9, E(i - 1) + 1, E(i))
      BY <1>7, <3>1, <3>6
    <3> DEFINE a == E(i - 1)
               b == E(i)
    <3>8. a \in 0..Len(s9) /\ b \in 0..Len(s9) /\ a <= b
      BY <3>6 DEF N
    <3> HIDE DEF a, b
    <3>9. SubSeq(s9, 1, a) \o SubSeq(s9, a + 1, b) = SubSeq(s9, 1, b)
      BY <3>8, PartsJoin
    <3> QED BY <3>2, <3>7, <3>9 DEF a, b
  <2>4. h[n] = s9
    <3>1. n \in 1..n
      BY <2>1
    <3>2. E(n) = N
      BY <1>1, <1>4, <1>5
    <3>4. h[n] = SubSeq(s9, 1, E(n))
      BY <3>1
    <3> HIDE DEF h, E
    <3>3. h[n] = SubSeq(s9, 1, N)
      BY <3>4, <3>2
    <3> QED BY <3>3 DEF N
  <2> HIDE DEF h, q
  <2>6. \A i \in 2..n : h[i] = h[i - 1] \o q[i]
    BY <2>3
  <2>7. Joins(h, q, n)
    BY <1>6, <2>1, <2>2, <2>6 DEF Joins
  <2>5. Tariff!FlattenSeq(q) = h[n]
    BY <2>7, FlattenIs
  <2> QED BY <2>4, <2>5
<1> QED BY <1>8, <1>9

\* One of some numbers is the greatest.
LEMMA GreatestOfList ==
    ASSUME NEW n \in Nat \ {0}, NEW f, \A i \in 1..n : f[i] \in Nat
    PROVE  \E k \in 1..n : \A i \in 1..n : f[i] <= f[k]
<1> DEFINE S == {m \in Nat : m + 1 <= n => \E k \in 1..m + 1 : \A i \in 1..m + 1 : f[i] <= f[k]}
<1>1. 0 \in S
  <2>1. 1 \in 1..0 + 1 /\ \A i \in 1..0 + 1 : f[i] <= f[1]
    OBVIOUS
  <2> QED BY <2>1
<1>2. ASSUME NEW m \in Nat, m \in S PROVE m + 1 \in S
  <2> SUFFICES ASSUME (m + 1) + 1 <= n
               PROVE  \E k \in 1..(m + 1) + 1 : \A i \in 1..(m + 1) + 1 : f[i] <= f[k]
    OBVIOUS
  <2>1. PICK k \in 1..m + 1 : \A i \in 1..m + 1 : f[i] <= f[k]
    BY <1>2
  <2> DEFINE l == (m + 1) + 1
  <2>2. l \in 1..n /\ k \in 1..n /\ \A i \in 1..l : i \in 1..m + 1 \/ i = l
    OBVIOUS
  <2>3. k \in 1..l /\ l \in 1..l
    OBVIOUS
  <2> HIDE DEF l
  <2>4. f[l] \in Nat /\ f[k] \in Nat /\ \A i \in 1..m + 1 : f[i] \in Nat
    <3>1. \A i \in 1..m + 1 : i \in 1..n
      BY <2>2 DEF l
    <3> QED BY <2>2, <3>1
  <2>5. CASE f[l] <= f[k]
    <3>1. \A i \in 1..l : f[i] <= f[k]
      BY <2>1, <2>2, <2>5
    <3> QED BY <2>3, <3>1 DEF l
  <2>6. CASE f[k] <= f[l]
    <3>1. \A i \in 1..m + 1 : f[i] <= f[l]
      BY <2>1, <2>4, <2>6
    <3>2. \A i \in 1..l : f[i] <= f[l]
      BY <2>2, <2>4, <3>1
    <3> QED BY <2>3, <3>2 DEF l
  <2> QED BY <2>4, <2>5, <2>6
<1> HIDE DEF S
<1>3. n - 1 \in Nat
  OBVIOUS
<1>4. n - 1 \in S
  BY <1>1, <1>2, <1>3, NatSetInduction
<1> QED BY <1>3, <1>4 DEF S

\* The sums and the picked lists of the part are those of the lemmas.
LEMMA TariffSums ==
    /\ \A f, n : Tariff!Total(f, n) = Total(f, n)
    /\ \A s, T : Tariff!Picked(s, T) = Picked(s, T)
<1>1. \A f, n : Tariff!Total(f, n) = Total(f, n)
  BY DEF Tariff!Total, Total, Tariff!PartialSums, PartialSums
<1>2. \A s, T : Tariff!Picked(s, T) = Picked(s, T)
  BY DEF Tariff!Picked, Picked, Tariff!PartialPicks, PartialPicks
<1> QED BY <1>1, <1>2

FeeEntry == [at : Nat, fee : Nat, previous : Nat, level : 1..5,
             reason : {"SystemInitialization", "Automatic", "Manual"}]

\* The mean of a period lies between its extremes.
LEMMA MeanBetweenExtremes ==
    ASSUME NEW q \in Seq(FeeEntry), q # <<>>
    PROVE  Tariff!Statistics(q).mean \in Tariff!Statistics(q).least..Tariff!Statistics(q).most
<1> DEFINE n == Len(q)
           f == [i \in DOMAIN q |-> q[i].fee]
           T == {q[i].fee : i \in DOMAIN q}
           lo == Tariff!Min(T)
           hi == Tariff!Max(T)
           mean == Total(f, n) \div n
<1>1. n \in Nat \ {0} /\ DOMAIN q = 1..n
  OBVIOUS
<1>2. \A i \in 1..n : q[i].fee \in Nat
  <2>1. \A i \in 1..n : q[i] \in FeeEntry
    OBVIOUS
  <2> QED BY <2>1 DEF FeeEntry
<1>3. /\ Tariff!Statistics(q).mean = mean /\ Tariff!Statistics(q).least = lo
      /\ Tariff!Statistics(q).most = hi
  <2>1. Tariff!Total(f, n) = Total(f, n)
    BY TariffSums
  <2> QED BY <2>1 DEF Tariff!Statistics
<1> HIDE DEF n
<1>4. T \subseteq Nat /\ T # {} /\ \A i \in 1..n : f[i] \in T /\ f[i] = q[i].fee
  BY <1>1, <1>2
<1>5. \A x \in T : \E i \in 1..n : x = f[i]
  BY <1>1
<1> HIDE DEF T, f
<1>6. lo \in T /\ \A x \in T : lo <= x
  <2>1. \E k \in T : \A m \in T : k <= m
    BY <1>4, LeastNatural
  <2> QED BY <2>1 DEF Tariff!Min
<1>7. hi \in T /\ \A x \in T : hi >= x
  <2>1. \A i \in 1..n : f[i] \in Nat
    BY <1>2, <1>4
  <2>2. PICK k \in 1..n : \A i \in 1..n : f[i] <= f[k]
    BY <1>1, <2>1, GreatestOfList
  <2>3. f[k] \in T /\ \A x \in T : f[k] >= x
    <3> SUFFICES ASSUME NEW x \in T PROVE f[k] >= x
      BY <1>4
    <3>1. PICK i \in 1..n : x = f[i]
      BY <1>5
    <3>2. f[i] <= f[k] /\ f[i] \in Nat /\ f[k] \in Nat
      BY <2>1, <2>2
    <3> QED BY <3>1, <3>2
  <2> QED BY <2>3 DEF Tariff!Max
<1> HIDE DEF lo, hi
<1>8. lo \in Nat /\ hi \in Nat
  BY <1>4, <1>6, <1>7
<1>9. \A i \in 1..n : f[i] \in Nat /\ lo <= f[i] /\ f[i] <= hi
  <2> SUFFICES ASSUME NEW i \in 1..n PROVE f[i] \in Nat /\ lo <= f[i] /\ f[i] <= hi
    OBVIOUS
  <2>1. f[i] \in T /\ f[i] \in Nat
    BY <1>4
  <2>2. lo <= f[i] /\ hi >= f[i]
    BY <1>6, <1>7, <2>1
  <2> QED BY <1>8, <2>1, <2>2
<1>10. lo <= mean /\ mean <= hi /\ mean \in Nat
  BY <1>1, <1>8, <1>9, MeanInside
<1> HIDE DEF mean
<1> QED BY <1>3, <1>8, <1>10

\* Whatever the history is, the mean of any period of it lies between its extremes.
LEMMA MeansAreBetween ==
    ASSUME s9 \in Seq(FeeEntry)
    PROVE  Tariff!MeanBetween
<1> SUFFICES ASSUME NEW from \in 0..s10, Tariff!InRange(from, s10) # <<>>
             PROVE  LET s == Tariff!Statistics(Tariff!InRange(from, s10)) IN s.mean \in s.least..s.most
  BY DEF Tariff!MeanBetween
<1> DEFINE T == {i \in DOMAIN s9 : s9[i].at \in from..s10}
           q == Tariff!InRange(from, s10)
<1>1. T \subseteq 1..Len(s9)
  OBVIOUS
<1>2. q = Picked(s9, T)
  <2>1. Tariff!Picked(s9, T) = Picked(s9, T)
    BY TariffSums
  <2> QED BY <2>1 DEF Tariff!InRange
<1> HIDE DEF T
<1>3. Picked(s9, T) \in Seq(FeeEntry)
  BY <1>1, PickedIs
<1>4. q \in Seq(FeeEntry) /\ q # <<>>
  BY <1>2, <1>3
<1> HIDE DEF q
<1>5. Tariff!Statistics(q).mean \in Tariff!Statistics(q).least..Tariff!Statistics(q).most
  BY <1>4, MeanBetweenExtremes
<1> QED BY <1>5 DEF q

\* The list accounts for the fee f that came after the fee p, by the time t.
Account(q, f, p, t) ==
    /\ q \in Seq(FeeEntry)
    /\ \A i \in 1..Len(q) : q[i].at <= t
    /\ \A i, j \in 1..Len(q) : i <= j => q[i].at <= q[j].at
    /\ \A i \in 2..Len(q) : q[i].previous = q[i - 1].fee
    /\ q # <<>> => q[Len(q)].fee = f /\ q[Len(q)].previous = p

\* r is q without its first c entries.
IsEnd(r, q, c) ==
    /\ c \in 0..Len(q) /\ r \in Seq(FeeEntry) /\ Len(r) = Len(q) - c
    /\ \A k \in 1..Len(q) - c : r[k] = q[c + k]

\* The end of an account is one.
LEMMA EndsAccount ==
    ASSUME NEW q, NEW r, NEW c, NEW f, NEW p, NEW t, Account(q, f, p, t), IsEnd(r, q, c)
    PROVE  Account(r, f, p, t)
<1> DEFINE n == Len(q)
           m == Len(r)
<1>1. n \in Nat /\ m \in Nat /\ c \in Nat /\ c <= n /\ m = n - c /\ r \in Seq(FeeEntry) /\ q \in Seq(FeeEntry)
  BY DEF Account, IsEnd
<1>2. \A k \in 1..m : r[k] = q[c + k] /\ c + k \in 1..n
  <2>1. \A k \in 1..m : r[k] = q[c + k]
    BY DEF IsEnd
  <2>2. \A k \in 1..m : c + k \in 1..n
    BY <1>1
  <2> QED BY <2>1, <2>2
<1>3. /\ \A i \in 1..n : q[i].at <= t
      /\ \A i, j \in 1..n : i <= j => q[i].at <= q[j].at
      /\ \A i \in 2..n : q[i].previous = q[i - 1].fee
  BY DEF Account
<1>4. n # 0 => q[n].fee = f /\ q[n].previous = p
  BY DEF Account
<1>5. r # <<>> => m # 0
  BY <1>1
<1> HIDE DEF n, m
<1>6. \A i \in 1..m : r[i].at <= t
  BY <1>2, <1>3
<1>7. ASSUME NEW i \in 1..m, NEW j \in 1..m, i <= j PROVE r[i].at <= r[j].at
  <2>1. c + i \in 1..n /\ c + j \in 1..n /\ r[i] = q[c + i] /\ r[j] = q[c + j]
    BY <1>2
  <2>2. c + i <= c + j
    BY <1>1, <1>7
  <2>3. q[c + i].at <= q[c + j].at
    BY <1>3, <2>1, <2>2
  <2> QED BY <2>1, <2>3
<1>8. ASSUME NEW i \in 2..m PROVE r[i].previous = r[i - 1].fee
  <2>1. i \in 1..m /\ i - 1 \in 1..m /\ c + i \in 2..n /\ c + (i - 1) = (c + i) - 1
    BY <1>1
  <2>2. r[i] = q[c + i] /\ r[i - 1] = q[(c + i) - 1]
    BY <1>2, <2>1
  <2>3. q[c + i].previous = q[(c + i) - 1].fee
    BY <1>3, <2>1
  <2> QED BY <2>2, <2>3
<1>9. m # 0 => r[m].fee = f /\ r[m].previous = p
  <2> SUFFICES ASSUME m # 0 PROVE r[m].fee = f /\ r[m].previous = p
    OBVIOUS
  <2>1. m \in 1..m /\ c + m = n /\ n # 0
    BY <1>1
  <2>2. r[m] = q[n]
    BY <1>2, <2>1
  <2> QED BY <1>4, <2>1, <2>2
<1> QED BY <1>1, <1>5, <1>6, <1>7, <1>8, <1>9 DEF Account, m

\* An entry for a new fee continues the account.
LEMMA AppendAccount ==
    ASSUME NEW q, NEW f \in Nat, NEW p, NEW t \in Nat, NEW e \in FeeEntry, Account(q, f, p, t),
           e.previous = f /\ e.at = t
    PROVE  Account(Append(q, e), e.fee, f, t)
<1> DEFINE n == Len(q)
           r == Append(q, e)
<1>1. q \in Seq(FeeEntry) /\ n \in Nat
  BY DEF Account
<1>2. r \in Seq(FeeEntry) /\ Len(r) = n + 1 /\ r[n + 1] = e /\ \A i \in 1..n : r[i] = q[i]
  BY <1>1
<1>3. /\ \A i \in 1..n : q[i].at <= t
      /\ \A i, j \in 1..n : i <= j => q[i].at <= q[j].at
      /\ \A i \in 2..n : q[i].previous = q[i - 1].fee
  BY DEF Account
<1>4. n # 0 => q[n].fee = f
  BY DEF Account
<1> HIDE DEF n, r
<1>5. \A i \in 1..n + 1 : i \in 1..n \/ i = n + 1
  BY <1>1
<1>6. \A i \in 1..n + 1 : r[i].at <= t
  BY <1>2, <1>3, <1>5
<1>7. ASSUME NEW i \in 1..n + 1, NEW j \in 1..n + 1, i <= j PROVE r[i].at <= r[j].at
  <2>1. CASE j = n + 1
    BY <1>2, <1>6, <2>1
  <2>2. CASE j # n + 1
    <3>1. i \in 1..n /\ j \in 1..n
      BY <1>1, <1>7, <2>2
    <3>2. r[i] = q[i] /\ r[j] = q[j]
      BY <1>2, <3>1
    <3>3. q[i].at <= q[j].at
      BY <1>3, <1>7, <3>1
    <3> QED BY <3>2, <3>3
  <2> QED BY <2>1, <2>2
<1>8. ASSUME NEW i \in 2..n + 1 PROVE r[i].previous = r[i - 1].fee
  <2>1. CASE i = n + 1
    <3>1. n # 0 /\ n \in 1..n /\ i - 1 = n
      BY <1>1, <2>1
    <3>2. r[i] = e /\ r[i - 1] = q[n]
      BY <1>2, <2>1, <3>1
    <3> QED BY <1>4, <3>1, <3>2
  <2>2. CASE i # n + 1
    <3>1. i \in 1..n /\ i \in 2..n /\ i - 1 \in 1..n
      BY <1>1, <2>2
    <3>2. r[i] = q[i] /\ r[i - 1] = q[i - 1]
      BY <1>2, <3>1
    <3> QED BY <1>3, <3>1, <3>2
  <2> QED BY <2>1, <2>2
<1>9. r[Len(r)].fee = e.fee /\ r[Len(r)].previous = f
  BY <1>2
<1>10. Account(r, e.fee, f, t)
  <2>1. \A i, j \in 1..n + 1 : i <= j => r[i].at <= r[j].at
    BY <1>7
  <2>2. \A i \in 2..n + 1 : r[i].previous = r[i - 1].fee
    BY <1>8
  <2> QED BY <1>2, <1>6, <1>9, <2>1, <2>2 DEF Account
<1> QED BY <1>10 DEF r

FeesInv ==
    /\ s1 \in tariff.Configs /\ s2 \in Nat /\ s3 \in Nat /\ s4 \in tariff.Metrics /\ s10 \in Nat
    /\ Account(s9, s2, s3, s10)

\* The formula gives a fee, whatever the network and the override say.
LEMMA AdjustedIsFee ==
    ASSUME NEW c \in tariff.Configs, NEW m, NEW earlier, NEW capped
    PROVE  Tariff!AdjustedFee(c, m, earlier, capped) \in Nat
<1> DEFINE level == Tariff!Level(m)
           trend == IF c.trends THEN Tariff!Trend(m, earlier) ELSE "Stable"
           mult == c.multipliers[level]
           cut == Tariff!Min({c.trendPercent, 50})
           share == (c.base * cut) \div 100
           less == Tariff!Max({mult - 3, 0})
           low == (c.base * less) \div 100 - share \div 2
           raw == CASE trend = "Increasing" -> (c.base * (mult + 5)) \div 100 + share
                    [] trend = "Decreasing" -> Tariff!Max({low, 0})
                    [] trend = "Stable" -> (c.base * mult) \div 100
           limited == IF capped /\ c.overrides THEN Tariff!Min({raw, c.cap}) ELSE raw
           floored == Tariff!Max({limited, c.min})
<1>1. Tariff!AdjustedFee(c, m, earlier, capped) = Tariff!Min({floored, c.max})
  BY DEF Tariff!AdjustedFee
<1>2. /\ c.base \in Nat /\ c.min \in Nat /\ c.max \in Nat /\ c.cap \in Nat /\ c.trendPercent \in Nat
      /\ c.multipliers \in [1..5 -> Nat]
  BY CoreAssumption DEF Tariff!DynamicFeesAssumption, Tariff!FeeConfig
<1>3. level \in 1..5
  BY DEF Tariff!Level
<1>4. mult \in Nat
  BY <1>2, <1>3
<1>5. trend \in {"Increasing", "Decreasing", "Stable"}
  BY DEF Tariff!Trend
<1>6. cut \in Nat
  BY <1>2, TwoNumbers
<1> HIDE DEF level, mult, cut, trend
<1>7. share \in Nat
  <2>1. c.base * cut \in Nat
    BY <1>2, <1>6, ProductNat
  <2> QED BY <2>1, RoundedDown
<1>8. less \in Nat
  <2> DEFINE x == mult - 3
  <2>1. x \in Int
    BY <1>4
  <2> HIDE DEF x
  <2>2. Tariff!Max({x, 0}) = IF x >= 0 THEN x ELSE 0
    BY <2>1, TwoNumbers
  <2>3. Tariff!Max({x, 0}) \in Nat
    BY <2>1, <2>2
  <2> QED BY <2>3 DEF x
<1> HIDE DEF share, less
<1>9. low \in Int
  <2>1. c.base * less \in Nat
    BY <1>2, <1>8, ProductNat
  <2>2. (c.base * less) \div 100 \in Nat /\ share \div 2 \in Nat
    BY <1>7, <2>1, RoundedDown
  <2> QED BY <2>2
<1> HIDE DEF low
<1>10. raw \in Nat
  <2>1. c.base * (mult + 5) \in Nat /\ c.base * mult \in Nat
    <3>1. mult + 5 \in Nat
      BY <1>4
    <3> QED BY <1>2, <1>4, <3>1, ProductNat
  <2>2. (c.base * (mult + 5)) \div 100 \in Nat /\ (c.base * mult) \div 100 \in Nat
    BY <2>1, RoundedDown
  <2>3. Tariff!Max({low, 0}) \in Nat
    <3>1. Tariff!Max({low, 0}) = IF low >= 0 THEN low ELSE 0
      BY <1>9, TwoNumbers
    <3> QED BY <1>9, <3>1
  <2>4. (c.base * (mult + 5)) \div 100 + share \in Nat
    BY <1>7, <2>2
  <2> QED BY <1>5, <2>2, <2>3, <2>4
<1> HIDE DEF raw
<1>11. limited \in Nat
  <2>1. Tariff!Min({raw, c.cap}) \in Nat
    BY <1>2, <1>10, TwoNumbers
  <2> QED BY <1>10, <2>1
<1> HIDE DEF limited
<1>12. floored \in Nat
  <2> DEFINE y == c.min
  <2>1. y \in Nat
    BY <1>2
  <2> HIDE DEF y
  <2>4. limited \in Int /\ y \in Int
    BY <1>11, <2>1
  <2>2. Tariff!Max({limited, y}) = IF limited >= y THEN limited ELSE y
    BY <2>4, TwoNumbers
  <2>3. Tariff!Max({limited, y}) \in Nat
    BY <1>11, <2>1, <2>2
  <2> QED BY <2>3 DEF y
<1> HIDE DEF floored
<1>13. Tariff!Min({floored, c.max}) \in Nat
  BY <1>2, <1>12, TwoNumbers
<1> QED BY <1>1, <1>13


\* A change of the fee is entered; no change enters nothing.
LEMMA MovesAccount ==
    ASSUME FeesInv, NEW new \in Nat, NEW m, NEW reason \in {"Automatic", "Manual"},
           Tariff!Moves(new, m, reason), s10' = s10
    PROVE  s2' \in Nat /\ s3' \in Nat /\ Account(s9', s2', s3', s10')
<1>1. s2 \in Nat /\ s3 \in Nat /\ s10 \in Nat /\ Account(s9, s2, s3, s10)
  BY DEF FeesInv
<1>2. CASE new = s2
  <2>1. s2' = s2 /\ s3' = s3 /\ s9' = s9
    BY <1>2 DEF Tariff!Moves, Tariff!feeVars
  <2> QED BY <1>1, <2>1
<1>3. CASE new # s2
  <2> DEFINE e == [at |-> s10, fee |-> new, previous |-> s2, level |-> Tariff!Level(m),
                   reason |-> reason]
             r == Append(s9, e)
  <2>1. s2' = new /\ s3' = s2 /\ s9' = Tariff!Recorded(new, s2, m, reason)
    BY <1>3 DEF Tariff!Moves
  <2>2. s9' = IF Len(r) > tariff.MaxHistory THEN Tail(r) ELSE r
    BY <2>1 DEF Tariff!Recorded
  <2>3. e \in FeeEntry /\ e.previous = s2 /\ e.at = s10 /\ e.fee = new
    <3>1. Tariff!Level(m) \in 1..5
      BY DEF Tariff!Level
    <3> HIDE DEF Tariff!Level
    <3> QED BY <1>1, <3>1 DEF FeeEntry
  <2>4. s9 \in Seq(FeeEntry)
    BY <1>1 DEF Account
  <2> HIDE DEF e
  <2>5. Account(r, e.fee, s2, s10)
    BY <1>1, <2>3, AppendAccount
  <2>6. r \in Seq(FeeEntry) /\ Len(r) \in Nat \ {0}
    BY <2>3, <2>4
  <2> HIDE DEF r
  <2>7. IsEnd(Tail(r), r, 1)
    BY <2>6 DEF IsEnd
  <2>8. Account(Tail(r), e.fee, s2, s10)
    BY <2>5, <2>7, EndsAccount
  <2>9. Account(s9', new, s2, s10)
    BY <2>2, <2>3, <2>5, <2>8
  <2> QED BY <1>1, <2>1, <2>9
<1> QED BY <1>2, <1>3

\* The clean-up leaves the end of the history.
LEMMA CleanupsAccount ==
    ASSUME FeesInv, NEW retention \in tariff.Retentions,
           Tariff!CleanupOldHistory(retention)
    PROVE  FeesInv' /\ Len(s9') <= Len(s9)
<1> DEFINE x == Tariff!Max({s10 - retention, 0})
           T == {i \in DOMAIN s9 : s9[i].at >= x}
           r == Picked(s9, T)
<1>1. Account(s9, s2, s3, s10) /\ s9 \in Seq(FeeEntry)
  BY DEF FeesInv, Account
<1>2. s9' = r
  <2>1. Tariff!Picked(s9, T) = Picked(s9, T)
    BY TariffSums
  <2> QED BY <2>1 DEF Tariff!CleanupOldHistory
<1>8. x \in Nat
  <2> DEFINE y == s10 - retention
  <2>1. y \in Int
    BY CoreAssumption DEF FeesInv, Tariff!DynamicFeesAssumption
  <2> HIDE DEF y
  <2>2. Tariff!Max({y, 0}) = IF y >= 0 THEN y ELSE 0
    BY <2>1, TwoNumbers
  <2>3. Tariff!Max({y, 0}) \in Nat
    BY <2>1, <2>2
  <2> QED BY <2>3 DEF y
<1> HIDE DEF x
<1>3. T \subseteq 1..Len(s9)
  BY <1>1
<1>4. ASSUME NEW i \in T, NEW j \in 1..Len(s9), i <= j PROVE j \in T
  <2>1. i \in 1..Len(s9) /\ s9[i].at >= x /\ j \in DOMAIN s9
    BY <1>1
  <2>2. s9[i].at <= s9[j].at
    BY <1>1, <1>4, <2>1 DEF Account
  <2>3. s9[i].at \in Nat /\ s9[j].at \in Nat
    <3>1. s9[i] \in FeeEntry /\ s9[j] \in FeeEntry
      BY <1>1, <2>1
    <3> QED BY <3>1 DEF FeeEntry
  <2> QED BY <1>8, <2>1, <2>2, <2>3
<1> HIDE DEF T
<1>5. r \in Seq(FeeEntry) /\ EndOf(r, s9)
  <2>1. \A i \in T : \A j \in 1..Len(s9) : i <= j => j \in T
    BY <1>4
  <2>2. LastPlaces(T, s9)
    BY <1>3, <2>1 DEF LastPlaces
  <2> QED BY <1>1, <2>2, PickedEnd
<1> HIDE DEF r
<1>9. PICK c \in 0..Len(s9) : /\ Len(r) = Len(s9) - c
                              /\ \A k \in 1..Len(s9) - c : r[k] = s9[c + k]
  BY <1>5 DEF EndOf
<1>6. IsEnd(r, s9, c)
  BY <1>5, <1>9 DEF IsEnd
<1>7. Account(r, s2, s3, s10)
  BY <1>1, <1>6, EndsAccount
<1>10. Len(s9') <= Len(s9)
  <2>1. Len(s9) \in Nat /\ c \in Nat
    BY <1>1
  <2> QED BY <1>2, <1>9, <2>1
<1>11. FeesInv'
  BY <1>2, <1>7 DEF FeesInv, Tariff!CleanupOldHistory, Tariff!netVars
<1> QED BY <1>10, <1>11

\* What each call of the part leaves alone, and where the history is.
LEMMA FeesBegin == InFees => FeesInv
<1> SUFFICES ASSUME InFees PROVE FeesInv
  OBVIOUS
<1> DEFINE base == tariff.FirstConfig.base
           e == [at |-> 1, fee |-> base, previous |-> base, level |-> Tariff!Level(s4),
                 reason |-> "SystemInitialization"]
<1>1. /\ s1 = tariff.FirstConfig /\ s2 = base /\ s3 = base /\ s4 \in tariff.Metrics /\ s10 = 1
      /\ s9 = <<e>>
  BY DEF InFees, Tariff!Init
<1>2. tariff.FirstConfig \in tariff.Configs /\ base \in Nat
  BY CoreAssumption DEF Tariff!DynamicFeesAssumption, Tariff!FeeConfig
<1> HIDE DEF base
<1>3. e \in FeeEntry /\ e.at = 1 /\ e.fee = base /\ e.previous = base
  <2>1. Tariff!Level(s4) \in 1..5
    BY DEF Tariff!Level
  <2> HIDE DEF Tariff!Level
  <2> QED BY <1>2, <2>1 DEF FeeEntry
<1> HIDE DEF e
<1>4. s9 \in Seq(FeeEntry) /\ Len(s9) = 1 /\ s9[1] = e
  BY <1>1, <1>3
<1>5. Account(s9, base, base, 1)
  BY <1>3, <1>4 DEF Account
<1> QED BY <1>1, <1>2, <1>5 DEF FeesInv

LEMMA FeesGoOn ==
    ASSUME FeesInv, Tariff!Next
    PROVE  FeesInv'
<1>0. s1 \in tariff.Configs /\ s2 \in Nat /\ s3 \in Nat /\ s4 \in tariff.Metrics /\ s10 \in Nat
      /\ Account(s9, s2, s3, s10)
  BY DEF FeesInv
<1>1. ASSUME NEW m \in tariff.Metrics, Tariff!UpdateFeesForCongestion(m)
      PROVE  FeesInv'
  <2> DEFINE next == IF s7.active
                     THEN IF s10 >= s7.until[1]
                          THEN [s7 EXCEPT !.active = FALSE, !.until = Tariff!None] ELSE s7
                     ELSE IF Tariff!ShouldTrigger(m)
                          THEN Tariff!Activated(Tariff!AutomaticCap(m)) ELSE s7
             new == Tariff!AdjustedFee(s1, m, s5, next.active)
  <2>1. Tariff!Moves(new, m, "Automatic") /\ s1' = s1 /\ s4' = m /\ s10' = s10
    BY <1>1 DEF Tariff!UpdateFeesForCongestion
  <2> HIDE DEF next
  <2>2. new \in Nat
    BY <1>0, AdjustedIsFee
  <2> HIDE DEF new
  <2>3. s2' \in Nat /\ s3' \in Nat /\ Account(s9', s2', s3', s10')
    BY <2>1, <2>2, MovesAccount
  <2> QED BY <1>0, <2>1, <2>3 DEF FeesInv
<1>2. ASSUME NEW f \in tariff.Fees, Tariff!UpdateFeesManual(f)
      PROVE  FeesInv'
  <2>1. Tariff!Moves(f, s4, "Manual") /\ s1' = s1 /\ s4' = s4 /\ s10' = s10
    BY <1>2 DEF Tariff!UpdateFeesManual, Tariff!netVars
  <2>2. f \in Nat
    BY CoreAssumption DEF Tariff!DynamicFeesAssumption
  <2>3. s2' \in Nat /\ s3' \in Nat /\ Account(s9', s2', s3', s10')
    BY <2>1, <2>2, MovesAccount
  <2> QED BY <1>0, <2>1, <2>3 DEF FeesInv
<1>3. ASSUME NEW c \in tariff.Configs, Tariff!UpdateConfig(c)
      PROVE  FeesInv'
  BY <1>0, <1>3 DEF FeesInv, Tariff!UpdateConfig, Tariff!feeVars, Tariff!netVars
<1>4. ASSUME NEW a \in tariff.Admins, NEW cap \in tariff.Caps, Tariff!ActivateOverride(a, cap)
      PROVE  FeesInv'
  BY <1>0, <1>4 DEF FeesInv, Tariff!ActivateOverride, Tariff!feeVars, Tariff!netVars
<1>5. ASSUME NEW a \in tariff.Admins, Tariff!DeactivateOverride(a)
      PROVE  FeesInv'
  BY <1>0, <1>5 DEF FeesInv, Tariff!DeactivateOverride, Tariff!feeVars, Tariff!netVars
<1>6. ASSUME NEW set, Tariff!SetAdmins(set)
      PROVE  FeesInv'
  BY <1>0, <1>6 DEF FeesInv, Tariff!SetAdmins, Tariff!feeVars, Tariff!netVars
<1>7. ASSUME NEW r \in tariff.Retentions, Tariff!CleanupOldHistory(r)
      PROVE  FeesInv'
  BY <1>7, CleanupsAccount
<1>8. CASE Tariff!Tick
  <2>1. /\ s10' = s10 + 1 /\ s1' = s1 /\ s2' = s2 /\ s3' = s3 /\ s4' = s4 /\ s9' = s9
    BY <1>8 DEF Tariff!Tick, Tariff!feeVars, Tariff!netVars
  <2>2. \A i \in 1..Len(s9) : s9[i].at \in Nat /\ s9[i].at <= s10
    <3>1. \A i \in 1..Len(s9) : s9[i] \in FeeEntry
      BY <1>0 DEF Account
    <3> QED BY <1>0, <3>1 DEF Account, FeeEntry
  <2>3. \A i \in 1..Len(s9) : s9[i].at <= s10 + 1
    BY <1>0, <2>2
  <2>4. Account(s9, s2, s3, s10 + 1)
    BY <1>0, <2>3 DEF Account
  <2>5. s10 + 1 \in Nat
    BY <1>0
  <2> QED BY <1>0, <2>1, <2>4, <2>5 DEF FeesInv
<1> QED BY <1>1, <1>2, <1>3, <1>4, <1>5, <1>6, <1>7, <1>8 DEF Tariff!Next

LEMMA FeesAccountFor == FeesInv => Tariff!HistoryChains
<1> SUFFICES ASSUME FeesInv PROVE Tariff!HistoryChains
  OBVIOUS
<1>1. Account(s9, s2, s3, s10) /\ s9 \in Seq(FeeEntry)
  BY DEF FeesInv, Account
<1>2. Tariff!Chained
  <2> SUFFICES ASSUME NEW i \in 2..Len(s9)
               PROVE  s9[i].previous = s9[i - 1].fee /\ s9[i].at >= s9[i - 1].at
    BY DEF Tariff!Chained
  <2>1. i \in 1..Len(s9) /\ i - 1 \in 1..Len(s9) /\ i - 1 <= i
    BY <1>1
  <2>2. s9[i - 1].at <= s9[i].at
    BY <1>1, <2>1 DEF Account
  <2>3. s9[i - 1] \in FeeEntry /\ s9[i] \in FeeEntry
    BY <1>1, <2>1
  <2>4. s9[i - 1].at \in Nat /\ s9[i].at \in Nat
    BY <2>3 DEF FeeEntry
  <2>5. s9[i].previous = s9[i - 1].fee
    BY <1>1 DEF Account
  <2> QED BY <2>2, <2>4, <2>5
<1>3. Tariff!EndsToday
  BY <1>1 DEF Account, Tariff!EndsToday, Tariff!Last
<1>4. Tariff!PagesCover
  BY <1>1, PagesGiveAll
<1>5. Tariff!MeanBetween
  BY <1>1, MeansAreBetween
<1> QED BY <1>2, <1>3, <1>4, <1>5 DEF Tariff!HistoryChains

\* The fee history accounts for the fee in force: entries follow on each other, the last
\* is the present fee, pages give each once and means lie between the extremes
\* (fee_adjustment_manager.rs, fee_history.rs).
THEOREM HistoryChainsAlways == CoreSpec => []HistoryChains
<1> DEFINE Inv == part = "fees" => FeesInv
<1>1. CoreInit => Inv
  BY PartBegins, FeesBegin
<1>2. Inv /\ [CoreNext]_vars => Inv'
  <2>1. ASSUME Inv, CoreNext PROVE Inv'
    <3>1. CASE part = "fees"
      BY <2>1, <3>1, PartGoesOn, FeesGoOn DEF FeesStep
    <3>2. CASE part # "fees"
      BY <3>2, <2>1, PartGoesOn
    <3> QED BY <3>1, <3>2
  <2>2. ASSUME Inv, UNCHANGED vars PROVE Inv'
    BY <2>2, NothingMoves DEF FeesInv
  <2> QED BY <2>1, <2>2
<1>3. Inv => HistoryChains
  BY FeesAccountFor DEF HistoryChains
<1> QED BY <1>1, <1>2, <1>3, PTL DEF CoreSpec
-----------------------------------------------------------------------------
(* The types of these parts.                                               *)

LEMMA ManagerTypes ==
    ASSUME Manager!TypeOK, Manager!Next
    PROVE  Manager!TypeOK'
<1>1. Manager!ManagerAssumption
  BY CoreAssumption
<1>2. /\ s1 \in [signers : SUBSET manager.Signers, threshold : Nat, delay : Nat]
      /\ s3 \in Nat /\ s4 \in Seq(Nat \X Nat) /\ s5 \in Nat \cup {Manager!NoTime} /\ s6 \in Nat
      /\ s2 = Manager!NoPending
         \/ s2 \in [version : manager.Versions, approvedBy : SUBSET manager.Signers,
                    executable : Nat, executed : BOOLEAN]
  BY DEF Manager!TypeOK
<1>3. ASSUME NEW s \in manager.SignerSets, NEW k \in 1..Manager!Cardinality(manager.Signers),
             NEW d \in manager.Delays, Manager!Initialize(s, k, d)
      PROVE  Manager!TypeOK'
  <2>1. s \subseteq manager.Signers /\ k \in Nat /\ d \in Nat
    BY <1>1 DEF Manager!ManagerAssumption
  <2>2. s1' = [signers |-> s, threshold |-> k, delay |-> d] /\ UNCHANGED <<s2, s3, s4, s5, s6>>
    BY <1>3 DEF Manager!Initialize
  <2> QED BY <1>2, <2>1, <2>2 DEF Manager!TypeOK
<1>4. ASSUME NEW s \in manager.Signers, NEW v \in manager.Versions, Manager!ProposeUpgrade(s, v)
      PROVE  Manager!TypeOK'
  <2>1. s1.delay \in Nat /\ s6 + s1.delay \in Nat
    BY <1>2
  <2>2. /\ s2' = [version |-> v, approvedBy |-> {s}, executable |-> s6 + s1.delay,
                  executed |-> FALSE]
        /\ UNCHANGED <<s1, s3, s4, s5, s6>>
    BY <1>4 DEF Manager!ProposeUpgrade
  <2> QED BY <1>2, <2>1, <2>2 DEF Manager!TypeOK
<1>5. ASSUME NEW s \in manager.Signers, Manager!ApproveUpgrade(s)
      PROVE  Manager!TypeOK'
  <2>1. /\ s2 # Manager!NoPending /\ s2' = [s2 EXCEPT !.approvedBy = @ \cup {s}]
        /\ UNCHANGED <<s1, s3, s4, s5, s6>>
    BY <1>5 DEF Manager!ApproveUpgrade
  <2> QED BY <1>2, <2>1 DEF Manager!TypeOK
<1>6. CASE Manager!ExecuteUpgrade
  <2>1. /\ s2 # Manager!NoPending /\ s4' = Append(s4, <<s3, s2.version>>)
        /\ s3' = s2.version /\ s2' = [s2 EXCEPT !.executed = TRUE] /\ UNCHANGED <<s1, s5, s6>>
    BY <1>6 DEF Manager!ExecuteUpgrade
  <2>2. s2.version \in Nat
    BY <1>1, <1>2, <2>1 DEF Manager!ManagerAssumption
  <2>3. s4' \in Seq(Nat \X Nat) /\ s3' \in Nat
    BY <1>2, <2>1, <2>2
  <2> QED BY <1>2, <2>1, <2>3 DEF Manager!TypeOK
<1>7. ASSUME NEW s \in manager.Signers \cup {manager.Admin}, Manager!CancelUpgrade(s)
      PROVE  Manager!TypeOK'
  BY <1>2, <1>7 DEF Manager!CancelUpgrade, Manager!TypeOK
<1>8. CASE Manager!Migrate \/ Manager!Tick
  BY <1>2, <1>8 DEF Manager!Migrate, Manager!Tick, Manager!TypeOK
<1> QED BY <1>3, <1>4, <1>5, <1>6, <1>7, <1>8 DEF Manager!Next

LEMMA ManagerTypesBegin ==
    ASSUME Manager!Init
    PROVE  Manager!TypeOK
BY DEF Manager!Init, Manager!TypeOK

\* What executed proposals and updates write.
SettingsTyped ==
    s4 \in [admin : ballot.Users, paused : BOOLEAN,
            param : ballot.ValidValues \cup {Votes!NoValue}]

LEMMA EffectTyped ==
    ASSUME SettingsTyped, NEW action \in Votes!Actions,
           Votes!IsParam(action) => action[2] \in ballot.ValidValues
    PROVE  Votes!Effect(action) \in [admin : ballot.Users, paused : BOOLEAN,
                                     param : ballot.ValidValues \cup {Votes!NoValue}]
<1>1. CASE action = <<"PauseTrading">>
  <2>1. Votes!Effect(action) = [s4 EXCEPT !.paused = TRUE]
    BY <1>1 DEF Votes!Effect, Votes!IsAdmin, Votes!IsParam
  <2> QED BY <2>1 DEF SettingsTyped
<1>2. CASE action = <<"ResumeTrading">>
  <2>1. Votes!Effect(action) = [s4 EXCEPT !.paused = FALSE]
    BY <1>2 DEF Votes!Effect, Votes!IsAdmin, Votes!IsParam
  <2> QED BY <2>1 DEF SettingsTyped
<1>3. ASSUME NEW u \in ballot.NewAdmins, action = <<"SetAdmin", u>>
      PROVE  Votes!Effect(action) = [s4 EXCEPT !.admin = u] /\ u \in ballot.Users
  <2>1. /\ action # <<"PauseTrading">> /\ action # <<"ResumeTrading">>
        /\ Votes!IsAdmin(action) /\ ~Votes!IsParam(action) /\ action[2] = u
    BY <1>3 DEF Votes!IsAdmin, Votes!IsParam
  <2>2. u \in ballot.Users
    BY CoreAssumption DEF Votes!CounterGovernanceAssumption
  <2> QED BY <2>1, <2>2 DEF Votes!Effect
<1>4. ASSUME NEW v \in ballot.Values, action = <<"UpdateGovParam", v>>
      PROVE  Votes!Effect(action) = [s4 EXCEPT !.param = v] /\ v \in ballot.ValidValues
  <2>1. /\ action # <<"PauseTrading">> /\ action # <<"ResumeTrading">>
        /\ ~Votes!IsAdmin(action) /\ Votes!IsParam(action) /\ action[2] = v
    BY <1>4 DEF Votes!IsAdmin, Votes!IsParam
  <2> QED BY <2>1 DEF Votes!Effect
<1>5. CASE \E u \in ballot.NewAdmins : action = <<"SetAdmin", u>>
  BY <1>3, <1>5 DEF SettingsTyped
<1>6. CASE \E v \in ballot.Values : action = <<"UpdateGovParam", v>>
  BY <1>4, <1>6 DEF SettingsTyped
<1> QED BY <1>1, <1>2, <1>5, <1>6 DEF Votes!Actions

LEMMA TypedProposal ==
    ASSUME VotesTyped, NEW id \in DOMAIN s1
    PROVE  /\ s1[id] \in Proposal /\ s1[id].action \in Votes!Actions
           /\ s1[id].executableAt \in Nat /\ s1[id].votes \in Seq(Ballot)
           /\ s1[id].signers \in Seq(ballot.Users)
<1>1. s1 \in Seq(Proposal)
  BY DEF VotesTyped
<1>2. s1[id] \in Proposal
  BY <1>1
<1> QED BY <1>2 DEF Proposal

\* Proposals and updates keep their types, whatever a proposal needs to pass.
LEMMA VotesStayTyped ==
    ASSUME VotesTyped, Votes!Next
    PROVE  VotesTyped'
<1>1. /\ s1 \in Seq(Proposal) /\ s2 \in Seq(Update)
      /\ DOMAIN s3 \subseteq ballot.Users /\ s3 \in [DOMAIN s3 -> ballot.Users]
      /\ DOMAIN s4 = {"admin", "paused", "param"}
      /\ s5 \in Nat /\ s5 >= ballot.MinDelay /\ s6 \in Nat
  BY DEF VotesTyped
<1>2. ASSUME NEW id \in DOMAIN s1, NEW p \in Proposal, s1' = [s1 EXCEPT ![id] = p],
             UNCHANGED <<s2, s3, s5, s6>>, DOMAIN s4' = DOMAIN s4
      PROVE  VotesTyped'
  <2>1. s1' \in Seq(Proposal)
    BY <1>1, <1>2
  <2> QED BY <1>1, <1>2, <2>1 DEF VotesTyped
<1>3. ASSUME NEW u \in ballot.Users, NEW action \in Votes!Actions, Votes!CreateProposal(u, action)
      PROVE  VotesTyped'
  <2> DEFINE p == [action |-> action, executed |-> FALSE, canceled |-> FALSE,
                   executableAt |-> 0, votes |-> <<>>, signers |-> <<>>]
  <2>1. s1' = Append(s1, p) /\ UNCHANGED <<s2, s3, s4, s5, s6>>
    BY <1>3 DEF Votes!CreateProposal
  <2>2. p \in Proposal
    BY DEF Proposal
  <2> HIDE DEF p
  <2>3. s1' \in Seq(Proposal)
    BY <1>1, <2>1, <2>2
  <2> QED BY <1>1, <2>1, <2>3 DEF VotesTyped
<1>4. ASSUME NEW u \in ballot.Users, NEW id \in DOMAIN s1, NEW f \in BOOLEAN, Votes!CastVote(u, id, f)
      PROVE  VotesTyped'
  <2> DEFINE old == s1[id]
             weight == IF f THEN Votes!WeightOf(u) ELSE -Votes!WeightOf(u)
             ballot1 == [voter |-> u, weight |-> weight]
             cast == Append(old.votes, ballot1)
             passes == Votes!QuorumReached(cast) /\ Votes!Approved(cast)
             time == IF passes THEN s6 + ballot.VoteTimelock ELSE old.executableAt
             p == [old EXCEPT !.votes = cast, !.executableAt = time]
  <2>1. /\ old \in Proposal /\ old.votes \in Seq(Ballot) /\ old.executableAt \in Nat
    BY TypedProposal
  <2>2. s1' = [s1 EXCEPT ![id].votes = cast, ![id].executableAt = time] /\ UNCHANGED <<s2, s3, s4, s5, s6>>
    BY <1>4 DEF Votes!CastVote
  <2>3. weight \in Int
    BY WeightIsNumber
  <2> HIDE DEF weight
  <2>4. ballot1 \in Ballot
    BY <2>3 DEF Ballot
  <2> HIDE DEF ballot1
  <2>5. cast \in Seq(Ballot)
    BY <2>1, <2>4
  <2>6. time \in Nat
    <3> HIDE DEF passes, old
    <3> QED BY <1>1, <2>1, VotesNumbers
  <2> HIDE DEF cast, time
  <2>7. s1' = [s1 EXCEPT ![id] = p]
    BY <1>1, <2>1, <2>2 DEF Proposal
  <2> HIDE DEF old
  <2>8. p \in Proposal
    BY <2>1, <2>5, <2>6 DEF Proposal
  <2> HIDE DEF p
  <2> QED BY <1>2, <2>2, <2>7, <2>8
<1>5. ASSUME NEW u \in ballot.Users, NEW id \in DOMAIN s1, Votes!Signed(u, id)
      PROVE  VotesTyped'
  <2> DEFINE old == s1[id]
             p == [old EXCEPT !.signers = Append(old.signers, u)]
  <2>1. old \in Proposal /\ old.signers \in Seq(ballot.Users)
    BY TypedProposal
  <2>2. s1' = [s1 EXCEPT ![id] = p] /\ UNCHANGED <<s2, s3, s4, s5, s6>>
    BY <1>1, <1>5, <2>1 DEF Votes!Signed, Proposal
  <2> HIDE DEF old
  <2>3. p \in Proposal
    <3> DEFINE U == ballot.Users
               list == old.signers
    <3>1. list \in Seq(U) /\ u \in U
      BY <2>1
    <3> HIDE DEF U, list
    <3>2. Append(list, u) \in Seq(U)
      BY ONLY <3>1
    <3> QED BY <2>1, <3>2 DEF Proposal, U, list
  <2> HIDE DEF p
  <2> QED BY <1>2, <2>2, <2>3
<1>6. ASSUME NEW u \in ballot.Users, NEW id \in DOMAIN s1, Votes!CancelProposal(u, id)
      PROVE  VotesTyped'
  <2> DEFINE p == [s1[id] EXCEPT !.canceled = TRUE]
  <2>1. s1' = [s1 EXCEPT ![id] = p] /\ UNCHANGED <<s2, s3, s4, s5, s6>>
    BY <1>1, <1>6, TypedProposal DEF Votes!CancelProposal, Proposal
  <2>2. p \in Proposal
    BY TypedProposal DEF Proposal
  <2> HIDE DEF p
  <2> QED BY <1>2, <2>1, <2>2
<1>7. ASSUME NEW id \in DOMAIN s1, Votes!ExecuteProposal(id)
      PROVE  VotesTyped'
  <2> DEFINE p == [s1[id] EXCEPT !.executed = TRUE]
  <2>1. /\ s1' = [s1 EXCEPT ![id] = p] /\ UNCHANGED <<s2, s3, s5, s6>>
        /\ s4' = Votes!Effect(s1[id].action)
    BY <1>1, <1>7, TypedProposal DEF Votes!ExecuteProposal, Votes!Ran, Proposal
  <2>2. p \in Proposal
    BY TypedProposal DEF Proposal
  <2>3. DOMAIN s4' = DOMAIN s4
    BY <2>1, TypedProposal, EffectOnParam
  <2> HIDE DEF p
  <2> QED BY <1>2, <2>1, <2>2, <2>3
<1>8. ASSUME s3' \in [DOMAIN s3' -> ballot.Users], DOMAIN s3' \subseteq ballot.Users,
             UNCHANGED <<s1, s2, s4>>, s5' \in Nat, s5' >= ballot.MinDelay, s6' \in Nat
      PROVE  VotesTyped'
  BY <1>1, <1>8 DEF VotesTyped
<1>9. ASSUME NEW u \in ballot.Users, NEW d \in ballot.Delegates, Votes!DelegateVote(u, d)
      PROVE  VotesTyped'
  <2>1. /\ s3' = [v \in DOMAIN s3 \cup {u} |-> IF v = u THEN d ELSE s3[v]]
        /\ UNCHANGED <<s1, s2, s4, s5, s6>>
    BY <1>9 DEF Votes!DelegateVote
  <2>2. s3' \in [DOMAIN s3' -> ballot.Users] /\ DOMAIN s3' \subseteq ballot.Users
    BY <1>1, <2>1, VotesNumbers
  <2> QED BY <1>1, <1>8, <2>1, <2>2
<1>10. ASSUME NEW u \in DOMAIN s3, Votes!RevokeDelegation(u)
       PROVE  VotesTyped'
  <2>1. s3' = [v \in DOMAIN s3 \ {u} |-> s3[v]] /\ UNCHANGED <<s1, s2, s4, s5, s6>>
    BY <1>10 DEF Votes!RevokeDelegation
  <2>2. s3' \in [DOMAIN s3' -> ballot.Users] /\ DOMAIN s3' \subseteq ballot.Users
    BY <1>1, <2>1
  <2> QED BY <1>1, <1>8, <2>1, <2>2
<1>11. ASSUME (\E d \in ballot.Delays : Votes!SetTimelockDelay(d)) \/ Votes!Tick
       PROVE  VotesTyped'
  <2>1. /\ UNCHANGED <<s1, s2, s3, s4>> /\ s6' \in {s6, s6 + 1}
        /\ s5' \in Nat /\ s5' >= ballot.MinDelay
    BY <1>1, <1>11, VotesNumbers DEF Votes!SetTimelockDelay, Votes!Tick
  <2> QED BY <1>1, <1>8, <2>1
<1>12. ASSUME NEW v \in ballot.Values, Votes!ProposeUpdate(v)
       PROVE  VotesTyped'
  <2> DEFINE u == [value |-> v, proposedAt |-> s6, executableAt |-> s6 + s5, executed |-> FALSE]
  <2>1. s2' = Append(s2, u) /\ v \in ballot.ValidValues /\ UNCHANGED <<s1, s3, s4, s5, s6>>
    BY <1>12 DEF Votes!ProposeUpdate
  <2>2. u \in Update
    BY <1>1, <2>1 DEF Update
  <2> HIDE DEF u
  <2>3. s2' \in Seq(Update)
    BY <1>1, <2>1, <2>2
  <2> QED BY <1>1, <2>1, <2>3 DEF VotesTyped
<1>13. ASSUME NEW i \in DOMAIN s2, Votes!ExecuteUpdate(i)
       PROVE  VotesTyped'
  <2> DEFINE u == [s2[i] EXCEPT !.executed = TRUE]
  <2>1. s2[i] \in Update
    BY <1>1
  <2>2. /\ s2' = [s2 EXCEPT ![i] = u] /\ s4' = [s4 EXCEPT !.param = s2[i].value]
        /\ UNCHANGED <<s1, s3, s5, s6>>
    BY <1>1, <1>13, <2>1 DEF Votes!ExecuteUpdate, Update
  <2>3. u \in Update
    BY <2>1 DEF Update
  <2> HIDE DEF u
  <2>4. s2' \in Seq(Update) /\ DOMAIN s4' = DOMAIN s4
    BY <1>1, <2>2, <2>3
  <2> QED BY <1>1, <2>2, <2>4 DEF VotesTyped
<1> QED BY <1>3, <1>4, <1>5, <1>6, <1>7, <1>9, <1>10, <1>11, <1>12, <1>13
        DEF Votes!Next, Votes!SignProposal, Votes!ApproveProposal

LEMMA SettingsStay ==
    ASSUME VotesTyped, SettingsTyped, Votes!Next
    PROVE  SettingsTyped'
<1>1. ASSUME NEW id \in DOMAIN s1, Votes!ExecuteProposal(id)
      PROVE  SettingsTyped'
  <2>1. s1[id].action \in Votes!Actions
    BY TypedProposal
  <2>2. /\ Votes!IsParam(s1[id].action) => s1[id].action[2] \in ballot.ValidValues
        /\ s4' = Votes!Effect(s1[id].action)
    BY <1>1 DEF Votes!ExecuteProposal, Votes!Ran
  <2> DEFINE action == s1[id].action
  <2>3. s4' = Votes!Effect(action) /\ action \in Votes!Actions
        /\ (Votes!IsParam(action) => action[2] \in ballot.ValidValues)
    BY <2>1, <2>2
  <2> HIDE DEF action
  <2>4. Votes!Effect(action) \in [admin : ballot.Users, paused : BOOLEAN,
                                  param : ballot.ValidValues \cup {Votes!NoValue}]
    BY <2>3, EffectTyped
  <2> QED BY <2>3, <2>4 DEF SettingsTyped
<1>2. ASSUME NEW i \in DOMAIN s2, Votes!ExecuteUpdate(i)
      PROVE  SettingsTyped'
  <2>1. s2 \in Seq(Update)
    BY DEF VotesTyped
  <2>2. s2[i] \in Update
    BY <2>1
  <2>3. s4' = [s4 EXCEPT !.param = s2[i].value] /\ s2[i].value \in ballot.ValidValues
    BY <1>2, <2>2 DEF Votes!ExecuteUpdate, Update
  <2> QED BY <2>3 DEF SettingsTyped
<1>3. s4' = s4 \/ (\E id \in DOMAIN s1 : Votes!ExecuteProposal(id))
      \/ (\E i \in DOMAIN s2 : Votes!ExecuteUpdate(i))
  BY DEF Votes!Next, Votes!CreateProposal, Votes!CastVote, Votes!SignProposal,
     Votes!ApproveProposal, Votes!Signed, Votes!CancelProposal, Votes!DelegateVote,
     Votes!RevokeDelegation, Votes!SetTimelockDelay, Votes!ProposeUpdate, Votes!Tick
<1> QED BY <1>1, <1>2, <1>3 DEF SettingsTyped

LEMMA VotesTypes ==
    ASSUME VotesTyped, SettingsTyped
    PROVE  Votes!TypeOK
<1>1. \A i \in DOMAIN s1 : s1[i].action \in Votes!Actions /\ s1[i].executableAt \in Nat
  BY TypedProposal
<1> QED BY <1>1 DEF Votes!TypeOK, VotesTyped, SettingsTyped

\* One request is written, and the rest stay.
LEMMA RequestsTyped ==
    ASSUME FundsInv, Coffers!TypeOK, NEW id \in coffers.ProposalIds, NEW q,
           s7' = [s7 EXCEPT ![id] = q], \A i \in DOMAIN q : q[i] \in Coffers!TreasuryProposal
    PROVE  \A j \in coffers.ProposalIds : \A i \in DOMAIN s7'[j] :
              s7'[j][i] \in Coffers!TreasuryProposal
<1>1. s7 = [j \in coffers.ProposalIds |-> s7[j]]
  BY DEF FundsInv
<1>2. \A j \in coffers.ProposalIds : s7'[j] = IF j = id THEN q ELSE s7[j]
  BY <1>1
<1>3. \A j \in coffers.ProposalIds : \A i \in DOMAIN s7[j] : s7[j][i] \in Coffers!TreasuryProposal
  BY DEF Coffers!TypeOK
<1> QED BY <1>2, <1>3

LEMMA FundsTypes ==
    ASSUME FundsInv, Coffers!TypeOK, Coffers!Next
    PROVE  Coffers!TypeOK'
<1> DEFINE Ok(f) == \A j \in coffers.ProposalIds : \A i \in DOMAIN f[j] :
                       f[j][i] \in Coffers!TreasuryProposal
<1>1. /\ coffers.Signers \subseteq coffers.People /\ coffers.Amounts \subseteq Nat \ {0}
      /\ coffers.Thresholds \subseteq Nat /\ coffers.Lives \subseteq Nat
      /\ coffers.EmergencyThreshold \in Nat /\ coffers.MaxTime \in Nat
  BY CoreAssumption DEF Coffers!TreasuryAssumption
<1>2. /\ s1 \in Nat /\ s4 \subseteq coffers.People /\ s5 \in Nat
      /\ s9 \in 1..coffers.MaxTime /\ Ok(s7)
  BY DEF Coffers!TypeOK
<1>3. SUFFICES /\ s1' \in Nat /\ s4' \subseteq coffers.People /\ s5' \in Nat
               /\ s9' \in 1..coffers.MaxTime /\ Ok(s7')
  BY DEF Coffers!TypeOK
<1>4. ASSUME NEW id \in coffers.ProposalIds, s7[id] # <<>>
      PROVE  DOMAIN s7[id] = {1} /\ s7[id][1] \in Coffers!TreasuryProposal
  <2>1. DOMAIN s7[id] = {1}
    BY <1>4 DEF FundsInv, Requests
  <2> QED BY <1>2, <2>1
<1> DEFINE Goal == /\ s1' \in Nat /\ s4' \subseteq coffers.People /\ s5' \in Nat
                   /\ s9' \in 1..coffers.MaxTime /\ Ok(s7')
<1>5. ASSUME NEW s \in coffers.People, Coffers!AddSigner(s) \/ Coffers!RemoveSigner(s)
      PROVE  Goal
  BY <1>2, <1>5 DEF Coffers!AddSigner, Coffers!RemoveSigner, Coffers!moneyVars
<1>6. ASSUME NEW n \in coffers.Thresholds, Coffers!UpdateThreshold(n)
      PROVE  Goal
  BY <1>1, <1>2, <1>6 DEF Coffers!UpdateThreshold, Coffers!moneyVars
<1>7. ASSUME NEW amount \in coffers.Amounts, Coffers!Deposit(amount)
      PROVE  Goal
  <2>1. s1' = s1 + amount /\ amount \in Nat /\ UNCHANGED <<s4, s5, s7, s9>>
    BY <1>1, <1>7 DEF Coffers!Deposit
  <2> QED BY <1>2, <2>1
<1>8. ASSUME NEW max \in coffers.Limits, Coffers!SetSpendingLimit(max)
      PROVE  Goal
  BY <1>2, <1>8 DEF Coffers!SetSpendingLimit, Coffers!moneyVars
<1>9. ASSUME NEW s \in coffers.People, NEW id \in coffers.ProposalIds, NEW e \in BOOLEAN,
             NEW amount \in coffers.Amounts, NEW life \in coffers.Lives,
             Coffers!CreateProposal(s, id, e, amount, life)
      PROVE  Goal
  <2> DEFINE p == [emergency |-> e, amount |-> amount, expires |-> s9 + life,
                   approvals |-> {s}, status |-> "Pending",
                   required |-> IF e THEN coffers.EmergencyThreshold ELSE s5]
  <2>1. s7' = [s7 EXCEPT ![id] = <<p>>] /\ UNCHANGED <<s1, s4, s5, s9>>
    BY <1>9 DEF Coffers!CreateProposal, Coffers!moneyVars
  <2>2. s9 + life \in Nat
    BY <1>1, <1>2
  <2>3. p \in Coffers!TreasuryProposal
    BY <1>1, <1>2, <2>2 DEF Coffers!TreasuryProposal
  <2> HIDE DEF p
  <2> DEFINE q == <<p>>
  <2>4. s7' = [s7 EXCEPT ![id] = q] /\ \A i \in DOMAIN q : q[i] \in Coffers!TreasuryProposal
    BY <2>1, <2>3
  <2> HIDE DEF q
  <2>5. Ok(s7')
    BY <2>4, RequestsTyped
  <2> QED BY <1>2, <2>1, <2>5
<1>10. ASSUME NEW s \in coffers.People, NEW id \in coffers.ProposalIds, Coffers!ApproveProposal(s, id)
       PROVE  Goal
  <2> DEFINE approvals == Coffers!proposal(id).approvals \cup {s}
             st == IF Coffers!Cardinality(approvals) >= Coffers!proposal(id).required
                   THEN "Approved" ELSE s7[id][1].status
             q == [s7[id] EXCEPT ![1].approvals = approvals, ![1].status = st]
  <2>1. UNCHANGED <<s1, s4, s5, s9>> /\ s7[id] # <<>>
    BY <1>10 DEF Coffers!ApproveProposal, Coffers!moneyVars, Coffers!Exists
  <2>2. s7' = [s7 EXCEPT ![id] = q]
    BY <1>10 DEF Coffers!ApproveProposal, FundsInv
  <2>3. DOMAIN s7[id] = {1} /\ s7[id][1] \in Coffers!TreasuryProposal
    BY <1>4, <2>1
  <2>4. approvals \subseteq coffers.People
    BY <2>3 DEF Coffers!proposal, Coffers!TreasuryProposal
  <2>5. st \in {"Pending", "Approved", "Executed", "Rejected"}
    BY <2>3 DEF Coffers!TreasuryProposal
  <2> HIDE DEF approvals, st
  <2>6. DOMAIN q = {1} /\ q[1] = [s7[id][1] EXCEPT !.approvals = approvals, !.status = st]
    BY <2>3
  <2>7. q[1] \in Coffers!TreasuryProposal
    BY <2>3, <2>4, <2>5, <2>6 DEF Coffers!TreasuryProposal
  <2> HIDE DEF q
  <2>8. Ok(s7')
    BY <2>2, <2>6, <2>7, RequestsTyped
  <2> QED BY <1>2, <2>1, <2>8
<1>11. ASSUME NEW id \in coffers.ProposalIds, NEW st \in {"Executed", "Rejected"},
              s7[id] # <<>>, s7' = [s7 EXCEPT ![id][1].status = st]
       PROVE  Ok(s7')
  <2> DEFINE q == [s7[id] EXCEPT ![1].status = st]
  <2>1. DOMAIN s7[id] = {1} /\ s7[id][1] \in Coffers!TreasuryProposal
    BY <1>4, <1>11
  <2>2. DOMAIN q = {1} /\ q[1] = [s7[id][1] EXCEPT !.status = st]
    BY <2>1
  <2>3. q[1] \in Coffers!TreasuryProposal
    BY <2>1, <2>2 DEF Coffers!TreasuryProposal
  <2>4. s7' = [s7 EXCEPT ![id] = q]
    BY <1>11
  <2> HIDE DEF q
  <2> QED BY <2>2, <2>3, <2>4, RequestsTyped
<1>12. ASSUME NEW s, NEW id \in coffers.ProposalIds,
              Coffers!ApproveTooLate(s, id) \/ Coffers!RejectProposal(id)
       PROVE  Goal
  <2>1. /\ UNCHANGED <<s1, s4, s5, s9>> /\ s7[id] # <<>>
        /\ s7' = [s7 EXCEPT ![id][1].status = "Rejected"]
    BY <1>12 DEF Coffers!ApproveTooLate, Coffers!RejectProposal, Coffers!moneyVars, Coffers!Exists
  <2> QED BY <1>2, <1>11, <2>1
<1>13. ASSUME NEW id \in coffers.ProposalIds, Coffers!ExecuteProposal(id)
       PROVE  Goal
  <2> DEFINE a == s7[id][1].amount
  <2>1. /\ s1 >= a /\ s1' = s1 - a /\ UNCHANGED <<s4, s5, s9>> /\ s7[id] # <<>>
        /\ s7' = [s7 EXCEPT ![id][1].status = "Executed"]
    BY <1>13 DEF Coffers!ExecuteProposal, Coffers!proposal, Coffers!Exists
  <2>2. a \in Nat
    BY <1>1, <1>4, <2>1 DEF Coffers!TreasuryProposal
  <2> HIDE DEF a
  <2>3. s1' \in Nat
    BY <1>2, <2>1, <2>2
  <2>4. Ok(s7')
    BY <1>11, <2>1
  <2> QED BY <1>2, <2>1, <2>3, <2>4
<1>14. CASE Coffers!Tick
  <2>1. s9 < coffers.MaxTime /\ s9' = s9 + 1 /\ UNCHANGED <<s1, s4, s5, s7>>
    BY <1>14 DEF Coffers!Tick, Coffers!moneyVars
  <2>2. s9' \in 1..coffers.MaxTime
    BY <1>1, <1>2, <2>1
  <2> QED BY <1>2, <2>1, <2>2
<1> QED BY <1>5, <1>6, <1>7, <1>8, <1>9, <1>10, <1>12, <1>13, <1>14 DEF Coffers!Next

LEMMA FundsTypesBegin ==
    ASSUME Coffers!Init
    PROVE  Coffers!TypeOK
BY CoreAssumption DEF Coffers!Init, Coffers!TypeOK, Coffers!TreasuryAssumption

\* The clocks stop at their bounds.
LEMMA FarmClock ==
    ASSUME s5 \in 1..farm.MaxTime, Farms!Next
    PROVE  s5' \in 1..farm.MaxTime
<1>1. farm.MaxTime \in Nat
  BY CoreAssumption DEF Farms!FarmingAssumption
<1>2. UNCHANGED s5 \/ (s5 < farm.MaxTime /\ s5' = s5 + 1)
  BY DEF Farms!Next, Farms!StakeLp, Farms!UnstakeLp, Farms!ClaimFarmRewards,
         Farms!GetPendingFarmRewards, Farms!SetFarmEmissionRate, Farms!GetPoolState, Farms!Tick
<1> QED BY <1>1, <1>2

LEMMA BonusClock ==
    ASSUME s10 \in 1..bonus.MaxTime, Bonuses!Next
    PROVE  s10' \in 1..bonus.MaxTime
<1>1. bonus.MaxTime \in Nat
  BY CoreAssumption DEF Bonuses!BonusAssumption
<1>2. UNCHANGED s10 \/ (s10 < bonus.MaxTime /\ s10' = s10 + 1)
  BY DEF Bonuses!Next, Bonuses!Stake, Bonuses!UnstakeEarly, Bonuses!ClaimStake, Bonuses!Ended,
         Bonuses!ClaimBonuses, Bonuses!ExecuteDistribution, Bonuses!Tick
<1> QED BY <1>1, <1>2

LEMMA DeskClock ==
    ASSUME s7 \in 1..desk.MaxTime, Trades!Next
    PROVE  s7' \in 1..desk.MaxTime
<1>1. desk.MaxTime \in Nat
  BY CoreAssumption DEF Trades!OrdersAssumption
<1>2. CASE Trades!Tick
  <2>1. s7 < desk.MaxTime /\ s7' = s7 + 1
    BY <1>2 DEF Trades!Tick
  <2> QED BY <1>1, <2>1
<1>3. ASSUME NEW t, NEW side, NEW amount, NEW price, NEW d, NEW limit, NEW id, NEW i, NEW n,
             \/ Trades!PlaceLimitOrder(t, side, amount, price, d)
             \/ Trades!PlaceRecurringOrder(t, amount, i, n, d)
      PROVE  s7' = s7
  BY <1>3 DEF Trades!PlaceLimitOrder, Trades!PlaceRecurringOrder
<1>4. ASSUME NEW t, NEW side, NEW amount, NEW limit, Trades!TakeOrder(t, side, amount, limit)
      PROVE  s7' = s7
  BY <1>4 DEF Trades!TakeOrder
<1>5. ASSUME NEW t, NEW id, Trades!CancelOrder(t, id) \/ Trades!CancelRecurring(t, id)
      PROVE  s7' = s7
  BY <1>5 DEF Trades!CancelOrder, Trades!CancelRecurring
<1>6. ASSUME NEW price, Trades!MatchPendingOrders(price)
      PROVE  s7' = s7
  BY <1>6 DEF Trades!MatchPendingOrders
<1>7. CASE Trades!ExecuteDueOrders
  BY <1>7 DEF Trades!ExecuteDueOrders
<1> QED BY <1>2, <1>3, <1>4, <1>5, <1>6, <1>7, Zenon DEF Trades!Next

LEMMA BonusTypes ==
    ASSUME BonusInv, s10 \in 1..bonus.MaxTime
    PROVE  Bonuses!TypeOK
<1>1. s3 \in Int
  <2>1. s3 = SetTotal(s2, bonus.Users) /\ \A u \in bonus.Users : s2[u] \in Int
    BY DEF BonusInv, BonusTyped, BonusTotals
  <2> QED BY <2>1, BonusConstants, SetTotalInt
<1> QED BY <1>1 DEF BonusInv, BonusTyped, StakeList, Bonuses!TypeOK

LEMMA FarmTypes ==
    ASSUME FarmInv, s5 \in 1..farm.MaxTime
    PROVE  Farms!TypeOK
BY DEF FarmInv, FarmTyped, Farms!TypeOK

LEMMA DeskTypes ==
    ASSUME OrdersInv, s7 \in 1..desk.MaxTime
    PROVE  Trades!TypeOK
<1>1. Trades!Sides = {"Buy", "Sell"}
  BY OrdersTotals
<1>2. Trades!Order = DeskOrder
  BY <1>1 DEF Trades!Order, DeskOrder, Trades!Statuses
<1>3. ASSUME NEW side \in {"Buy", "Sell"}
      PROVE  s2[side] \in Seq(DOMAIN s1)
  <2>1. s2[side] \in Seq(Nat) /\ \A i \in 1..Len(s2[side]) : s2[side][i] \in DOMAIN s1
    BY DEF OrdersInv, Stands
  <2> QED BY <2>1
<1>4. s3 \in Seq(DOMAIN s1)
  <2>1. s3 \in Seq(Nat) /\ \A i \in DOMAIN s3 : s3[i] \in DOMAIN s1
    BY DEF OrdersInv
  <2> QED BY <2>1
<1>5. s2 \in [{"Buy", "Sell"} -> Seq(DOMAIN s1)]
  BY <1>3 DEF OrdersInv
<1> QED BY <1>1, <1>2, <1>4, <1>5 DEF OrdersInv, Purses, Trades!TypeOK, Trades!Ids

\* The override has the fields of EmergencyOverrideState.
OverrideFields == DOMAIN s7 = {"active", "cap", "until"}

\* A fee that moves adds an entry at most, and drops one when there are too many.
LEMMA MovesBounded ==
    ASSUME FeesInv, Len(s9) <= tariff.MaxHistory, NEW new, NEW m, NEW reason,
           Tariff!Moves(new, m, reason)
    PROVE  Len(s9') <= tariff.MaxHistory
<1>1. s9 \in Seq(FeeEntry) /\ tariff.MaxHistory \in Nat
  BY CoreAssumption DEF FeesInv, Account, Tariff!DynamicFeesAssumption
<1>2. CASE new = s2
  BY <1>2 DEF Tariff!Moves, Tariff!feeVars
<1>3. CASE new # s2
  <2> DEFINE e == [at |-> s10, fee |-> new, previous |-> s2, level |-> Tariff!Level(m),
                   reason |-> reason]
             r == Append(s9, e)
  <2>1. s9' = IF Len(r) > tariff.MaxHistory THEN Tail(r) ELSE r
    BY <1>3 DEF Tariff!Moves, Tariff!Recorded
  <2>2. Len(r) = Len(s9) + 1 /\ Len(Tail(r)) = Len(s9)
    <3> HIDE DEF e
    <3>1. r \in Seq(FeeEntry \cup {e}) /\ Len(r) = Len(s9) + 1 /\ r # <<>>
      BY <1>1
    <3> HIDE DEF r
    <3> QED BY <1>1, <3>1
  <2> HIDE DEF r
  <2> QED BY <1>1, <2>1, <2>2
<1> QED BY <1>2, <1>3

LEMMA OverrideStays ==
    ASSUME Tariff!TypeOK, OverrideFields, Tariff!Next
    PROVE  OverrideFields' /\ (s7'.active <=> s7'.until # Tariff!None)
<1>1. DOMAIN s7 = {"active", "cap", "until"} /\ (s7.active <=> s7.until # Tariff!None)
  BY DEF Tariff!TypeOK, OverrideFields
<1>2. ASSUME NEW cap, s7' = Tariff!Activated(cap)
      PROVE  OverrideFields' /\ (s7'.active <=> s7'.until # Tariff!None)
  BY <1>2 DEF Tariff!Activated, Tariff!None, OverrideFields
<1>3. ASSUME s7' = [s7 EXCEPT !.active = FALSE, !.until = Tariff!None]
      PROVE  OverrideFields' /\ (s7'.active <=> s7'.until # Tariff!None)
  BY <1>1, <1>3 DEF OverrideFields
<1>4. \/ s7' = s7 \/ (\E cap : s7' = Tariff!Activated(cap))
      \/ s7' = [s7 EXCEPT !.active = FALSE, !.until = Tariff!None]
  <2>1. ASSUME NEW m \in tariff.Metrics, Tariff!UpdateFeesForCongestion(m)
        PROVE  \/ s7' = s7 \/ (\E cap : s7' = Tariff!Activated(cap))
               \/ s7' = [s7 EXCEPT !.active = FALSE, !.until = Tariff!None]
    BY <2>1, Zenon DEF Tariff!UpdateFeesForCongestion
  <2>2. ASSUME NEW a \in tariff.Admins, NEW cap \in tariff.Caps, Tariff!ActivateOverride(a, cap)
        PROVE  \E c : s7' = Tariff!Activated(c)
    BY <2>2, Zenon DEF Tariff!ActivateOverride
  <2>3. ASSUME NEW a \in tariff.Admins, Tariff!DeactivateOverride(a)
        PROVE  s7' = [s7 EXCEPT !.active = FALSE, !.until = Tariff!None]
    BY <2>3 DEF Tariff!DeactivateOverride
  <2>4. ASSUME \/ \E f \in tariff.Fees : Tariff!UpdateFeesManual(f)
               \/ \E c \in tariff.Configs : Tariff!UpdateConfig(c)
               \/ \E set : Tariff!SetAdmins(set)
               \/ \E r \in tariff.Retentions : Tariff!CleanupOldHistory(r)
               \/ Tariff!Tick
        PROVE  s7' = s7
    BY <2>4 DEF Tariff!UpdateFeesManual, Tariff!UpdateConfig, Tariff!SetAdmins,
       Tariff!CleanupOldHistory, Tariff!Tick, Tariff!overrideVars
  <2> QED BY <2>1, <2>2, <2>3, <2>4 DEF Tariff!Next
<1> QED BY <1>1, <1>2, <1>3, <1>4 DEF OverrideFields

LEMMA FeesTypes ==
    ASSUME FeesInv, Tariff!TypeOK, OverrideFields, Tariff!Next
    PROVE  Tariff!TypeOK'
<1> DEFINE Net == (s5' = Tariff!None \/ s5' \in tariff.Metrics) /\ s6' \in 0..s10'
           Rest == s8' \subseteq tariff.Admins /\ Len(s9') <= tariff.MaxHistory
<1>0. /\ s5 = Tariff!None \/ s5 \in tariff.Metrics
      /\ s6 \in 0..s10 /\ s8 \subseteq tariff.Admins /\ Len(s9) <= tariff.MaxHistory
      /\ s10 \in Nat
  BY DEF Tariff!TypeOK, FeesInv
<1>1. FeesInv' /\ (s7'.active <=> s7'.until # Tariff!None)
  BY FeesGoOn, OverrideStays
<1>2. SUFFICES Net /\ Rest
  BY <1>1 DEF FeesInv, Tariff!TypeOK
<1>3. ASSUME NEW m \in tariff.Metrics, Tariff!UpdateFeesForCongestion(m)
      PROVE  Net /\ Rest
  <2>1. /\ s5' = m /\ s6' = s10 /\ s10' = s10 /\ s8' = s8
        /\ \E new : Tariff!Moves(new, m, "Automatic")
    BY <1>3, Zenon DEF Tariff!UpdateFeesForCongestion
  <2>2. Len(s9') <= tariff.MaxHistory
    BY <1>0, <2>1, MovesBounded
  <2> QED BY <1>0, <2>1, <2>2
<1>4. ASSUME NEW f \in tariff.Fees, Tariff!UpdateFeesManual(f)
      PROVE  Net /\ Rest
  <2>1. UNCHANGED <<s5, s6, s8, s10>> /\ Tariff!Moves(f, s4, "Manual")
    BY <1>4 DEF Tariff!UpdateFeesManual, Tariff!netVars, Tariff!overrideVars
  <2>2. Len(s9') <= tariff.MaxHistory
    BY <1>0, <2>1, MovesBounded
  <2> QED BY <1>0, <2>1, <2>2
<1>5. ASSUME \/ \E c \in tariff.Configs : Tariff!UpdateConfig(c)
             \/ \E a \in tariff.Admins : \/ \E cap \in tariff.Caps : Tariff!ActivateOverride(a, cap)
                                         \/ Tariff!DeactivateOverride(a)
                                         \/ Tariff!SetAdmins(s8 \cup {a})
                                         \/ Tariff!SetAdmins(s8 \ {a})
      PROVE  Net /\ Rest
  <2>1. UNCHANGED <<s5, s6, s9, s10>>
    BY <1>5 DEF Tariff!UpdateConfig, Tariff!ActivateOverride, Tariff!DeactivateOverride,
       Tariff!SetAdmins, Tariff!netVars, Tariff!feeVars
  <2>2. s8' = s8 \/ \E a \in tariff.Admins : s8' = s8 \cup {a} \/ s8' = s8 \ {a}
    BY <1>5 DEF Tariff!UpdateConfig, Tariff!ActivateOverride, Tariff!DeactivateOverride,
       Tariff!SetAdmins, Tariff!overrideVars
  <2> QED BY <1>0, <2>1, <2>2
<1>6. ASSUME NEW r \in tariff.Retentions, Tariff!CleanupOldHistory(r)
      PROVE  Net /\ Rest
  <2>1. UNCHANGED <<s5, s6, s8, s10>>
    BY <1>6 DEF Tariff!CleanupOldHistory, Tariff!netVars, Tariff!overrideVars
  <2>2. Len(s9') <= Len(s9)
    BY <1>6, CleanupsAccount
  <2>3. Len(s9) \in Nat /\ Len(s9') \in Nat /\ tariff.MaxHistory \in Nat
    BY <1>1, CoreAssumption DEF FeesInv, Account, Tariff!DynamicFeesAssumption
  <2>4. Len(s9') <= tariff.MaxHistory
    BY <1>0, <2>2, <2>3
  <2> QED BY <1>0, <2>1, <2>4
<1>7. CASE Tariff!Tick
  <2>1. UNCHANGED <<s5, s6, s8, s9>> /\ s10' = s10 + 1
    BY <1>7 DEF Tariff!Tick, Tariff!netVars, Tariff!overrideVars, Tariff!feeVars
  <2>2. s6 \in 0..s10 + 1
    BY <1>0
  <2> QED BY <1>0, <2>1, <2>2
<1> QED BY <1>3, <1>4, <1>5, <1>6, <1>7 DEF Tariff!Next

LEMMA FeesTypesBegin ==
    ASSUME InFees
    PROVE  Tariff!TypeOK /\ OverrideFields
<1>1. /\ s5 = Tariff!None /\ s6 = 0 /\ s7 = Tariff!Inactive /\ s8 = {} /\ s10 = 1
      /\ \E e : s9 = <<e>>
  BY Zenon DEF InFees, Tariff!Init
<1>2. Len(s9) = 1
  BY <1>1
<1>3. Len(s9) <= tariff.MaxHistory
  BY <1>2, CoreAssumption DEF Tariff!DynamicFeesAssumption
<1>4. OverrideFields /\ (s7.active <=> s7.until # Tariff!None)
  BY <1>1 DEF Tariff!Inactive, OverrideFields
<1>5. FeesInv
  BY FeesBegin
<1> QED BY <1>1, <1>3, <1>4, <1>5 DEF FeesInv, Tariff!TypeOK

\* The inductive invariant of the types.
TimedTyped ==
    /\ part = "emergency" => EmergencyInv
    /\ part = "path" => PathInv
    /\ part = "manager" => Manager!TypeOK
    /\ part = "votes" => VotesTyped /\ SettingsTyped
    /\ part = "treasury" => FundsInv /\ Coffers!TypeOK
    /\ part = "farming" => FarmInv /\ s5 \in 1..farm.MaxTime
    /\ part = "bonuses" => BonusInv /\ s10 \in 1..bonus.MaxTime
    /\ part = "orders" => OrdersInv /\ s7 \in 1..desk.MaxTime
    /\ part = "fees" => FeesInv /\ Tariff!TypeOK /\ OverrideFields

TimedParts == {"emergency", "path", "manager", "votes", "treasury", "farming", "bonuses",
               "orders", "fees"}

LEMMA TimedTypesBegin ==
    ASSUME CoreInit
    PROVE  TimedTyped
<1>1. CASE part = "emergency"
  BY <1>1, PartBegins, EmergencyBegins DEF InEmergency, TimedTyped
<1>2. CASE part = "path"
  BY <1>2, PartBegins, PathBegins DEF InPath, TimedTyped
<1>3. CASE part = "manager"
  BY <1>3, PartBegins, ManagerTypesBegin DEF InManager, TimedTyped
<1>4. CASE part = "votes"
  <2>1. Votes!Init
    BY <1>4, PartBegins DEF InVotes
  <2>2. SettingsTyped
    BY <2>1, CoreAssumption DEF Votes!Init, SettingsTyped, Votes!CounterGovernanceAssumption
  <2>3. VotesTyped
    BY <2>1, VotesBegin DEF VotesInv
  <2> QED BY <1>4, <2>2, <2>3 DEF TimedTyped
<1>5. CASE part = "treasury"
  BY <1>5, PartBegins, FundsBegin, FundsTypesBegin DEF InTreasury, TimedTyped
<1>6. CASE part = "farming"
  <2>1. Farms!Init
    BY <1>6, PartBegins DEF InFarming
  <2>2. s5 \in 1..farm.MaxTime
    BY <2>1, CoreAssumption DEF Farms!Init, Farms!FarmingAssumption
  <2> QED BY <1>6, <2>1, <2>2, FarmBegins DEF TimedTyped
<1>7. CASE part = "bonuses"
  <2>1. Bonuses!Init
    BY <1>7, PartBegins DEF InBonuses
  <2>2. s10 \in 1..bonus.MaxTime
    BY <2>1, CoreAssumption DEF Bonuses!Init, Bonuses!BonusAssumption
  <2> QED BY <1>7, <2>1, <2>2, BonusBegins DEF TimedTyped
<1>8. CASE part = "orders"
  <2>1. InOrders
    BY <1>8, PartBegins
  <2>2. s7 \in 1..desk.MaxTime
    BY <2>1, CoreAssumption DEF InOrders, Trades!Init, Trades!OrdersAssumption
  <2> QED BY <1>8, <2>1, <2>2, OrdersBegin DEF TimedTyped
<1>9. CASE part = "fees"
  BY <1>9, PartBegins, FeesBegin, FeesTypesBegin DEF TimedTyped
<1>10. CASE part \notin TimedParts
  BY <1>10 DEF TimedTyped, TimedParts
<1> QED BY <1>1, <1>2, <1>3, <1>4, <1>5, <1>6, <1>7, <1>8, <1>9, <1>10 DEF TimedParts

LEMMA TimedTypesGoOn ==
    ASSUME TimedTyped, CoreNext
    PROVE  TimedTyped'
<1>1. CASE part = "emergency"
  BY <1>1, PartGoesOn, EmergencyGoesOn DEF EmergencyStep, TimedTyped
<1>2. CASE part = "path"
  BY <1>2, PartGoesOn, PathGoesOn DEF PathStep, TimedTyped
<1>3. CASE part = "manager"
  <2>1. part' = part /\ Manager!Next /\ Manager!TypeOK
    BY <1>3, PartGoesOn DEF ManagerStep, TimedTyped
  <2>2. Manager!TypeOK'
    BY <2>1, ManagerTypes
  <2>3. part' = "manager"
    BY <1>3, <2>1
  <2> QED BY ONLY <2>2, <2>3 DEF TimedTyped
<1>4. CASE part = "votes"
  <2>1. part' = part /\ Votes!Next /\ VotesTyped /\ SettingsTyped
    BY <1>4, PartGoesOn DEF VotesStep, TimedTyped
  <2>2. VotesTyped'
    BY ONLY <2>1, VotesStayTyped
  <2>3. SettingsTyped'
    BY ONLY <2>1, SettingsStay
  <2>4. part' = "votes"
    BY <1>4, <2>1
  <2> QED BY ONLY <2>2, <2>3, <2>4 DEF TimedTyped
<1>5. CASE part = "treasury"
  BY <1>5, PartGoesOn, FundsGoOn, FundsTypes DEF TreasuryStep, TimedTyped
<1>6. CASE part = "farming"
  BY <1>6, PartGoesOn, FarmGoesOn, FarmClock DEF FarmingStep, TimedTyped
<1>7. CASE part = "bonuses"
  BY <1>7, PartGoesOn, BonusGoesOn, BonusClock DEF BonusesStep, TimedTyped
<1>8. CASE part = "orders"
  BY <1>8, PartGoesOn, OrdersGoOn, DeskClock DEF OrdersStep, TimedTyped
<1>9. CASE part = "fees"
  <2>1. part' = part /\ Tariff!Next /\ FeesInv /\ Tariff!TypeOK /\ OverrideFields
    BY <1>9, PartGoesOn DEF FeesStep, TimedTyped
  <2>2. FeesInv' /\ Tariff!TypeOK' /\ OverrideFields'
    BY <2>1, FeesGoOn, FeesTypes, OverrideStays
  <2> QED BY <1>9, <2>1, <2>2 DEF TimedTyped
<1>10. CASE part \notin TimedParts
  BY <1>10, PartGoesOn DEF TimedTyped, TimedParts
<1> QED BY <1>1, <1>2, <1>3, <1>4, <1>5, <1>6, <1>7, <1>8, <1>9, <1>10 DEF TimedParts

\* TypeOK in the parts in which time decides, whatever the values of their constants: no
\* call of theirs leaves a field outside of its type, and no balance falls below zero.
THEOREM TimedTypesAlways ==
    CoreSpec => [](part \in {"emergency", "path", "manager", "votes", "treasury", "farming",
                             "bonuses", "orders", "fees"} => TypeOK)
<1>1. CoreInit => TimedTyped
  BY TimedTypesBegin
<1>2. TimedTyped /\ [CoreNext]_vars => TimedTyped'
  <2>1. ASSUME TimedTyped, UNCHANGED vars PROVE TimedTyped'
    <3>1. UNCHANGED <<part, s1, s2, s3, s4, s5, s6, s7, s8, s9, s10>>
      BY <2>1, NothingMoves
    <3>2. CASE part \in {"emergency", "path", "manager"}
      BY <2>1, <3>1, <3>2 DEF TimedTyped, EmergencyInv, Emergency!TypeOK, Emergency!LevelCovered,
         Emergency!Active, PathInv, Path!TypeOK, Manager!TypeOK
    <3>3. CASE part = "votes"
      BY <2>1, <3>1, <3>3 DEF TimedTyped, VotesTyped, SettingsTyped
    <3>4. CASE part = "treasury"
      BY <2>1, <3>1, <3>4 DEF TimedTyped, FundsInv, LimitInv, Counted, Capped, Spent, Requests,
         IsRequest, Coffers!TypeOK
    <3>5. CASE part = "farming"
      BY <2>1, <3>1, <3>5 DEF TimedTyped, FarmInv, FarmTyped, Covered, Due
    <3>6. CASE part = "bonuses"
      BY <2>1, <3>1, <3>6 DEF TimedTyped, BonusInv, BonusTyped, BonusTotals, EachOnce
    <3>7. CASE part = "orders"
      BY <2>1, <3>1, <3>7 DEF TimedTyped, OrdersInv
    <3>8. CASE part = "fees"
      BY <2>1, <3>1, <3>8 DEF TimedTyped, FeesInv, Tariff!TypeOK, OverrideFields
    <3>9. CASE part \notin TimedParts
      BY <3>1, <3>9 DEF TimedTyped, TimedParts
    <3> QED BY <3>2, <3>3, <3>4, <3>5, <3>6, <3>7, <3>8, <3>9 DEF TimedParts
  <2> QED BY <2>1, TimedTypesGoOn
<1>3. TimedTyped => (part \in {"emergency", "path", "manager", "votes", "treasury", "farming",
                               "bonuses", "orders", "fees"} => TypeOK)
  <2>1. EmergencyInv => Emergency!TypeOK
    BY DEF EmergencyInv
  <2>2. PathInv => Path!TypeOK
    BY DEF PathInv
  <2> QED BY <2>1, <2>2, VotesTypes, FarmTypes, BonusTypes, DeskTypes DEF TimedTyped, TypeOK
<1> QED BY <1>1, <1>2, <1>3, PTL DEF CoreSpec

=============================================================================
