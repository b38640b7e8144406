-------------------------- MODULE CounterSuiteProofs ---------------------------
(***************************************************************************)
(* Further proofs about the parts of the counter contract, for every value *)
(* of their constants: the parts that keep logs, boards and accounts.      *)
(***************************************************************************)
EXTENDS CounterCore, SequenceLemmas

-----------------------------------------------------------------------------
(* A behaviour stays in its part.                                          *)

\* A step that changes nothing changes no variable.
LEMMA NothingMoves ==
    ASSUME UNCHANGED vars
    PROVE  UNCHANGED <<part, s1, s2, s3, s4, s5, s6, s7, s8, s9, s10, s11, s12, s13, s14, s15,
                       s16, s17>>
BY DEF vars, from1, from2, from3, from4, from5, from6, from7, from8, from9, from10, from11,
   from12, from13, from14, from15, from16, from17

\* The part that runs begins as it says and takes its own steps only.
LEMMA PartBegins ==
    ASSUME CoreInit
    PROVE  /\ part = "phases" => InPhases
           /\ part = "rewards" => InRewards
           /\ part = "games" => InGames
           /\ part = "seasons" => InSeasons
           /\ part = "referrals" => InReferrals
           /\ part = "codes" => InCodes
BY DEF CoreInit, InLending, InMarket, InFractions, InPools, InTrading, InOracle, InVolume, InRates,
   InFarming, InBonuses, InTreasury, InEmergency, InPath, InManager, InVotes, InPhases,
   InRewards, InGames, InSeasons, InOrders, InFees,
   InReferrals, InCodes

LEMMA PartGoesOn ==
    ASSUME CoreNext
    PROVE  /\ part' = part
           /\ part = "phases" => PhasesStep
           /\ part = "rewards" => RewardsStep
           /\ part = "games" => GamesStep
           /\ part = "seasons" => SeasonsStep
           /\ part = "referrals" => ReferralsStep
           /\ part = "codes" => CodesStep
BY DEF CoreNext, LendingStep, MarketStep, FractionsStep, PoolsStep, TradingStep, OracleStep,
   VolumeStep, RatesStep, FarmingStep, BonusesStep, TreasuryStep, EmergencyStep, PathStep,
   ManagerStep, VotesStep, PhasesStep, RewardsStep, GamesStep, SeasonsStep, OrdersStep,
   FeesStep, ReferralsStep, CodesStep

-----------------------------------------------------------------------------
(* The log of the decentralization schedule, read backwards.               *)

\* The last event of L about an id is of the kind.
Latest(L, id, kind) ==
    \E i \in DOMAIN L : L[i].about = id /\ L[i].kind = kind
        /\ \A j \in i + 1..Len(L) : L[j].about # id

\* Event i is the last of the kind about the id.
LastOf(L, i, id, kind) ==
    /\ i \in DOMAIN L /\ L[i].about = id /\ L[i].kind = kind
    /\ \A j \in i + 1..Len(L) : L[j].about = id => L[j].kind # kind

\* Who made or approved the id from event i on.
ApprovedFrom(L, i, id) ==
    {L[k].who : k \in {j \in i..Len(L) : L[j].about = id /\ L[j].kind \in {"Created", "Approved"}}}

\* The log L tells an operation, a proposal and the largest trade.
OperationTold(id, x, L) ==
    /\ x.executed <=> Latest(L, id, "OperationExecuted")
    /\ x.cancelled <=> Latest(L, id, "Cancelled")
    /\ \E i : LastOf(L, i, id, "Queued") /\ x.eta = L[i].at + schedule.Delay
    /\ x.executed => \E i : LastOf(L, i, id, "OperationExecuted") /\ L[i].at >= x.eta

ProposalTold(id, x, L) ==
    /\ \E i : LastOf(L, i, id, "Created") /\ x.approvals = ApprovedFrom(L, i, id)
    /\ x.executed <=> Latest(L, id, "ProposalExecuted")
    /\ x.executed => Phases!Cardinality(x.approvals) >= schedule.Threshold

SizeTold(size, L) ==
    \/ size = 0 /\ \A i \in DOMAIN L : L[i].kind # "ProposalExecuted"
    \/ \E i \in DOMAIN L :
          /\ L[i].kind = "ProposalExecuted" /\ size = L[i].about[2]
          /\ \A j \in i + 1..Len(L) : L[j].kind # "ProposalExecuted"

\* The inductive invariant of the schedule.
SettingsType == [paused : BOOLEAN, fee : schedule.Values \cup {0}, size : schedule.Values \cup {0}]

PhasesTyped ==
    /\ DOMAIN s1 \subseteq Phases!OperationIds /\ DOMAIN s2 \subseteq Phases!ProposalIds
    /\ \A id \in DOMAIN s1 :
          s1[id] \in [eta : Int, executed : BOOLEAN, cancelled : BOOLEAN]
    /\ \A id \in DOMAIN s2 : s2[id] \in [approvals : SUBSET schedule.Guardians, executed : BOOLEAN]
    /\ s5 \in SettingsType
    /\ s3 \in Seq(Phases!Event) /\ s4 \in Phases!Phases /\ s6 \in schedule.Moments

PhasesInv ==
    /\ PhasesTyped
    /\ \A id \in DOMAIN s1 : OperationTold(id, s1[id], s3)
    /\ \A id \in DOMAIN s2 : ProposalTold(id, s2[id], s3)
    /\ SizeTold(s5.size, s3)

\* What one more event does to each way of reading the log.
LEMMA OneMoreEvent ==
    ASSUME NEW S, NEW L \in Seq(S), NEW e \in S
    PROVE  LET M == Append(L, e)
           IN  /\ M \in Seq(S) /\ Len(L) \in Nat /\ Len(M) = Len(L) + 1
               /\ DOMAIN L = 1..Len(L) /\ DOMAIN M = 1..Len(L) + 1
               /\ M[Len(L) + 1] = e /\ \A j \in 1..Len(L) : M[j] = L[j]
OBVIOUS

LEMMA LatestMoves ==
    ASSUME NEW S, NEW L \in Seq(S), NEW e \in S, NEW id, NEW kind
    PROVE  /\ e.about = id => (Latest(Append(L, e), id, kind) <=> e.kind = kind)
           /\ e.about # id => (Latest(Append(L, e), id, kind) <=> Latest(L, id, kind))
<1> DEFINE M == Append(L, e)
           n == Len(L)
<1>1. /\ n \in Nat /\ Len(M) = n + 1 /\ DOMAIN L = 1..n /\ DOMAIN M = 1..n + 1
      /\ M[n + 1] = e /\ \A j \in 1..n : M[j] = L[j]
  BY OneMoreEvent
<1> HIDE DEF M, n
<1>2. ASSUME e.about = id PROVE Latest(M, id, kind) <=> e.kind = kind
  <2>1. ASSUME Latest(M, id, kind) PROVE e.kind = kind
    <3>1. PICK i \in 1..n + 1 : /\ M[i].about = id /\ M[i].kind = kind
                                /\ \A j \in i + 1..n + 1 : M[j].about # id
      BY <1>1, <2>1 DEF Latest
    <3>2. i = n + 1
      BY <1>1, <1>2, <3>1
    <3> QED BY <1>1, <3>1, <3>2
  <2>2. ASSUME e.kind = kind PROVE Latest(M, id, kind)
    <3>1. n + 1 \in DOMAIN M /\ \A j \in (n + 1) + 1..Len(M) : FALSE
      BY <1>1
    <3> QED BY <1>1, <1>2, <2>2, <3>1 DEF Latest
  <2> QED BY <2>1, <2>2
<1>3. ASSUME e.about # id PROVE Latest(M, id, kind) <=> Latest(L, id, kind)
  <2>1. ASSUME Latest(M, id, kind) PROVE Latest(L, id, kind)
    <3>1. PICK i \in 1..n + 1 : /\ M[i].about = id /\ M[i].kind = kind
                                /\ \A j \in i + 1..n + 1 : M[j].about # id
      BY <1>1, <2>1 DEF Latest
    <3>2. i \in 1..n
      BY <1>1, <1>3, <3>1
    <3>3. L[i].about = id /\ L[i].kind = kind /\ \A j \in i + 1..n : L[j].about # id
      BY <1>1, <3>1, <3>2
    <3> QED BY <1>1, <3>2, <3>3 DEF Latest, n
  <2>2. ASSUME Latest(L, id, kind) PROVE Latest(M, id, kind)
    <3>1. PICK i \in 1..n : /\ L[i].about = id /\ L[i].kind = kind
                            /\ \A j \in i + 1..n : L[j].about # id
      BY <1>1, <2>2 DEF Latest, n
    <3>2. M[i].about = id /\ M[i].kind = kind /\ \A j \in i + 1..n + 1 : M[j].about # id
      BY <1>1, <1>3, <3>1
    <3>3. i \in DOMAIN M
      BY <1>1
    <3> QED BY <1>1, <3>2, <3>3 DEF Latest
  <2> QED BY <2>1, <2>2
<1> QED BY <1>2, <1>3 DEF M

LEMMA LastOfMoves ==
    ASSUME NEW S, NEW L \in Seq(S), NEW e \in S, NEW id, NEW kind
    PROVE  /\ e.about = id /\ e.kind = kind => LastOf(Append(L, e), Len(L) + 1, id, kind)
           /\ ~(e.about = id /\ e.kind = kind) =>
                 \A i : LastOf(L, i, id, kind) => LastOf(Append(L, e), i, id, kind)
<1> DEFINE M == Append(L, e)
           n == Len(L)
<1>1. /\ n \in Nat /\ Len(M) = n + 1 /\ DOMAIN L = 1..n /\ DOMAIN M = 1..n + 1
      /\ M[n + 1] = e /\ \A j \in 1..n : M[j] = L[j]
  BY OneMoreEvent
<1> HIDE DEF M, n
<1>2. ASSUME e.about = id, e.kind = kind PROVE LastOf(M, n + 1, id, kind)
  <2>1. n + 1 \in DOMAIN M /\ \A j \in (n + 1) + 1..Len(M) : FALSE
    BY <1>1
  <2> QED BY <1>1, <1>2, <2>1 DEF LastOf
<1>3. ASSUME ~(e.about = id /\ e.kind = kind), NEW i, LastOf(L, i, id, kind)
      PROVE  LastOf(M, i, id, kind)
  <2>1. /\ i \in 1..n /\ L[i].about = id /\ L[i].kind = kind
        /\ \A j \in i + 1..n : L[j].about = id => L[j].kind # kind
    BY <1>1, <1>3 DEF LastOf, n
  <2>2. /\ i \in 1..n + 1 /\ M[i].about = id /\ M[i].kind = kind
        /\ \A j \in i + 1..n + 1 : M[j].about = id => M[j].kind # kind
    BY <1>1, <1>3, <2>1
  <2> QED BY <1>1, <2>2 DEF LastOf
<1> QED BY <1>2, <1>3 DEF M, n

LEMMA ApproversMove ==
    ASSUME NEW S, NEW L \in Seq(S), NEW e \in S, NEW id, NEW i \in 1..Len(L)
    PROVE  ApprovedFrom(Append(L, e), i, id) =
               ApprovedFrom(L, i, id) \cup
               (IF e.about = id /\ e.kind \in {"Created", "Approved"} THEN {e.who} ELSE {})
<1> DEFINE M == Append(L, e)
           n == Len(L)
           Says(x) == x.about = id /\ x.kind \in {"Created", "Approved"}
           J == {j \in i..n : Says(L[j])}
           K == {j \in i..n + 1 : Says(M[j])}
<1>1. /\ n \in Nat /\ Len(M) = n + 1 /\ M[n + 1] = e /\ \A j \in 1..n : M[j] = L[j]
  BY OneMoreEvent
<1>2. ApprovedFrom(M, i, id) = {M[k].who : k \in K} /\ ApprovedFrom(L, i, id) = {L[k].who : k \in J}
  BY <1>1 DEF ApprovedFrom
<1>3. i \in 1..n
  OBVIOUS
<1> HIDE DEF M, n, Says
<1>4. K = J \cup (IF Says(e) THEN {n + 1} ELSE {})
  <2>1. ASSUME NEW j \in i..n + 1 PROVE j \in K <=> j \in J \/ (Says(e) /\ j = n + 1)
    <3>1. CASE j = n + 1
      BY <1>1, <1>3, <3>1
    <3>2. CASE j # n + 1
      <4>1. j \in i..n /\ j \in 1..n
        BY <1>1, <1>3, <3>2
      <4> QED BY <1>1, <3>2, <4>1
    <3> QED BY <3>1, <3>2
  <2>2. K \subseteq i..n + 1 /\ J \subseteq i..n + 1 /\ n + 1 \in i..n + 1
    BY <1>1, <1>3
  <2> HIDE DEF K, J
  <2>3. CASE Says(e)
    BY <2>1, <2>2, <2>3
  <2>4. CASE ~Says(e)
    BY <2>1, <2>2, <2>4
  <2> QED BY <2>3, <2>4
<1>5. J \subseteq 1..n
  BY <1>1, <1>3
<1> HIDE DEF K, J
<1>6. {M[k].who : k \in J} = {L[k].who : k \in J}
  BY <1>1, <1>5
<1>7. CASE Says(e)
  <2>1. {M[k].who : k \in K} = {M[k].who : k \in J} \cup {M[n + 1].who}
    BY <1>4, <1>7
  <2> QED BY <1>1, <1>2, <1>6, <1>7, <2>1 DEF M, Says
<1>8. CASE ~Says(e)
  BY <1>2, <1>4, <1>6, <1>8 DEF M, Says
<1> QED BY <1>7, <1>8

\* An event about something else leaves an operation and a proposal as they were told.
LEMMA OperationKept ==
    ASSUME NEW S, NEW L \in Seq(S), NEW e \in S, NEW id, e.about # id, NEW x,
           OperationTold(id, x, L)
    PROVE  OperationTold(id, x, Append(L, e))
<1> DEFINE M == Append(L, e)
<1>1. \A j \in DOMAIN L : M[j] = L[j]
  BY OneMoreEvent
<1>2. \A k : Latest(M, id, k) <=> Latest(L, id, k)
  BY LatestMoves
<1>3. \A i, k : LastOf(L, i, id, k) => LastOf(M, i, id, k) /\ M[i] = L[i]
  <2>1. \A i, k : LastOf(L, i, id, k) => i \in DOMAIN L
    BY DEF LastOf
  <2> QED BY <1>1, <2>1, LastOfMoves
<1> HIDE DEF M
<1>4. \E i : LastOf(M, i, id, "Queued") /\ x.eta = M[i].at + schedule.Delay
  BY <1>3 DEF OperationTold
<1>5. x.executed => \E i : LastOf(M, i, id, "OperationExecuted") /\ M[i].at >= x.eta
  BY <1>3 DEF OperationTold
<1>6. (x.executed <=> Latest(M, id, "OperationExecuted")) /\ (x.cancelled <=> Latest(M, id, "Cancelled"))
  BY <1>2 DEF OperationTold
<1> QED BY <1>4, <1>5, <1>6 DEF OperationTold, M

LEMMA ProposalKept ==
    ASSUME NEW S, NEW L \in Seq(S), NEW e \in S, NEW id, e.about # id, NEW x,
           ProposalTold(id, x, L)
    PROVE  ProposalTold(id, x, Append(L, e))
<1> DEFINE M == Append(L, e)
<1>1. \A k : Latest(M, id, k) <=> Latest(L, id, k)
  BY LatestMoves
<1>2. PICK i : LastOf(L, i, id, "Created") /\ x.approvals = ApprovedFrom(L, i, id)
  BY DEF ProposalTold
<1>3. LastOf(M, i, id, "Created")
  BY <1>2, LastOfMoves
<1>4. i \in 1..Len(L)
  BY <1>2 DEF LastOf
<1>5. ApprovedFrom(M, i, id) = ApprovedFrom(L, i, id)
  <2> DEFINE made == e.about = id /\ e.kind \in {"Created", "Approved"}
  <2>1. ApprovedFrom(M, i, id) = ApprovedFrom(L, i, id) \cup (IF made THEN {e.who} ELSE {})
    BY <1>4, ApproversMove
  <2>2. ~made
    OBVIOUS
  <2> HIDE DEF made
  <2> QED BY <2>1, <2>2
<1> HIDE DEF M
<1>6. \E k : LastOf(M, k, id, "Created") /\ x.approvals = ApprovedFrom(M, k, id)
  BY <1>2, <1>3, <1>5
<1>7. (x.executed <=> Latest(M, id, "ProposalExecuted")) /\ (x.executed => Phases!Cardinality(x.approvals) >= schedule.Threshold)
  BY <1>1 DEF ProposalTold
<1> QED BY <1>6, <1>7 DEF ProposalTold, M

\* Only a proposal that runs says a new largest trade.
LEMMA SizeMoves ==
    ASSUME NEW S, NEW L \in Seq(S), NEW e \in S, NEW size
    PROVE  /\ e.kind = "ProposalExecuted" /\ size = e.about[2] => SizeTold(size, Append(L, e))
           /\ e.kind # "ProposalExecuted" /\ SizeTold(size, L) => SizeTold(size, Append(L, e))
<1> DEFINE M == Append(L, e)
           n == Len(L)
<1>1. /\ n \in Nat /\ Len(M) = n + 1 /\ DOMAIN L = 1..n /\ DOMAIN M = 1..n + 1
      /\ M[n + 1] = e /\ \A j \in 1..n : M[j] = L[j]
  BY OneMoreEvent
<1> HIDE DEF M, n
<1>2. ASSUME e.kind = "ProposalExecuted", size = e.about[2] PROVE SizeTold(size, M)
  <2>1. n + 1 \in DOMAIN M /\ \A j \in (n + 1) + 1..Len(M) : FALSE
    BY <1>1
  <2> QED BY <1>1, <1>2, <2>1 DEF SizeTold
<1>3. ASSUME e.kind # "ProposalExecuted", SizeTold(size, L) PROVE SizeTold(size, M)
  <2>1. CASE size = 0 /\ \A i \in DOMAIN L : L[i].kind # "ProposalExecuted"
    <3>1. \A i \in DOMAIN M : M[i].kind # "ProposalExecuted"
      BY <1>1, <1>3, <2>1
    <3> QED BY <2>1, <3>1 DEF SizeTold
  <2>2. CASE \E i \in DOMAIN L :
          /\ L[i].kind = "ProposalExecuted" /\ size = L[i].about[2]
          /\ \A j \in i + 1..Len(L) : L[j].kind # "ProposalExecuted"
    <3>1. PICK i \in 1..n :
          /\ L[i].kind = "ProposalExecuted" /\ size = L[i].about[2]
          /\ \A j \in i + 1..n : L[j].kind # "ProposalExecuted"
      BY <1>1, <2>2 DEF n
    <3>2. /\ i \in DOMAIN M /\ M[i].kind = "ProposalExecuted" /\ size = M[i].about[2]
          /\ \A j \in i + 1..n + 1 : M[j].kind # "ProposalExecuted"
      BY <1>1, <1>3, <3>1
    <3> QED BY <1>1, <3>2 DEF SizeTold
  <2> QED BY <1>3, <2>1, <2>2 DEF SizeTold
<1> QED BY <1>2, <1>3 DEF M

\* The calls that are logged: the event is one, and it tells the others nothing.
LEMMA CallLogged ==
    ASSUME PhasesInv, NEW kind \in Phases!Kinds, NEW about \in Phases!Subjects,
           NEW who \in schedule.Guardians \cup Phases!Phases \cup {Phases!Nobody},
           Phases!Record(kind, about, who)
    PROVE  \E e \in Phases!Event :
               /\ s3' = Append(s3, e) /\ s3' \in Seq(Phases!Event)
               /\ e.kind = kind /\ e.about = about /\ e.who = who /\ e.at = s6
               /\ \A id \in DOMAIN s1 : id # about => OperationTold(id, s1[id], s3')
               /\ \A id \in DOMAIN s2 : id # about => ProposalTold(id, s2[id], s3')
               /\ kind # "ProposalExecuted" => SizeTold(s5.size, s3')
<1> DEFINE e == Phases!Logged(kind, about, who)
<1>1. s3 \in Seq(Phases!Event) /\ s6 \in schedule.Moments
  BY DEF PhasesInv, PhasesTyped
<1>2. e \in Phases!Event /\ e.kind = kind /\ e.about = about /\ e.who = who /\ e.at = s6
  BY <1>1 DEF Phases!Event, Phases!Logged
<1>3. s3' = Append(s3, e)
  BY DEF Phases!Record
<1> HIDE DEF e
<1>4. s3' \in Seq(Phases!Event)
  BY <1>1, <1>2, <1>3, OneMoreEvent
<1>5. \A id \in DOMAIN s1 : id # about => OperationTold(id, s1[id], s3')
  BY <1>1, <1>2, <1>3, OperationKept DEF PhasesInv
<1>6. \A id \in DOMAIN s2 : id # about => ProposalTold(id, s2[id], s3')
  BY <1>1, <1>2, <1>3, ProposalKept DEF PhasesInv
<1>7. kind # "ProposalExecuted" => SizeTold(s5.size, s3')
  BY <1>1, <1>2, <1>3, SizeMoves DEF PhasesInv
<1> QED BY <1>2, <1>3, <1>4, <1>5, <1>6, <1>7

\* What is queued, what is proposed, and the rest are different subjects.
LEMMA SubjectsDiffer ==
    /\ \A a \in Phases!OperationIds, b \in Phases!ProposalIds : a # b
    /\ \A a \in Phases!OperationIds \cup Phases!ProposalIds : \A x : a # <<x>>
    /\ Phases!OperationIds \subseteq Phases!Subjects /\ Phases!ProposalIds \subseteq Phases!Subjects
    /\ \A g \in schedule.Guardians \cup Phases!Phases : <<g>> \in Phases!Subjects
<1>1. \A a \in Phases!OperationIds : \E c, m : a = <<c, m>>
  BY DEF Phases!OperationIds
<1>2. \A b \in Phases!ProposalIds : \E g, c, m : b = <<g, c, m>>
  BY DEF Phases!ProposalIds
<1>3. \A c, m, g, d, n : <<c, m>> # <<g, d, n>>
  <2> SUFFICES ASSUME NEW c, NEW m, NEW g, NEW d, NEW n PROVE <<c, m>> # <<g, d, n>>
    OBVIOUS
  <2>1. DOMAIN <<c, m>> = 1..2 /\ DOMAIN <<g, d, n>> = 1..3
    OBVIOUS
  <2> QED BY <2>1
<1>4. \A c, m, x : <<c, m>> # <<x>>
  <2> SUFFICES ASSUME NEW c, NEW m, NEW x PROVE <<c, m>> # <<x>>
    OBVIOUS
  <2>1. DOMAIN <<c, m>> = 1..2 /\ DOMAIN <<x>> = 1..1
    OBVIOUS
  <2> QED BY <2>1
<1>5. \A g, c, m, x : <<g, c, m>> # <<x>>
  <2> SUFFICES ASSUME NEW g, NEW c, NEW m, NEW x PROVE <<g, c, m>> # <<x>>
    OBVIOUS
  <2>1. DOMAIN <<g, c, m>> = 1..3 /\ DOMAIN <<x>> = 1..1
    OBVIOUS
  <2> QED BY <2>1
<1>6. \A a \in Phases!OperationIds, b \in Phases!ProposalIds : a # b
  BY <1>1, <1>2, <1>3
<1>7. \A a \in Phases!OperationIds \cup Phases!ProposalIds : \A x : a # <<x>>
  BY <1>1, <1>2, <1>4, <1>5
<1>8. Phases!OperationIds \subseteq Phases!Subjects /\ Phases!ProposalIds \subseteq Phases!Subjects
  BY DEF Phases!Subjects
<1>9. \A g \in schedule.Guardians \cup Phases!Phases : <<g>> \in Phases!Subjects
  BY DEF Phases!Subjects
<1> QED BY <1>6, <1>7, <1>8, <1>9

\* The calls of the schedule.
LEMMA PhasesBegin ==
    ASSUME Phases!Init
    PROVE  PhasesInv
<1> DEFINE a == [kind |-> "ScheduleVerified", about |-> <<>>, who |-> Phases!Nobody, at |-> 0]
           b == [kind |-> "PhaseTransition", about |-> <<"FullAdmin">>, who |-> "FullAdmin", at |-> 0]
<1>1. /\ s1 = <<>> /\ s2 = <<>> /\ s3 = <<a, b>> /\ s4 = "FullAdmin" /\ s6 = 0
      /\ s5 = [paused |-> FALSE, fee |-> 0, size |-> 0]
  BY DEF Phases!Init
<1>2. 0 \in schedule.Moments
  BY CoreAssumption DEF Phases!DecentralizationAssumption
<1>3. a \in Phases!Event /\ b \in Phases!Event
  <2>1. <<>> \in Phases!Subjects /\ <<"FullAdmin">> \in Phases!Subjects
    <3>1. "FullAdmin" \in Phases!Phases
      BY DEF Phases!Phases
    <3> QED BY <3>1, SubjectsDiffer DEF Phases!Subjects
  <2>2. {"ScheduleVerified", "PhaseTransition"} \subseteq Phases!Kinds /\ "FullAdmin" \in Phases!Phases
    BY DEF Phases!Kinds, Phases!Phases
  <2> QED BY <1>2, <2>1, <2>2 DEF Phases!Event
<1>4. SizeTold(0, s3)
  BY <1>1 DEF SizeTold
<1> HIDE DEF a, b
<1>5. s3 \in Seq(Phases!Event)
  BY <1>1, <1>3
<1>6. s5 \in SettingsType
  BY <1>1 DEF SettingsType
<1>7. PhasesTyped
  BY <1>1, <1>2, <1>5, <1>6 DEF PhasesTyped, Phases!Phases
<1>8. s5.size = 0
  BY <1>1
<1> QED BY <1>1, <1>4, <1>7, <1>8 DEF PhasesInv

\* Calls that write nothing to the log and touch no operation or proposal.
LEMMA QuietCalls ==
    ASSUME PhasesInv, UNCHANGED <<s1, s2, s3, s4>>, s6' \in schedule.Moments,
           s5' \in SettingsType, s5'.size = s5.size
    PROVE  PhasesInv'
<1>1. PhasesTyped'
  BY DEF PhasesInv, PhasesTyped, SettingsType
<1> QED BY <1>1 DEF PhasesInv

LEMMA PhaseOf ==
    ASSUME NEW m PROVE Phases!PhaseAt(m) \in Phases!Phases
BY DEF Phases!PhaseAt, Phases!Phases

LEMMA TicksTold ==
    ASSUME PhasesInv, Phases!TickPhase
    PROVE  PhasesInv'
<1> DEFINE p == Phases!PhaseAt(s6)
<1>1. /\ Phases!Record("PhaseTransition", <<p>>, s4) /\ s4' = p
      /\ UNCHANGED <<s1, s2, s5, s6>>
  BY DEF Phases!TickPhase
<1>2. p \in Phases!Phases /\ s4 \in Phases!Phases
  BY PhaseOf DEF PhasesInv, PhasesTyped
<1> HIDE DEF p
<1>3. <<p>> \in Phases!Subjects
  BY <1>2, SubjectsDiffer
<1>4. /\ s3' \in Seq(Phases!Event) /\ SizeTold(s5.size, s3')
      /\ \A id \in DOMAIN s1 : id # <<p>> => OperationTold(id, s1[id], s3')
      /\ \A id \in DOMAIN s2 : id # <<p>> => ProposalTold(id, s2[id], s3')
  <2>1. "PhaseTransition" \in Phases!Kinds
    BY DEF Phases!Kinds
  <2> QED BY <1>1, <1>2, <1>3, <2>1, CallLogged
<1>5. PhasesTyped'
  BY <1>1, <1>2, <1>4 DEF PhasesInv, PhasesTyped, SettingsType
<1>6. \A id \in DOMAIN s1 \cup DOMAIN s2 : id # <<p>>
  BY SubjectsDiffer DEF PhasesInv, PhasesTyped
<1> QED BY <1>1, <1>4, <1>5, <1>6 DEF PhasesInv

LEMMA OverridesTold ==
    ASSUME PhasesInv, NEW g \in schedule.Guardians, Phases!GuardianOverride(g)
    PROVE  PhasesInv'
<1>1. Phases!Record("Override", <<g>>, g) /\ UNCHANGED <<s1, s2, s4, s5, s6>>
  BY DEF Phases!GuardianOverride
<1>2. <<g>> \in Phases!Subjects
  BY SubjectsDiffer
<1>3. /\ s3' \in Seq(Phases!Event) /\ SizeTold(s5.size, s3')
      /\ \A id \in DOMAIN s1 : id # <<g>> => OperationTold(id, s1[id], s3')
      /\ \A id \in DOMAIN s2 : id # <<g>> => ProposalTold(id, s2[id], s3')
  <2>1. "Override" \in Phases!Kinds
    BY DEF Phases!Kinds
  <2> QED BY <1>1, <1>2, <2>1, CallLogged
<1>4. PhasesTyped'
  BY <1>1, <1>3 DEF PhasesInv, PhasesTyped, SettingsType
<1>5. \A id \in DOMAIN s1 \cup DOMAIN s2 : id # <<g>>
  BY SubjectsDiffer DEF PhasesInv, PhasesTyped
<1> QED BY <1>1, <1>3, <1>4, <1>5 DEF PhasesInv

LEMMA QueueTold ==
    ASSUME PhasesInv, NEW c \in schedule.Values, Phases!QueueOperation(c)
    PROVE  PhasesInv'
<1> DEFINE q == <<c, s6>>
           x == [eta |-> s6 + schedule.Delay, executed |-> FALSE, cancelled |-> FALSE]
<1>1. /\ s1' = [id \in DOMAIN s1 \cup {q} |-> IF id = q THEN x ELSE s1[id]]
      /\ Phases!Record("Queued", q, Phases!Nobody) /\ UNCHANGED <<s2, s4, s5, s6>>
  BY DEF Phases!QueueOperation
<1>2. q \in Phases!OperationIds
  BY DEF PhasesInv, PhasesTyped, Phases!OperationIds
<1>3. q \in Phases!Subjects
  BY <1>2, SubjectsDiffer
<1> HIDE DEF q
<1>4. PICK e \in Phases!Event :
      /\ s3' = Append(s3, e) /\ s3' \in Seq(Phases!Event)
      /\ e.kind = "Queued" /\ e.about = q /\ e.at = s6 /\ SizeTold(s5.size, s3')
      /\ \A id \in DOMAIN s1 : id # q => OperationTold(id, s1[id], s3')
      /\ \A id \in DOMAIN s2 : id # q => ProposalTold(id, s2[id], s3')
  <2>1. "Queued" \in Phases!Kinds
    BY DEF Phases!Kinds
  <2> QED BY <1>1, <1>3, <2>1, CallLogged
<1>5. s6 \in Int /\ schedule.Delay \in Int
  BY CoreAssumption DEF PhasesInv, PhasesTyped, Phases!DecentralizationAssumption
<1>6. x \in [eta : Int, executed : BOOLEAN, cancelled : BOOLEAN]
  BY <1>5
<1>7. OperationTold(q, x, s3')
  <2>1. s3 \in Seq(Phases!Event)
    BY DEF PhasesInv, PhasesTyped
  <2>2. ~Latest(s3', q, "OperationExecuted") /\ ~Latest(s3', q, "Cancelled")
    BY <1>4, <2>1, LatestMoves
  <2>3. LastOf(s3', Len(s3) + 1, q, "Queued") /\ s3'[Len(s3) + 1] = e
    BY <1>4, <2>1, LastOfMoves, OneMoreEvent
  <2>4. \E i : LastOf(s3', i, q, "Queued") /\ x.eta = s3'[i].at + schedule.Delay
    BY <1>4, <2>3
  <2> QED BY <2>2, <2>4 DEF OperationTold
<1> HIDE DEF x
<1>8. DOMAIN s1' = DOMAIN s1 \cup {q} /\ s1'[q] = x /\ \A id \in DOMAIN s1 : id # q => s1'[id] = s1[id]
  BY <1>1
<1>9. PhasesTyped'
  <2>1. \A id \in DOMAIN s1' : s1'[id] \in [eta : Int, executed : BOOLEAN, cancelled : BOOLEAN]
    BY <1>6, <1>8 DEF PhasesInv, PhasesTyped
  <2>2. DOMAIN s1' \subseteq Phases!OperationIds
    BY <1>2, <1>8 DEF PhasesInv, PhasesTyped
  <2> QED BY <1>1, <1>4, <2>1, <2>2 DEF PhasesInv, PhasesTyped, SettingsType
<1>10. \A id \in DOMAIN s1' : OperationTold(id, s1'[id], s3')
  BY <1>4, <1>7, <1>8
<1>11. \A id \in DOMAIN s2 : id # q
  BY <1>2, SubjectsDiffer DEF PhasesInv, PhasesTyped
<1> QED BY <1>1, <1>4, <1>9, <1>10, <1>11 DEF PhasesInv

\* A change of one operation.
LEMMA OperationChanges ==
    ASSUME PhasesInv, NEW id \in DOMAIN s1, NEW x,
           s1' = [s1 EXCEPT ![id] = x], UNCHANGED <<s2, s4, s6>>,
           x \in [eta : Int, executed : BOOLEAN, cancelled : BOOLEAN],
           s5' \in SettingsType, SizeTold(s5'.size, s3'), s3' \in Seq(Phases!Event),
           OperationTold(id, x, s3'),
           \A o \in DOMAIN s1 : o # id => OperationTold(o, s1[o], s3'),
           \A o \in DOMAIN s2 : o # id => ProposalTold(o, s2[o], s3')
    PROVE  PhasesInv'
<1>1. DOMAIN s1' = DOMAIN s1 /\ s1'[id] = x /\ \A o \in DOMAIN s1 : o # id => s1'[o] = s1[o]
  OBVIOUS
<1>2. PhasesTyped'
  BY <1>1 DEF PhasesInv, PhasesTyped, SettingsType
<1>3. \A o \in DOMAIN s1' : OperationTold(o, s1'[o], s3')
  BY <1>1
<1>4. \A o \in DOMAIN s2 : o # id
  BY SubjectsDiffer DEF PhasesInv, PhasesTyped
<1> QED BY <1>2, <1>3, <1>4 DEF PhasesInv

LEMMA AnOperation ==
    ASSUME PhasesInv, NEW id \in DOMAIN s1
    PROVE  /\ id \in Phases!OperationIds /\ id \in Phases!Subjects /\ id[1] \in schedule.Values
           /\ s1[id] \in [eta : Int, executed : BOOLEAN, cancelled : BOOLEAN]
           /\ OperationTold(id, s1[id], s3) /\ s3 \in Seq(Phases!Event)
           /\ s5 \in SettingsType /\ s6 \in Nat
<1>1. id \in Phases!OperationIds
  BY DEF PhasesInv, PhasesTyped
<1>2. id \in Phases!Subjects
  BY <1>1, SubjectsDiffer
<1>3. id[1] \in schedule.Values
  BY <1>1 DEF Phases!OperationIds
<1>4. s6 \in Nat
  BY CoreAssumption DEF PhasesInv, PhasesTyped, Phases!DecentralizationAssumption
<1> QED BY <1>1, <1>2, <1>3, <1>4 DEF PhasesInv, PhasesTyped

LEMMA ExecuteTold ==
    ASSUME PhasesInv, NEW id \in DOMAIN s1, Phases!ExecuteOperation(id)
    PROVE  PhasesInv'
<1> DEFINE x == [s1[id] EXCEPT !.executed = TRUE]
<1>1. /\ ~s1[id].executed /\ ~s1[id].cancelled /\ s6 >= s1[id].eta
      /\ s1' = [s1 EXCEPT ![id] = x] /\ s5' = [s5 EXCEPT !.fee = id[1]]
      /\ Phases!Record("OperationExecuted", id, Phases!Nobody) /\ UNCHANGED <<s2, s4, s6>>
  BY DEF Phases!ExecuteOperation
<1>2. /\ id \in Phases!Subjects /\ id[1] \in schedule.Values /\ s5 \in SettingsType /\ s6 \in Nat
      /\ s1[id] \in [eta : Int, executed : BOOLEAN, cancelled : BOOLEAN]
      /\ OperationTold(id, s1[id], s3) /\ s3 \in Seq(Phases!Event)
  BY AnOperation
<1>3. PICK e \in Phases!Event :
      /\ s3' = Append(s3, e) /\ s3' \in Seq(Phases!Event)
      /\ e.kind = "OperationExecuted" /\ e.about = id /\ e.at = s6 /\ SizeTold(s5.size, s3')
      /\ \A o \in DOMAIN s1 : o # id => OperationTold(o, s1[o], s3')
      /\ \A o \in DOMAIN s2 : o # id => ProposalTold(o, s2[o], s3')
  <2>1. "OperationExecuted" \in Phases!Kinds
    BY DEF Phases!Kinds
  <2> QED BY <1>1, <1>2, <2>1, CallLogged
<1>4. /\ x \in [eta : Int, executed : BOOLEAN, cancelled : BOOLEAN]
      /\ x.executed /\ x.cancelled = s1[id].cancelled /\ x.eta = s1[id].eta
  BY <1>2
<1> HIDE DEF x
<1>5. OperationTold(id, x, s3')
  <2>1. Latest(s3', id, "OperationExecuted") /\ ~Latest(s3', id, "Cancelled")
    BY <1>2, <1>3, LatestMoves
  <2>2. LastOf(s3', Len(s3) + 1, id, "OperationExecuted") /\ s3'[Len(s3) + 1] = e
    BY <1>2, <1>3, LastOfMoves, OneMoreEvent
  <2>3. PICK i : LastOf(s3, i, id, "Queued") /\ s1[id].eta = s3[i].at + schedule.Delay
    BY <1>2 DEF OperationTold
  <2>4. LastOf(s3', i, id, "Queued") /\ s3'[i] = s3[i]
    <3>1. i \in DOMAIN s3
      BY <2>3 DEF LastOf
    <3> QED BY <1>2, <1>3, <2>3, <3>1, LastOfMoves, OneMoreEvent
  <2>5. \E k : LastOf(s3', k, id, "OperationExecuted") /\ s3'[k].at >= x.eta
    BY <1>1, <1>3, <1>4, <2>2
  <2>6. \E k : LastOf(s3', k, id, "Queued") /\ x.eta = s3'[k].at + schedule.Delay
    BY <1>4, <2>3, <2>4
  <2> QED BY <1>1, <1>4, <2>1, <2>5, <2>6 DEF OperationTold
<1>6. s5' \in SettingsType /\ s5'.size = s5.size
  BY <1>1, <1>2 DEF SettingsType
<1> QED BY <1>1, <1>3, <1>4, <1>5, <1>6, OperationChanges

LEMMA CancelTold ==
    ASSUME PhasesInv, NEW id \in DOMAIN s1, Phases!CancelOperation(id)
    PROVE  PhasesInv'
<1> DEFINE x == [s1[id] EXCEPT !.cancelled = TRUE]
<1>1. /\ ~s1[id].executed /\ s1' = [s1 EXCEPT ![id] = x]
      /\ Phases!Record("Cancelled", id, Phases!Nobody) /\ UNCHANGED <<s2, s4, s5, s6>>
  BY DEF Phases!CancelOperation
<1>2. /\ id \in Phases!Subjects /\ s5 \in SettingsType
      /\ s1[id] \in [eta : Int, executed : BOOLEAN, cancelled : BOOLEAN]
      /\ OperationTold(id, s1[id], s3) /\ s3 \in Seq(Phases!Event)
  BY AnOperation
<1>3. PICK e \in Phases!Event :
      /\ s3' = Append(s3, e) /\ s3' \in Seq(Phases!Event)
      /\ e.kind = "Cancelled" /\ e.about = id /\ e.at = s6 /\ SizeTold(s5.size, s3')
      /\ \A o \in DOMAIN s1 : o # id => OperationTold(o, s1[o], s3')
      /\ \A o \in DOMAIN s2 : o # id => ProposalTold(o, s2[o], s3')
  <2>1. "Cancelled" \in Phases!Kinds
    BY DEF Phases!Kinds
  <2> QED BY <1>1, <1>2, <2>1, CallLogged
<1>4. /\ x \in [eta : Int, executed : BOOLEAN, cancelled : BOOLEAN]
      /\ x.executed = s1[id].executed /\ x.cancelled /\ x.eta = s1[id].eta
  BY <1>2
<1> HIDE DEF x
<1>5. OperationTold(id, x, s3')
  <2>1. ~Latest(s3', id, "OperationExecuted") /\ Latest(s3', id, "Cancelled")
    BY <1>2, <1>3, LatestMoves
  <2>2. PICK i : LastOf(s3, i, id, "Queued") /\ s1[id].eta = s3[i].at + schedule.Delay
    BY <1>2 DEF OperationTold
  <2>3. LastOf(s3', i, id, "Queued") /\ s3'[i] = s3[i]
    <3>1. i \in DOMAIN s3
      BY <2>2 DEF LastOf
    <3> QED BY <1>2, <1>3, <2>2, <3>1, LastOfMoves, OneMoreEvent
  <2>4. \E k : LastOf(s3', k, id, "Queued") /\ x.eta = s3'[k].at + schedule.Delay
    BY <1>4, <2>2, <2>3
  <2> QED BY <1>1, <1>4, <2>1, <2>4 DEF OperationTold
<1> QED BY <1>1, <1>2, <1>3, <1>4, <1>5, OperationChanges

\* A new proposal, or a change of one.
LEMMA ProposalChanges ==
    ASSUME PhasesInv, NEW id \in Phases!ProposalIds, NEW x,
           s2' = [o \in DOMAIN s2 \cup {id} |-> IF o = id THEN x ELSE s2[o]],
           UNCHANGED <<s1, s4, s6>>,
           x \in [approvals : SUBSET schedule.Guardians, executed : BOOLEAN],
           s5' \in SettingsType, SizeTold(s5'.size, s3'), s3' \in Seq(Phases!Event),
           ProposalTold(id, x, s3'),
           \A o \in DOMAIN s1 : o # id => OperationTold(o, s1[o], s3'),
           \A o \in DOMAIN s2 : o # id => ProposalTold(o, s2[o], s3')
    PROVE  PhasesInv'
<1>1. /\ DOMAIN s2' = DOMAIN s2 \cup {id} /\ s2'[id] = x
      /\ \A o \in DOMAIN s2 : o # id => s2'[o] = s2[o]
  OBVIOUS
<1>2. PhasesTyped'
  <2>1. \A o \in DOMAIN s2' : s2'[o] \in [approvals : SUBSET schedule.Guardians, executed : BOOLEAN]
    BY <1>1 DEF PhasesInv, PhasesTyped
  <2>2. DOMAIN s2' \subseteq Phases!ProposalIds
    BY <1>1 DEF PhasesInv, PhasesTyped
  <2> QED BY <2>1, <2>2 DEF PhasesInv, PhasesTyped, SettingsType
<1>3. \A o \in DOMAIN s2' : ProposalTold(o, s2'[o], s3')
  BY <1>1
<1>4. \A o \in DOMAIN s1 : o # id
  BY SubjectsDiffer DEF PhasesInv, PhasesTyped
<1> QED BY <1>2, <1>3, <1>4 DEF PhasesInv

LEMMA AProposal ==
    ASSUME PhasesInv, NEW id \in DOMAIN s2, NEW x, s2' = [s2 EXCEPT ![id] = x]
    PROVE  /\ id \in Phases!ProposalIds /\ id \in Phases!Subjects /\ id[2] \in schedule.Values
           /\ s2[id] \in [approvals : SUBSET schedule.Guardians, executed : BOOLEAN]
           /\ ProposalTold(id, s2[id], s3) /\ s3 \in Seq(Phases!Event) /\ s5 \in SettingsType
           /\ s2' = [o \in DOMAIN s2 \cup {id} |-> IF o = id THEN x ELSE s2[o]]
<1>1. id \in Phases!ProposalIds
  BY DEF PhasesInv, PhasesTyped
<1>2. id \in Phases!Subjects
  BY <1>1, SubjectsDiffer
<1>3. id[2] \in schedule.Values
  BY <1>1 DEF Phases!ProposalIds
<1>4. DOMAIN s2 \cup {id} = DOMAIN s2
  OBVIOUS
<1>5. s2' = [o \in DOMAIN s2 \cup {id} |-> IF o = id THEN x ELSE s2[o]]
  BY <1>4
<1> QED BY <1>1, <1>2, <1>3, <1>5 DEF PhasesInv, PhasesTyped

LEMMA ProposeTold ==
    ASSUME PhasesInv, NEW g \in schedule.Guardians, NEW c \in schedule.Values,
           Phases!ProposeMultisig(g, c)
    PROVE  PhasesInv'
<1> DEFINE id == <<g, c, s6>>
           x == [approvals |-> {g}, executed |-> FALSE]
<1>1. /\ s2' = [o \in DOMAIN s2 \cup {id} |-> IF o = id THEN x ELSE s2[o]]
      /\ Phases!Record("Created", id, g) /\ UNCHANGED <<s1, s4, s5, s6>>
  BY DEF Phases!ProposeMultisig
<1>2. id \in Phases!ProposalIds
  BY DEF PhasesInv, PhasesTyped, Phases!ProposalIds
<1>3. id \in Phases!Subjects
  BY <1>2, SubjectsDiffer
<1> HIDE DEF id
<1>4. PICK e \in Phases!Event :
      /\ s3' = Append(s3, e) /\ s3' \in Seq(Phases!Event)
      /\ e.kind = "Created" /\ e.about = id /\ e.who = g /\ SizeTold(s5.size, s3')
      /\ \A o \in DOMAIN s1 : o # id => OperationTold(o, s1[o], s3')
      /\ \A o \in DOMAIN s2 : o # id => ProposalTold(o, s2[o], s3')
  <2>1. "Created" \in Phases!Kinds
    BY DEF Phases!Kinds
  <2> QED BY <1>1, <1>3, <2>1, CallLogged
<1>5. s3 \in Seq(Phases!Event) /\ s5 \in SettingsType
  BY DEF PhasesInv, PhasesTyped
<1>6. x \in [approvals : SUBSET schedule.Guardians, executed : BOOLEAN]
  OBVIOUS
<1>7. ProposalTold(id, x, s3')
  <2> DEFINE n == Len(s3)
  <2>1. /\ n \in Nat /\ Len(s3') = n + 1 /\ s3'[n + 1] = e
    BY <1>4, <1>5, OneMoreEvent
  <2>2. LastOf(s3', n + 1, id, "Created") /\ ~Latest(s3', id, "ProposalExecuted")
    BY <1>4, <1>5, LastOfMoves, LatestMoves
  <2> HIDE DEF n
  <2>3. ApprovedFrom(s3', n + 1, id) = {g}
    <3> DEFINE K == {j \in n + 1..Len(s3') : s3'[j].about = id /\ s3'[j].kind \in {"Created", "Approved"}}
    <3>1. K = {n + 1}
      BY <1>4, <2>1
    <3>2. ApprovedFrom(s3', n + 1, id) = {s3'[k].who : k \in K}
      BY DEF ApprovedFrom
    <3> HIDE DEF K
    <3> QED BY <1>4, <2>1, <3>1, <3>2
  <2>4. ~x.executed /\ x.approvals = {g}
    OBVIOUS
  <2> HIDE DEF x
  <2> QED BY <2>2, <2>3, <2>4 DEF ProposalTold
<1> HIDE DEF x
<1> QED BY <1>1, <1>2, <1>4, <1>5, <1>6, <1>7, ProposalChanges

LEMMA ApproveTold ==
    ASSUME PhasesInv, NEW id \in DOMAIN s2, NEW g \in schedule.Guardians,
           Phases!ApproveMultisig(id, g)
    PROVE  PhasesInv'
<1> DEFINE x == [s2[id] EXCEPT !.approvals = @ \cup {g}]
<1>1. /\ ~s2[id].executed /\ s2' = [s2 EXCEPT ![id] = x]
      /\ Phases!Record("Approved", id, g) /\ UNCHANGED <<s1, s4, s5, s6>>
  BY DEF Phases!ApproveMultisig
<1>2. /\ id \in Phases!ProposalIds /\ id \in Phases!Subjects /\ s5 \in SettingsType
      /\ s2[id] \in [approvals : SUBSET schedule.Guardians, executed : BOOLEAN]
      /\ ProposalTold(id, s2[id], s3) /\ s3 \in Seq(Phases!Event)
      /\ s2' = [o \in DOMAIN s2 \cup {id} |-> IF o = id THEN x ELSE s2[o]]
  BY <1>1, AProposal
<1>3. PICK e \in Phases!Event :
      /\ s3' = Append(s3, e) /\ s3' \in Seq(Phases!Event)
      /\ e.kind = "Approved" /\ e.about = id /\ e.who = g /\ SizeTold(s5.size, s3')
      /\ \A o \in DOMAIN s1 : o # id => OperationTold(o, s1[o], s3')
      /\ \A o \in DOMAIN s2 : o # id => ProposalTold(o, s2[o], s3')
  <2>1. "Approved" \in Phases!Kinds
    BY DEF Phases!Kinds
  <2> QED BY <1>1, <1>2, <2>1, CallLogged
<1>4. /\ x \in [approvals : SUBSET schedule.Guardians, executed : BOOLEAN]
      /\ x.executed = s2[id].executed /\ x.approvals = s2[id].approvals \cup {g}
  BY <1>2
<1> HIDE DEF x
<1>5. ProposalTold(id, x, s3')
  <2>1. ~Latest(s3', id, "ProposalExecuted")
    BY <1>2, <1>3, LatestMoves
  <2>2. PICK i : LastOf(s3, i, id, "Created") /\ s2[id].approvals = ApprovedFrom(s3, i, id)
    BY <1>2 DEF ProposalTold
  <2>3. LastOf(s3', i, id, "Created") /\ i \in 1..Len(s3)
    <3>1. i \in DOMAIN s3 /\ DOMAIN s3 = 1..Len(s3)
      BY <1>2, <2>2 DEF LastOf
    <3> QED BY <1>2, <1>3, <2>2, <3>1, LastOfMoves
  <2>4. ApprovedFrom(s3', i, id) = ApprovedFrom(s3, i, id) \cup {g}
    <3>1. ApprovedFrom(s3', i, id) = ApprovedFrom(s3, i, id) \cup
              (IF e.about = id /\ e.kind \in {"Created", "Approved"} THEN {e.who} ELSE {})
      BY <1>2, <1>3, <2>3, ApproversMove
    <3> QED BY <1>3, <3>1
  <2> QED BY <1>1, <1>4, <2>1, <2>2, <2>3, <2>4 DEF ProposalTold
<1> QED BY <1>1, <1>2, <1>3, <1>4, <1>5, ProposalChanges

LEMMA ProposalRunTold ==
    ASSUME PhasesInv, NEW id \in DOMAIN s2, Phases!ExecuteMultisig(id)
    PROVE  PhasesInv'
<1> DEFINE x == [s2[id] EXCEPT !.executed = TRUE]
<1>1. /\ Phases!Cardinality(s2[id].approvals) >= schedule.Threshold
      /\ s2' = [s2 EXCEPT ![id] = x] /\ s5' = [s5 EXCEPT !.size = id[2]]
      /\ Phases!Record("ProposalExecuted", id, Phases!Nobody) /\ UNCHANGED <<s1, s4, s6>>
  <2>1. Phases!Cardinality(s2[id].approvals) >= schedule.Threshold
    BY DEF Phases!ExecuteMultisig
  <2>2. s2' = [s2 EXCEPT ![id] = x]
    BY DEF Phases!ExecuteMultisig
  <2>3. s5' = [s5 EXCEPT !.size = id[2]]
    BY DEF Phases!ExecuteMultisig
  <2>4. Phases!Record("ProposalExecuted", id, Phases!Nobody) /\ UNCHANGED <<s1, s4, s6>>
    BY DEF Phases!ExecuteMultisig
  <2> QED BY <2>1, <2>2, <2>3, <2>4
<1>2. /\ id \in Phases!ProposalIds /\ id \in Phases!Subjects /\ s5 \in SettingsType
      /\ s2[id] \in [approvals : SUBSET schedule.Guardians, executed : BOOLEAN]
      /\ ProposalTold(id, s2[id], s3) /\ s3 \in Seq(Phases!Event) /\ id[2] \in schedule.Values
      /\ s2' = [o \in DOMAIN s2 \cup {id} |-> IF o = id THEN x ELSE s2[o]]
  BY <1>1, AProposal
<1>3. PICK e \in Phases!Event :
      /\ s3' = Append(s3, e) /\ s3' \in Seq(Phases!Event)
      /\ e.kind = "ProposalExecuted" /\ e.about = id
      /\ \A o \in DOMAIN s1 : o # id => OperationTold(o, s1[o], s3')
      /\ \A o \in DOMAIN s2 : o # id => ProposalTold(o, s2[o], s3')
  <2>1. "ProposalExecuted" \in Phases!Kinds
    BY DEF Phases!Kinds
  <2> QED BY <1>1, <1>2, <2>1, CallLogged
<1>4. /\ x \in [approvals : SUBSET schedule.Guardians, executed : BOOLEAN]
      /\ x.executed /\ x.approvals = s2[id].approvals
  BY <1>2
<1> HIDE DEF x
<1>5. ProposalTold(id, x, s3')
  <2>1. Latest(s3', id, "ProposalExecuted")
    BY <1>2, <1>3, LatestMoves
  <2>2. PICK i : LastOf(s3, i, id, "Created") /\ s2[id].approvals = ApprovedFrom(s3, i, id)
    BY <1>2 DEF ProposalTold
  <2>3. LastOf(s3', i, id, "Created") /\ i \in 1..Len(s3)
    <3>1. i \in DOMAIN s3 /\ DOMAIN s3 = 1..Len(s3)
      BY <1>2, <2>2 DEF LastOf
    <3> QED BY <1>2, <1>3, <2>2, <3>1, LastOfMoves
  <2>4. ApprovedFrom(s3', i, id) = ApprovedFrom(s3, i, id)
    <3>1. ApprovedFrom(s3', i, id) = ApprovedFrom(s3, i, id) \cup
              (IF e.about = id /\ e.kind \in {"Created", "Approved"} THEN {e.who} ELSE {})
      BY <1>2, <1>3, <2>3, ApproversMove
    <3> QED BY <1>3, <3>1
  <2> QED BY <1>1, <1>4, <2>1, <2>2, <2>3, <2>4 DEF ProposalTold
<1>6. s5' \in SettingsType /\ s5'.size = e.about[2]
  BY <1>1, <1>2, <1>3 DEF SettingsType
<1>7. SizeTold(s5'.size, s3')
  BY <1>2, <1>3, <1>6, SizeMoves
<1> QED BY <1>1, <1>2, <1>3, <1>4, <1>5, <1>6, <1>7, ProposalChanges

LEMMA PhasesGoOn ==
    ASSUME PhasesInv, Phases!Next
    PROVE  PhasesInv'
<1>1. CASE Phases!TickPhase
  BY <1>1, TicksTold
<1>2. CASE Phases!ClockMoves
  BY <1>2, QuietCalls DEF Phases!ClockMoves, PhasesInv, PhasesTyped
<1>3. ASSUME NEW p \in BOOLEAN, Phases!SetPaused(p) PROVE PhasesInv'
  <2>1. s5' = [s5 EXCEPT !.paused = p] /\ UNCHANGED <<s1, s2, s3, s4, s6>>
    BY <1>3 DEF Phases!SetPaused
  <2>2. s5' \in SettingsType /\ s5'.size = s5.size
    BY <2>1 DEF PhasesInv, PhasesTyped, SettingsType
  <2> QED BY <2>1, <2>2, QuietCalls DEF PhasesInv, PhasesTyped
<1>4. ASSUME NEW c \in schedule.Values, Phases!SetFeeDirect(c) PROVE PhasesInv'
  <2>1. s5' = [s5 EXCEPT !.fee = c] /\ UNCHANGED <<s1, s2, s3, s4, s6>>
    BY <1>4 DEF Phases!SetFeeDirect
  <2>2. s5' \in SettingsType /\ s5'.size = s5.size
    BY <2>1 DEF PhasesInv, PhasesTyped, SettingsType
  <2> QED BY <2>1, <2>2, QuietCalls DEF PhasesInv, PhasesTyped
<1> QED BY <1>1, <1>2, <1>3, <1>4, QueueTold, ExecuteTold, CancelTold, ProposeTold, ApproveTold,
           ProposalRunTold, OverridesTold DEF Phases!Next

\* What the log tells is what the property asks.
LEMMA LastIsThere ==
    ASSUME NEW id, NEW kind, NEW i, LastOf(s3, i, id, kind), Len(s3) \in Nat,
           DOMAIN s3 = 1..Len(s3)
    PROVE  Phases!LastAt(id, kind) = i
<1> DEFINE Last(k) == s3[k].about = id /\ s3[k].kind = kind
               /\ \A j \in k + 1..Len(s3) : s3[j].about = id => s3[j].kind # kind
<1>1. i \in DOMAIN s3 /\ Last(i)
  BY DEF LastOf
<1>2. \A k \in DOMAIN s3 : Last(k) => k = i
  <2> SUFFICES ASSUME NEW k \in DOMAIN s3, Last(k), k # i PROVE FALSE
    OBVIOUS
  <2>1. k \in 1..Len(s3) /\ i \in 1..Len(s3)
    BY <1>1
  <2>2. CASE k < i
    <3>1. i \in k + 1..Len(s3)
      BY <2>1, <2>2
    <3> QED BY <1>1, <3>1
  <2>3. CASE i < k
    <3>1. k \in i + 1..Len(s3)
      BY <2>1, <2>3
    <3> QED BY <1>1, <3>1
  <2> QED BY <2>1, <2>2, <2>3
<1>3. Phases!LastAt(id, kind) = CHOOSE k \in DOMAIN s3 : Last(k)
  BY DEF Phases!LastAt
<1> HIDE DEF Last
<1> QED BY <1>1, <1>2, <1>3

LEMMA PhasesTell ==
    ASSUME PhasesInv
    PROVE  Phases!LogTellsState
<1>1. Len(s3) \in Nat /\ DOMAIN s3 = 1..Len(s3)
  BY DEF PhasesInv, PhasesTyped
<1>2. Phases!SizeLogged
  BY DEF PhasesInv, SizeTold, Phases!SizeLogged
<1>3. ASSUME NEW id \in DOMAIN s1
      PROVE  /\ s1[id].executed <=> Phases!LastIs(id, "OperationExecuted")
             /\ s1[id].cancelled <=> Phases!LastIs(id, "Cancelled")
             /\ s1[id].executed =>
                  s3[Phases!LastAt(id, "OperationExecuted")].at
                      >= s3[Phases!LastAt(id, "Queued")].at + schedule.Delay
  <2>1. OperationTold(id, s1[id], s3)
    BY DEF PhasesInv
  <2>2. PICK i : LastOf(s3, i, id, "Queued") /\ s1[id].eta = s3[i].at + schedule.Delay
    BY <2>1 DEF OperationTold
  <2>3. Phases!LastAt(id, "Queued") = i
    BY <1>1, <2>2, LastIsThere
  <2>4. ASSUME s1[id].executed
        PROVE  s3[Phases!LastAt(id, "OperationExecuted")].at >= s1[id].eta
    <3>1. PICK k : LastOf(s3, k, id, "OperationExecuted") /\ s3[k].at >= s1[id].eta
      BY <2>1, <2>4 DEF OperationTold
    <3>2. Phases!LastAt(id, "OperationExecuted") = k
      BY <1>1, <3>1, LastIsThere
    <3> QED BY <3>1, <3>2
  <2> QED BY <2>1, <2>2, <2>3, <2>4 DEF OperationTold, Latest, Phases!LastIs
<1>4. ASSUME NEW id \in DOMAIN s2
      PROVE  /\ s2[id].approvals = Phases!Approvers(id)
             /\ s2[id].executed <=> Phases!LastIs(id, "ProposalExecuted")
             /\ s2[id].executed => Phases!Cardinality(Phases!Approvers(id)) >= schedule.Threshold
  <2>1. ProposalTold(id, s2[id], s3)
    BY DEF PhasesInv
  <2>2. PICK i : LastOf(s3, i, id, "Created") /\ s2[id].approvals = ApprovedFrom(s3, i, id)
    BY <2>1 DEF ProposalTold
  <2>3. Phases!LastAt(id, "Created") = i
    BY <1>1, <2>2, LastIsThere
  <2>4. s2[id].approvals = Phases!Approvers(id)
    BY <2>2, <2>3 DEF ApprovedFrom, Phases!Approvers
  <2>5. s2[id].executed <=> Phases!LastIs(id, "ProposalExecuted")
    BY <2>1 DEF ProposalTold, Latest, Phases!LastIs
  <2>6. s2[id].executed => Phases!Cardinality(s2[id].approvals) >= schedule.Threshold
    BY <2>1 DEF ProposalTold
  <2> QED BY <2>4, <2>5, <2>6
<1>5. \A id \in DOMAIN s1 :
             /\ s1[id].executed <=> Phases!LastIs(id, "OperationExecuted")
             /\ s1[id].cancelled <=> Phases!LastIs(id, "Cancelled")
             /\ s1[id].executed =>
                  s3[Phases!LastAt(id, "OperationExecuted")].at
                      >= s3[Phases!LastAt(id, "Queued")].at + schedule.Delay
  BY <1>3
<1>6. \A id \in DOMAIN s2 :
             /\ s2[id].approvals = Phases!Approvers(id)
             /\ s2[id].executed <=> Phases!LastIs(id, "ProposalExecuted")
             /\ s2[id].executed => Phases!Cardinality(Phases!Approvers(id)) >= schedule.Threshold
  BY <1>4
<1> QED BY <1>2, <1>5, <1>6 DEF Phases!LogTellsState

\* LogTellsState, for every number of guardians, delay and reading of the clock, also one
\* that is set back: whoever replays the log finds what was executed and cancelled, who has
\* approved, and that no operation ran before its delay and no proposal without its
\* guardians.
THEOREM LogTellsStateAlways == CoreSpec => []LogTellsState
<1> DEFINE Inv == part = "phases" => PhasesInv
<1>1. CoreInit => Inv
  BY PartBegins, PhasesBegin DEF InPhases
<1>2. Inv /\ [CoreNext]_vars => Inv'
  <2>1. ASSUME Inv, CoreNext PROVE Inv'
    BY <2>1, PartGoesOn, PhasesGoOn DEF PhasesStep
  <2>2. ASSUME Inv, UNCHANGED vars PROVE Inv'
    BY <2>2, NothingMoves DEF PhasesInv, PhasesTyped
  <2> QED BY <2>1, <2>2
<1>3. Inv => LogTellsState
  BY PhasesTell DEF LogTellsState
<1> QED BY <1>1, <1>2, <1>3, PTL DEF CoreSpec

-----------------------------------------------------------------------------
(* The pools of the rewards for participation.                             *)

\* What the epochs of L gave out together.
GivenOut(L) == Total([e \in DOMAIN L |-> L[e].distributed], Len(L))

\* Every epoch of L gave out no more than its pool, to those its claims name.
EpochsSound(L) ==
    /\ L \in Seq(Rewards!Epoch) /\ Len(L) > 0
    /\ \A e \in DOMAIN L :
          /\ L[e].distributed <= incentives.Pool
          /\ L[e].distributed = SetTotal(L[e].paid, incentives.Participants)

\* The inductive invariant of the rewards.
RewardsInv ==
    /\ EpochsSound(s1) /\ s3 \in Nat /\ s5 \in Nat
    /\ s4 \in [incentives.Participants -> [epochs : Nat, claimed : Nat]]
    /\ s3 = GivenOut(s1)
    /\ s3 = SetTotal([p \in incentives.Participants |-> s4[p].claimed], incentives.Participants)

LEMMA RewardsAssumed ==
    /\ {incentives.Pool, incentives.EpochLength, incentives.MaxReward, incentives.ProposalBonus,
        incentives.VoteReward, incentives.PowerMultiplier, incentives.MinScore,
        incentives.Efficiency} \subseteq Nat
    /\ incentives.Powers \subseteq Nat
    /\ IsFiniteSet(incentives.Participants)
<1>1. Rewards!IsFiniteSet(incentives.Participants)
  BY CoreAssumption DEF Rewards!RewardsAssumption
<1>2. IsFiniteSet(incentives.Participants)
  BY <1>1 DEF Rewards!IsFiniteSet, IsFiniteSet
<1> QED BY <1>2, CoreAssumption DEF Rewards!RewardsAssumption

LEMMA RewardsTotals ==
    /\ \A f, n : Rewards!Total(f, n) = Total(f, n)
    /\ \A f, S : Rewards!SetTotal(f, S) = SetTotal(f, S)
<1>1. \A f, n : Rewards!Total(f, n) = Total(f, n)
  BY DEF Rewards!Total, Total, Rewards!PartialSums, PartialSums
<1>2. ASSUME NEW f, NEW S PROVE Rewards!SetTotal(f, S) = SetTotal(f, S)
  <2>1. Rewards!Cardinality(S) = Cardinality(S)
    BY DEF Rewards!Cardinality, Cardinality
  <2>2. Rewards!Enumeration(S) = Enumeration(S)
    BY <2>1 DEF Rewards!Enumeration, Enumeration
  <2> QED BY <1>1, <2>1, <2>2 DEF Rewards!SetTotal, SetTotal
<1> QED BY <1>1, <1>2

\* The fields of an epoch.
LEMMA EpochTyped ==
    ASSUME NEW x \in Rewards!Epoch
    PROVE  /\ x.distributed \in Nat /\ x.end \in Nat
           /\ x.paid \in [incentives.Participants -> Nat]
           /\ x.records \in [incentives.Participants -> Rewards!ParticipationRecord]
BY DEF Rewards!Epoch

\* A new epoch has given out nothing.
LEMMA NewEpochIs ==
    ASSUME NEW t \in Nat
    PROVE  LET n == Rewards!NewEpoch(t)
           IN  n \in Rewards!Epoch /\ n.distributed = 0
               /\ SetTotal(n.paid, incentives.Participants) = 0
<1> DEFINE n == Rewards!NewEpoch(t)
           P == incentives.Participants
<1>1. n \in Rewards!Epoch /\ n.distributed = 0 /\ n.paid = [p \in P |-> 0]
  BY RewardsAssumed DEF Rewards!NewEpoch, Rewards!Epoch, Rewards!ParticipationRecord,
     Rewards!NoRecord
<1>2. SetTotal(n.paid, P) = 0
  BY <1>1, SetTotalZero, RewardsAssumed
<1> QED BY <1>1, <1>2

\* An epoch that keeps its accounts may change in what else it says.
LEMMA EpochChanges ==
    ASSUME NEW L, EpochsSound(L), NEW k \in DOMAIN L, NEW x \in Rewards!Epoch,
           x.distributed = L[k].distributed, x.paid = L[k].paid
    PROVE  LET M == [L EXCEPT ![k] = x]
           IN  EpochsSound(M) /\ GivenOut(M) = GivenOut(L) /\ Len(M) = Len(L)
<1> DEFINE M == [L EXCEPT ![k] = x]
           f == [e \in DOMAIN L |-> L[e].distributed]
           g == [e \in DOMAIN M |-> M[e].distributed]
<1>1. L \in Seq(Rewards!Epoch) /\ Len(L) \in Nat /\ DOMAIN L = 1..Len(L)
  BY DEF EpochsSound
<1>2. M \in Seq(Rewards!Epoch) /\ Len(M) = Len(L) /\ DOMAIN M = DOMAIN L
  BY <1>1
<1>3. \A e \in DOMAIN L : M[e].distributed = L[e].distributed /\ M[e].paid = L[e].paid
  BY <1>1
<1>4. \A e \in DOMAIN L : L[e].distributed \in Nat
  BY <1>1, EpochTyped
<1>5. Total(g, Len(L)) = Total(f, Len(L))
  <2>1. \A e \in 1..Len(L) : f[e] \in Int /\ g[e] = f[e]
    BY <1>1, <1>2, <1>3, <1>4
  <2> HIDE DEF f, g
  <2> QED BY <1>1, <2>1, TotalSame
<1>6. EpochsSound(M)
  BY <1>1, <1>2, <1>3 DEF EpochsSound
<1> QED BY <1>2, <1>5, <1>6 DEF GivenOut

\* One more epoch gives out nothing.
LEMMA EpochBegins ==
    ASSUME NEW L, EpochsSound(L), NEW t \in Nat
    PROVE  LET M == Append(L, Rewards!NewEpoch(t))
           IN  EpochsSound(M) /\ GivenOut(M) = GivenOut(L)
<1> DEFINE n == Rewards!NewEpoch(t)
           M == Append(L, n)
           f == [e \in DOMAIN L |-> L[e].distributed]
           g == [e \in DOMAIN M |-> M[e].distributed]
           P == incentives.Participants
<1>1. L \in Seq(Rewards!Epoch) /\ Len(L) \in Nat /\ Len(L) > 0 /\ DOMAIN L = 1..Len(L)
  BY DEF EpochsSound
<1>2. n \in Rewards!Epoch /\ n.distributed = 0 /\ SetTotal(n.paid, P) = 0
  BY NewEpochIs
<1> HIDE DEF n
<1>3. /\ M \in Seq(Rewards!Epoch) /\ Len(M) = Len(L) + 1 /\ DOMAIN M = 1..Len(L) + 1
      /\ M[Len(L) + 1] = n /\ \A e \in 1..Len(L) : M[e] = L[e]
  BY <1>1, <1>2
<1> HIDE DEF M
<1>4. \A e \in DOMAIN L : L[e].distributed \in Nat
  BY <1>1, EpochTyped
<1>5. Total(g, Len(L) + 1) = Total(f, Len(L))
  <2>1. \A e \in 1..Len(L) : f[e] \in Int /\ g[e] = f[e]
    BY <1>1, <1>3, <1>4
  <2>2. g[Len(L) + 1] = 0
    BY <1>1, <1>2, <1>3
  <2> HIDE DEF f, g
  <2> QED BY <1>1, <2>1, <2>2, TotalAppendZero
<1>6. ASSUME NEW e \in DOMAIN M
      PROVE  /\ M[e].distributed <= incentives.Pool
             /\ M[e].distributed = SetTotal(M[e].paid, P)
  <2>1. CASE e = Len(L) + 1
    BY <2>1, <1>2, <1>3, RewardsAssumed
  <2>2. CASE e # Len(L) + 1
    <3>1. e \in DOMAIN L /\ M[e] = L[e]
      BY <2>2, <1>1, <1>3
    <3> QED BY <3>1 DEF EpochsSound
  <2> QED BY <2>1, <2>2
<1>7. EpochsSound(M)
  BY <1>1, <1>3, <1>6 DEF EpochsSound
<1>8. GivenOut(M) = GivenOut(L)
  BY <1>3, <1>5 DEF GivenOut
<1> QED BY <1>7, <1>8 DEF M, n

\* Closing the last epoch and beginning the next gives out nothing.
LEMMA EpochsRoll ==
    ASSUME EpochsSound(s1), s5 \in Nat
    PROVE  /\ EpochsSound(Rewards!Rolled) /\ GivenOut(Rewards!Rolled) = GivenOut(s1)
           /\ EpochsSound(Rewards!Current) /\ GivenOut(Rewards!Current) = GivenOut(s1)
<1> DEFINE x == Rewards!Finalized(s1[Len(s1)])
           M == [s1 EXCEPT ![Len(s1)] = x]
<1>1. s1 \in Seq(Rewards!Epoch) /\ Len(s1) \in DOMAIN s1
  BY DEF EpochsSound
<1>2. s1[Len(s1)] \in Rewards!Epoch
  BY <1>1
<1>3. /\ x \in Rewards!Epoch
      /\ x.distributed = s1[Len(s1)].distributed /\ x.paid = s1[Len(s1)].paid
  <2> DEFINE y == s1[Len(s1)]
  <2>1. y \in Rewards!Epoch
    BY <1>2
  <2> HIDE DEF y
  <2>2. Rewards!Finalized(y) \in Rewards!Epoch /\ Rewards!Finalized(y).distributed = y.distributed
        /\ Rewards!Finalized(y).paid = y.paid
    BY <2>1 DEF Rewards!Finalized, Rewards!Epoch, Rewards!ParticipationRecord
  <2> QED BY <2>2 DEF y
<1> HIDE DEF x
<1>4. EpochsSound(M) /\ GivenOut(M) = GivenOut(s1)
  BY <1>1, <1>3, EpochChanges
<1>5. Rewards!Rolled = Append(M, Rewards!NewEpoch(s5))
  BY DEF Rewards!Rolled, x
<1> HIDE DEF M
<1>6. EpochsSound(Rewards!Rolled) /\ GivenOut(Rewards!Rolled) = GivenOut(s1)
  BY <1>4, <1>5, EpochBegins
<1>7. Rewards!Current = Rewards!Rolled \/ Rewards!Current = s1
  BY DEF Rewards!Current
<1> QED BY <1>6, <1>7

\* Whatever is recorded of a participant, nothing is given out.
LEMMA RecordTold ==
    ASSUME RewardsInv, NEW p \in incentives.Participants,
           NEW r \in Rewards!ParticipationRecord, Rewards!Record(p, r)
    PROVE  RewardsInv'
<1> DEFINE C == Rewards!Current
           n == Len(C)
           x == [C[n] EXCEPT !.records = [C[n].records EXCEPT ![p] = r]]
<1>1. EpochsSound(C) /\ GivenOut(C) = GivenOut(s1)
  BY EpochsRoll DEF RewardsInv
<1>2. s1' = [C EXCEPT ![n] = x] /\ UNCHANGED <<s3, s4, s5>>
  BY DEF Rewards!Record
<1>3. C \in Seq(Rewards!Epoch) /\ n \in DOMAIN C
  BY <1>1 DEF EpochsSound
<1>4. C[n] \in Rewards!Epoch
  BY <1>3
<1>5. x \in Rewards!Epoch /\ x.distributed = C[n].distributed /\ x.paid = C[n].paid
  <2> DEFINE y == C[n]
  <2>1. y \in Rewards!Epoch
    BY <1>4
  <2> HIDE DEF y
  <2>2. [y EXCEPT !.records = [y.records EXCEPT ![p] = r]] \in Rewards!Epoch
    BY <2>1, EpochTyped DEF Rewards!Epoch
  <2>3. LET z == [y EXCEPT !.records = [y.records EXCEPT ![p] = r]]
        IN  z.distributed = y.distributed /\ z.paid = y.paid
    BY <2>1 DEF Rewards!Epoch
  <2> QED BY <2>2, <2>3 DEF y
<1> HIDE DEF x, C, n
<1>6. EpochsSound(s1') /\ GivenOut(s1') = GivenOut(C)
  BY <1>1, <1>2, <1>3, <1>5, EpochChanges
<1> QED BY <1>1, <1>2, <1>6 DEF RewardsInv

\* What is recorded of a participant is a record.
LEMMA RecordsTold ==
    ASSUME RewardsInv, NEW p \in incentives.Participants,
           \/ Rewards!RecordProposalCreated(p) \/ Rewards!RecordDelegationReceived(p)
           \/ \E power \in incentives.Powers : Rewards!RecordVoteCast(p, power)
    PROVE  RewardsInv'
<1> DEFINE q == Rewards!CurrentRecord(p)
<1>1. q \in Rewards!ParticipationRecord
  <2> DEFINE C == Rewards!Current
  <2>1. EpochsSound(C)
    BY EpochsRoll DEF RewardsInv
  <2>2. C[Len(C)] \in Rewards!Epoch
    BY <2>1 DEF EpochsSound
  <2> HIDE DEF C
  <2>3. C[Len(C)].records \in [incentives.Participants -> Rewards!ParticipationRecord]
    BY <2>2, EpochTyped
  <2> QED BY <2>3 DEF C, Rewards!CurrentRecord
<1>2. \A power \in incentives.Powers : power \in Nat
  BY RewardsAssumed
<1> HIDE DEF q
<1>3. CASE Rewards!RecordProposalCreated(p)
  <2>1. [q EXCEPT !.proposals = @ + 1] \in Rewards!ParticipationRecord
    BY <1>1 DEF Rewards!ParticipationRecord
  <2> QED BY <1>3, <2>1, RecordTold DEF Rewards!RecordProposalCreated, q
<1>4. CASE Rewards!RecordDelegationReceived(p)
  <2>1. [q EXCEPT !.delegated = @ + 1] \in Rewards!ParticipationRecord
    BY <1>1 DEF Rewards!ParticipationRecord
  <2> QED BY <1>4, <2>1, RecordTold DEF Rewards!RecordDelegationReceived, q
<1>5. CASE \E power \in incentives.Powers : Rewards!RecordVoteCast(p, power)
  <2>1. PICK power \in incentives.Powers : Rewards!RecordVoteCast(p, power)
    BY <1>5
  <2>2. [q EXCEPT !.votes = @ + 1, !.power = @ + power] \in Rewards!ParticipationRecord
    <3> DEFINE s == [q EXCEPT !.votes = @ + 1]
               t == [s EXCEPT !.power = @ + power]
    <3>1. s \in Rewards!ParticipationRecord
      BY <1>1 DEF Rewards!ParticipationRecord
    <3>2. t \in Rewards!ParticipationRecord
      <4> HIDE DEF s
      <4> QED BY <1>2, <3>1 DEF Rewards!ParticipationRecord
    <3>3. [q EXCEPT !.votes = @ + 1, !.power = @ + power] = t
      OBVIOUS
    <3> QED BY <3>2, <3>3
  <2> QED BY <2>1, <2>2, RecordTold DEF Rewards!RecordVoteCast, q
<1> QED BY <1>3, <1>4, <1>5

\* The smaller of two integers is one of them.
LEMMA SmallerOfTwo ==
    ASSUME NEW a \in Int, NEW b \in Int
    PROVE  Rewards!Min({a, b}) \in {a, b} /\ Rewards!Min({a, b}) \in Int
<1>1. \E x \in {a, b} : \A y \in {a, b} : x <= y
  BY a <= b \/ b <= a
<1>2. Rewards!Min({a, b}) \in {a, b}
  BY <1>1 DEF Rewards!Min
<1> QED BY <1>2

\* A reward is an integer.
LEMMA RewardTyped ==
    ASSUME RewardsInv, NEW p \in incentives.Participants, NEW e \in DOMAIN s1
    PROVE  Rewards!Reward(p, e) \in Int
<1> DEFINE r == s1[e].records[p]
           times == Rewards!Min({s4[p].epochs, 5})
           whole == (incentives.Pool * Rewards!Score(r)) \div 100
                      + r.proposals * incentives.ProposalBonus + r.votes * incentives.VoteReward
                      + (r.power * Rewards!Min({incentives.PowerMultiplier, 200})) \div 10000
           part1 == (whole * Rewards!Power(incentives.Efficiency, times))
                       \div Rewards!Power(100, times)
<1>1. r \in Rewards!ParticipationRecord
  <2>1. s1[e] \in Rewards!Epoch
    BY DEF RewardsInv, EpochsSound
  <2> QED BY <2>1, EpochTyped
<1>2. /\ r.proposals \in Nat /\ r.votes \in Nat /\ r.delegated \in Nat /\ r.power \in Nat
  BY <1>1 DEF Rewards!ParticipationRecord
<1> HIDE DEF r
<1>3. Rewards!Score(r) \in Int
  <2> DEFINE v == Rewards!Min({10 * r.votes, 50})
             w == Rewards!Min({15 * r.proposals, 30})
             d == Rewards!Min({5 * r.delegated, 10})
             f == IF r.full THEN 10 ELSE 0
  <2>1. v \in Int /\ w \in Int /\ d \in Int /\ f \in Int
    BY <1>2, SmallerOfTwo
  <2> HIDE DEF v, w, d, f
  <2>2. Rewards!Min({100, v + w + d + f}) \in Int
    BY <2>1, SmallerOfTwo
  <2> QED BY <2>2 DEF Rewards!Score, v, w, d, f
<1>4. times \in 0..5
  <2>1. s4[p].epochs \in Nat
    BY DEF RewardsInv
  <2>2. times \in {s4[p].epochs, 5} /\ times <= 5
    <3>1. \E x \in {s4[p].epochs, 5} : \A y \in {s4[p].epochs, 5} : x <= y
      BY <2>1
    <3> QED BY <3>1 DEF Rewards!Min
  <2> QED BY <2>1, <2>2
<1> HIDE DEF times
<1>5. whole \in Int
  <2> DEFINE m == Rewards!Min({incentives.PowerMultiplier, 200})
             a == incentives.Pool * Rewards!Score(r)
             b == r.power * m
             c == r.proposals * incentives.ProposalBonus
             d == r.votes * incentives.VoteReward
  <2>1. m \in Int
    BY SmallerOfTwo, RewardsAssumed
  <2>2. a \in Int /\ b \in Int /\ c \in Int /\ d \in Int
    BY <1>2, <1>3, <2>1, RewardsAssumed
  <2> HIDE DEF a, b, c, d
  <2>3. a \div 100 \in Int /\ b \div 10000 \in Int
    BY <2>2
  <2> QED BY <2>2, <2>3 DEF a, b, c, d
<1> HIDE DEF whole
<1>6. /\ Rewards!Power(incentives.Efficiency, times) \in Nat
      /\ Rewards!Power(100, times) \in Nat /\ Rewards!Power(100, times) > 0
  <2> DEFINE b == incentives.Efficiency
  <2>1. b \in Nat /\ b * b \in Nat /\ b * b * b \in Nat /\ b * b * b * b \in Nat
        /\ b * b * b * b * b \in Nat
    <3>1. \A i, j \in Nat : i * j \in Nat
      BY ProductNat
    <3>2. b \in Nat
      BY RewardsAssumed
    <3> HIDE DEF b
    <3> QED BY <3>1, <3>2
  <2> HIDE DEF b
  <2>2. times = 0 \/ times = 1 \/ times = 2 \/ times = 3 \/ times = 4 \/ times = 5
    BY <1>4
  <2>3. Rewards!Power(b, times) \in Nat
    BY <2>1, <2>2 DEF Rewards!Power
  <2>4. Rewards!Power(100, times) \in Nat /\ Rewards!Power(100, times) > 0
    BY <2>2 DEF Rewards!Power
  <2> QED BY <2>3, <2>4 DEF b
<1>7. part1 \in Int
  <2> DEFINE x == whole * Rewards!Power(incentives.Efficiency, times)
             y == Rewards!Power(100, times)
  <2>1. x \in Int /\ y \in Nat /\ y > 0
    BY <1>5, <1>6
  <2> HIDE DEF x, y
  <2>2. x \div y \in Int
    BY <2>1
  <2> QED BY <2>2 DEF x, y
<1> HIDE DEF part1
<1>8. Rewards!Min({incentives.MaxReward, part1}) \in Int
  BY <1>7, SmallerOfTwo, RewardsAssumed
<1>9. Rewards!Reward(p, e) = IF Rewards!Score(r) < incentives.MinScore THEN 0
                             ELSE Rewards!Min({incentives.MaxReward, part1})
  BY DEF Rewards!Reward, part1, whole, times, r
<1> QED BY <1>8, <1>9

\* A claim takes from the pool what it adds to the accounts.
LEMMA ClaimTold ==
    ASSUME RewardsInv, NEW p \in incentives.Participants, NEW e \in DOMAIN s1,
           Rewards!ClaimRewards(p, e)
    PROVE  RewardsInv'
<1> DEFINE P == incentives.Participants
           a == Rewards!Reward(p, e)
           L == s1
           n == Len(L)
           y == L[e]
           x == [y EXCEPT !.distributed = @ + a, !.paid = [y.paid EXCEPT ![p] = @ + a]]
           M == [L EXCEPT ![e] = x]
<1>1. a \in Nat
  BY RewardTyped DEF Rewards!ClaimRewards
<1>2. /\ L \in Seq(Rewards!Epoch) /\ n \in Nat /\ DOMAIN L = 1..n
      /\ y \in Rewards!Epoch /\ y.distributed + a <= incentives.Pool
      /\ y.distributed = SetTotal(y.paid, P)
  BY DEF RewardsInv, EpochsSound, Rewards!ClaimRewards, Rewards!Room
<1>3. /\ s1' = M /\ s3' = s3 + a /\ s5' = s5
      /\ s4' = [s4 EXCEPT ![p] = [epochs |-> @.epochs + 1, claimed |-> @.claimed + a]]
  <2> HIDE DEF a
  <2>1. /\ s1' = [s1 EXCEPT ![e].distributed = @ + a, ![e].paid[p] = @ + a]
        /\ s3' = s3 + a /\ s5' = s5
        /\ s4' = [s4 EXCEPT ![p] = [epochs |-> @.epochs + 1, claimed |-> @.claimed + a]]
    BY DEF Rewards!ClaimRewards, a
  <2>2. [s1 EXCEPT ![e].distributed = @ + a, ![e].paid[p] = @ + a] = M
    BY <1>2
  <2> QED BY <2>1, <2>2
<1> HIDE DEF a
<1>4. y.distributed \in Nat /\ y.paid \in [P -> Nat]
  BY <1>2, EpochTyped
<1> DEFINE z == [y.paid EXCEPT ![p] = @ + a]
<1>5. z \in [P -> Nat] /\ SetTotal(z, P) = SetTotal(y.paid, P) + a
  <2>1. z \in [P -> Nat] /\ z[p] = y.paid[p] + a /\ \A q \in P : q # p => z[q] = y.paid[q]
    BY <1>1, <1>4
  <2>2. \A q \in P : y.paid[q] \in Int
    BY <1>4
  <2>3. y.paid[p] \in Nat /\ z[p] \in Int
    BY <1>4, <2>1
  <2> DEFINE f == y.paid
  <2>4. SetTotal(z, P) = SetTotal(f, P) + z[p] - f[p]
    <3> HIDE DEF z, f
    <3>1. \A q \in P : f[q] \in Int
      BY <2>2 DEF f
    <3>2. \A q \in P : q # p => z[q] = f[q]
      BY <2>1 DEF f
    <3>3. z[p] \in Int
      BY <2>3
    <3> QED BY <3>1, <3>2, <3>3, RewardsAssumed, SetTotalUpdate
  <2>5. SetTotal(f, P) \in Int
    BY <2>2, RewardsAssumed, SetTotalInt
  <2> HIDE DEF z
  <2> QED BY <1>1, <2>1, <2>3, <2>4, <2>5
<1>6. /\ x \in Rewards!Epoch /\ x.distributed = y.distributed + a /\ x.paid = z
  <2> HIDE DEF z, y
  <2>1. [y EXCEPT !.distributed = @ + a, !.paid = z] \in Rewards!Epoch
    <3> DEFINE s == [y EXCEPT !.distributed = @ + a]
               t == [s EXCEPT !.paid = z]
    <3>1. s \in Rewards!Epoch
      <4>1. y.distributed + a \in Nat
        BY <1>1, <1>4
      <4> DEFINE b == y.distributed + a
      <4> HIDE DEF b
      <4>2. [y EXCEPT !.distributed = b] \in Rewards!Epoch
        BY <1>2, <4>1 DEF Rewards!Epoch, b
      <4> QED BY <4>2 DEF b
    <3>2. t \in Rewards!Epoch
      <4> HIDE DEF s
      <4> QED BY <1>5, <3>1 DEF Rewards!Epoch
    <3>3. [y EXCEPT !.distributed = @ + a, !.paid = z] = t
      OBVIOUS
    <3> QED BY <3>2, <3>3
  <2>2. LET w == [y EXCEPT !.distributed = @ + a, !.paid = z]
        IN  w.distributed = y.distributed + a /\ w.paid = z
    BY <1>2 DEF Rewards!Epoch
  <2> QED BY <2>1, <2>2 DEF z
<1> HIDE DEF x, z
<1>7. /\ M \in Seq(Rewards!Epoch) /\ Len(M) = n /\ DOMAIN M = 1..n
      /\ M[e] = x /\ \A i \in DOMAIN L : i # e => M[i] = L[i]
  BY <1>2, <1>6
<1> HIDE DEF M
<1>8. EpochsSound(M)
  <2>1. ASSUME NEW i \in DOMAIN M
        PROVE  M[i].distributed <= incentives.Pool /\ M[i].distributed = SetTotal(M[i].paid, P)
    <3>1. CASE i = e
      BY <3>1, <1>2, <1>5, <1>6, <1>7
    <3>2. CASE i # e
      BY <3>2, <1>2, <1>7 DEF RewardsInv, EpochsSound
    <3> QED BY <3>1, <3>2
  <2> QED BY <2>1, <1>2, <1>7 DEF EpochsSound, RewardsInv
<1>9. GivenOut(M) = GivenOut(s1) + a
  <2> DEFINE f == [i \in DOMAIN L |-> L[i].distributed]
             g == [i \in DOMAIN M |-> M[i].distributed]
  <2>1. \A i \in DOMAIN L : L[i].distributed \in Nat
    BY <1>2, EpochTyped
  <2>2. /\ \A i \in 1..n : f[i] \in Int
        /\ \A i \in 1..n : i # e => g[i] = f[i]
        /\ g[e] = f[e] + a /\ f[e] \in Int
    <3> HIDE DEF L
    <3>1. \A i \in 1..n : f[i] = L[i].distributed /\ g[i] = M[i].distributed
      BY <1>2, <1>7
    <3>2. e \in 1..n /\ M[e].distributed = L[e].distributed + a
      BY <1>2, <1>6, <1>7 DEF L
    <3> HIDE DEF f, g
    <3>3. \A i \in 1..n : L[i].distributed \in Int
      BY <1>2, <2>1
    <3>4. \A i \in 1..n : i # e => M[i].distributed = L[i].distributed
      BY <1>2, <1>7
    <3>5. \A i \in 1..n : f[i] \in Int
      BY <3>1, <3>3
    <3>6. \A i \in 1..n : i # e => g[i] = f[i]
      BY <3>1, <3>4
    <3>7. g[e] = f[e] + a /\ f[e] \in Int
      BY <3>1, <3>2, <3>5
    <3> QED BY <3>5, <3>6, <3>7
  <2>3. e \in 1..n /\ g[e] \in Int
    BY <1>1, <1>2, <2>2
  <2> HIDE DEF f, g
  <2>4. Total(g, n) = Total(f, n) + g[e] - f[e]
    BY <1>2, <2>2, <2>3, TotalUpdate
  <2>5. Total(f, n) \in Int
    BY <1>2, <2>2, TotalInt
  <2>6. Total(g, n) = Total(f, n) + a
    BY <1>1, <2>2, <2>4, <2>5
  <2>7. GivenOut(M) = Total(g, n) /\ GivenOut(s1) = Total(f, n)
    BY <1>7 DEF GivenOut, f, g
  <2> QED BY <2>6, <2>7
<1>10. /\ s4' \in [P -> [epochs : Nat, claimed : Nat]]
       /\ s4'[p].claimed = s4[p].claimed + a /\ \A q \in P : q # p => s4'[q] = s4[q]
       /\ s4[p].claimed \in Nat
  BY <1>1, <1>3 DEF RewardsInv
<1>11. SetTotal([q \in P |-> s4'[q].claimed], P) = SetTotal([q \in P |-> s4[q].claimed], P) + a
  <2> DEFINE f == [q \in P |-> s4[q].claimed]
             g == [q \in P |-> s4'[q].claimed]
  <2>1. \A q \in P : f[q] \in Int
    BY DEF RewardsInv
  <2>2. /\ \A q \in P : q # p => g[q] = f[q]
        /\ g[p] = f[p] + a /\ f[p] \in Int /\ g[p] \in Int
    BY <1>1, <1>10
  <2> HIDE DEF f, g
  <2>3. SetTotal(g, P) = SetTotal(f, P) + g[p] - f[p]
    BY <2>1, <2>2, RewardsAssumed, SetTotalUpdate
  <2>4. SetTotal(f, P) \in Int
    BY <2>1, RewardsAssumed, SetTotalInt
  <2>5. SetTotal(g, P) = SetTotal(f, P) + a
    BY <1>1, <2>2, <2>3, <2>4
  <2> QED BY <2>5 DEF f, g
<1> HIDE DEF L
<1> QED BY <1>1, <1>3, <1>8, <1>9, <1>10, <1>11 DEF RewardsInv

LEMMA RewardsBegin == InRewards => RewardsInv
<1> SUFFICES ASSUME InRewards PROVE RewardsInv
  OBVIOUS
<1> DEFINE P == incentives.Participants
           n == Rewards!NewEpoch(0)
<1>1. /\ s1 = <<n>> /\ s3 = 0 /\ s5 = 0
      /\ s4 = [p \in P |-> [epochs |-> 0, claimed |-> 0]]
  BY DEF InRewards, Rewards!Init
<1>2. n \in Rewards!Epoch /\ n.distributed = 0 /\ SetTotal(n.paid, P) = 0
  BY NewEpochIs
<1> HIDE DEF n
<1>3. s1 \in Seq(Rewards!Epoch) /\ Len(s1) = 1 /\ DOMAIN s1 = 1..1 /\ s1[1] = n
  BY <1>1, <1>2
<1>4. EpochsSound(s1)
  BY <1>2, <1>3, RewardsAssumed DEF EpochsSound
<1>5. GivenOut(s1) = 0
  <2> DEFINE f == [e \in DOMAIN s1 |-> s1[e].distributed]
  <2>1. \A i \in 1..1 : f[i] = 0
    BY <1>2, <1>3
  <2> HIDE DEF f
  <2>2. Total(f, 1) = 0
    BY <2>1, TotalOfZeros
  <2> QED BY <1>3, <2>2 DEF GivenOut, f
<1>6. SetTotal([p \in P |-> s4[p].claimed], P) = 0
  <2> DEFINE f == [p \in P |-> s4[p].claimed]
  <2>1. \A p \in P : f[p] = 0
    BY <1>1
  <2> HIDE DEF f
  <2>2. SetTotal(f, P) = 0
    BY <2>1, RewardsAssumed, SetTotalZero
  <2> QED BY <2>2 DEF f
<1> QED BY <1>1, <1>4, <1>5, <1>6 DEF RewardsInv

LEMMA RewardsGoOn ==
    ASSUME RewardsInv, Rewards!Next
    PROVE  RewardsInv'
<1>1. ASSUME NEW p \in incentives.Participants,
             \/ Rewards!RecordProposalCreated(p) \/ Rewards!RecordDelegationReceived(p)
             \/ \E power \in incentives.Powers : Rewards!RecordVoteCast(p, power)
      PROVE  RewardsInv'
  BY <1>1, RecordsTold
<1>2. ASSUME NEW p \in incentives.Participants, NEW e \in DOMAIN s1, Rewards!ClaimRewards(p, e)
      PROVE  RewardsInv'
  BY <1>2, ClaimTold
<1>3. CASE Rewards!FinalizeEpoch
  BY <1>3, EpochsRoll DEF Rewards!FinalizeEpoch, RewardsInv
<1>4. CASE Rewards!Tick
  BY <1>4 DEF Rewards!Tick, RewardsInv
<1> QED BY <1>1, <1>2, <1>3, <1>4 DEF Rewards!Next

LEMMA RewardsCover == RewardsInv => Rewards!PoolsCoverClaims
<1> SUFFICES ASSUME RewardsInv PROVE Rewards!PoolsCoverClaims
  OBVIOUS
<1> QED BY RewardsTotals DEF RewardsInv, EpochsSound, GivenOut, Rewards!PoolsCoverClaims

-----------------------------------------------------------------------------
(* The boards of the games and of the seasons.                             *)

Entries(U) == [user : U, score : Nat]

LEMMA EntryTyped ==
    ASSUME NEW U, NEW x \in Entries(U)
    PROVE  x.user \in U /\ x.score \in Nat
BY DEF Entries

\* Whose entries are in order, and nobody's twice.
InOrder(list) ==
    \A i, j \in DOMAIN list : i < j =>
        list[i].user # list[j].user /\ list[i].score >= list[j].score

\* Who is taken from a list in order leaves the others in theirs.
LEMMA WithoutIs ==
    ASSUME NEW U, NEW list \in Seq(Entries(U)), InOrder(list), NEW u
    PROVE  LET others == Games!Without(list, u)
           IN  /\ others \in Seq(Entries(U)) /\ InOrder(others)
               /\ Len(others) <= Len(list) /\ Len(others) >= Len(list) - 1
               /\ \A i \in DOMAIN others :
                     others[i].user # u /\ \E j \in DOMAIN list : others[i] = list[j]
               /\ \A j \in DOMAIN list :
                     list[j].user # u => \E i \in DOMAIN others : others[i] = list[j]
               /\ (\A j \in DOMAIN list : list[j].user # u) => others = list
<1> DEFINE others == Games!Without(list, u)
           n == Len(list)
<1>1. n \in Nat /\ DOMAIN list = 1..n
  OBVIOUS
<1>2. CASE \A j \in DOMAIN list : list[j].user # u
  <2>1. others = list
    BY <1>2 DEF Games!Without
  <2> HIDE DEF others
  <2>2. Len(others) <= n /\ Len(others) >= n - 1
    BY <1>1, <2>1
  <2> HIDE DEF n
  <2> QED BY <1>1, <1>2, <2>1, <2>2 DEF others, n
<1>3. CASE \E j \in DOMAIN list : list[j].user = u
  <2> DEFINE k == CHOOSE i \in DOMAIN list :
                      list[i].user = u /\ \A j \in 1..i - 1 : list[j].user # u
  <2>1. PICK i \in 1..n : list[i].user = u
    BY <1>1, <1>3
  <2>2. \A j \in 1..n : j # i => list[j].user # u
    <3> SUFFICES ASSUME NEW j \in 1..n, j # i PROVE list[j].user # u
      OBVIOUS
    <3>1. i < j \/ j < i
      BY <1>1
    <3> QED BY <1>1, <2>1, <3>1 DEF InOrder
  <2>3. \A j \in 1..i - 1 : j \in 1..n /\ j # i
    BY <1>1
  <2>4. k = i
    <3>1. \E l \in DOMAIN list : list[l].user = u /\ \A j \in 1..l - 1 : list[j].user # u
      BY <1>1, <2>1, <2>2, <2>3
    <3>2. k \in DOMAIN list /\ list[k].user = u
      BY <3>1
    <3> HIDE DEF k
    <3> QED BY <1>1, <2>2, <3>2
  <2>5. others = SubSeq(list, 1, k - 1) \o SubSeq(list, k + 1, Len(list))
    BY <1>3 DEF Games!Without
  <2> HIDE DEF k, others
  <2>6. others = SubSeq(list, 1, i - 1) \o SubSeq(list, i + 1, Len(list))
    BY <2>4, <2>5
  <2>7. /\ others \in Seq(Entries(U)) /\ Len(others) = n - 1
        /\ \A l \in 1..i - 1 : others[l] = list[l]
        /\ \A l \in i..n - 1 : others[l] = list[l + 1]
    BY <2>6, RemoveAnywhere
  <2> DEFINE from(l) == IF l < i THEN l ELSE l + 1
  <2>8. /\ DOMAIN others = 1..n - 1
        /\ \A l \in 1..n - 1 : from(l) \in 1..n /\ from(l) # i /\ others[l] = list[from(l)]
    <3>1. DOMAIN others = 1..n - 1
      BY <1>1, <2>7
    <3>2. ASSUME NEW l \in 1..n - 1
          PROVE  from(l) \in 1..n /\ from(l) # i /\ others[l] = list[from(l)]
      <4>1. CASE l < i
        <5>1. from(l) = l
          BY <4>1
        <5>2. l \in 1..i - 1 /\ l \in 1..n /\ l # i
          BY <1>1, <2>1, <4>1
        <5> HIDE DEF from
        <5> QED BY ONLY <2>7, <5>1, <5>2
      <4>2. CASE ~(l < i)
        <5>1. from(l) = l + 1
          BY <4>2
        <5>2. l \in i..n - 1 /\ l + 1 \in 1..n /\ l + 1 # i
          BY <1>1, <2>1, <4>2
        <5> HIDE DEF from
        <5> QED BY ONLY <2>7, <5>1, <5>2
      <4> QED BY <4>1, <4>2
    <3> QED BY <3>1, <3>2
  <2>9. \A l, m \in 1..n - 1 : l < m => from(l) < from(m)
    BY <1>1
  <2>10. \A j \in 1..n : j # i => \E l \in 1..n - 1 : from(l) = j
    <3> SUFFICES ASSUME NEW j \in 1..n, j # i PROVE \E l \in 1..n - 1 : from(l) = j
      OBVIOUS
    <3>1. CASE j < i
      <4>1. j \in 1..n - 1 /\ from(j) = j
        BY <1>1, <3>1
      <4> QED BY <4>1
    <3>2. CASE j > i
      <4>1. j - 1 \in 1..n - 1 /\ from(j - 1) = j
        BY <1>1, <3>2
      <4> QED BY <4>1
    <3> QED BY <1>1, <3>1, <3>2
  <2> HIDE DEF from
  <2>11. InOrder(others)
    <3> SUFFICES ASSUME NEW l \in 1..n - 1, NEW m \in 1..n - 1, l < m
                 PROVE  others[l].user # others[m].user /\ others[l].score >= others[m].score
      BY <2>8 DEF InOrder
    <3> QED BY <1>1, <2>8, <2>9 DEF InOrder
  <2>12. \A l \in DOMAIN others :
             others[l].user # u /\ \E j \in DOMAIN list : others[l] = list[j]
    BY <1>1, <2>2, <2>8
  <2>13. \A j \in DOMAIN list :
             list[j].user # u => \E l \in DOMAIN others : others[l] = list[j]
    <3> SUFFICES ASSUME NEW j \in 1..n, list[j].user # u
                 PROVE  \E l \in DOMAIN others : others[l] = list[j]
      BY <1>1
    <3>1. PICK l \in 1..n - 1 : from(l) = j
      BY <2>1, <2>10
    <3> QED BY <2>8, <3>1
  <2>14. ~\A j \in DOMAIN list : list[j].user # u
    BY <1>3
  <2>15. Len(others) <= n /\ Len(others) >= n - 1
    BY <1>1, <2>7
  <2> QED BY <2>7, <2>11, <2>12, <2>13, <2>14, <2>15 DEF others
<1> QED BY <1>2, <1>3

\* The place above which a new score does not climb.
LEMMA AboveIs ==
    ASSUME NEW U, NEW list \in Seq(Entries(U)), NEW score \in Nat
    PROVE  LET k == Games!Above(list, score)
           IN  /\ k \in 0..Len(list)
               /\ \A i \in k + 1..Len(list) : list[i].score < score
               /\ k > 0 => list[k].score >= score
<1> DEFINE n == Len(list)
           T == {k \in Nat : \A i \in k + 1..n : list[i].score < score}
<1>1. n \in Nat /\ DOMAIN list = 1..n
  OBVIOUS
<1>2. n \in T
  BY <1>1
<1>3. T \subseteq Nat /\ T # {}
  BY <1>2
<1>4. PICK k \in T : \A m \in T : k <= m
  <2> HIDE DEF T
  <2> QED BY <1>3, LeastNatural
<1>5. k \in 0..n
  BY <1>1, <1>2, <1>4
<1>6. k > 0 => list[k].score >= score
  <2> SUFFICES ASSUME k > 0, ~(list[k].score >= score) PROVE FALSE
    OBVIOUS
  <2>1. k - 1 \in Nat /\ k \in 1..n /\ list[k].score \in Nat
    <3>1. k - 1 \in Nat /\ k \in 1..n
      BY <1>1, <1>5
    <3>2. list[k] \in Entries(U)
      BY <1>1, <3>1
    <3> QED BY <3>1, <3>2, EntryTyped
  <2>2. \A i \in (k - 1) + 1..n : list[i].score < score
    <3> SUFFICES ASSUME NEW i \in (k - 1) + 1..n PROVE list[i].score < score
      OBVIOUS
    <3>1. i = k \/ i \in k + 1..n
      BY <1>1, <1>5
    <3> QED BY <1>4, <2>1, <3>1
  <2>3. k - 1 \in T
    BY <2>1, <2>2
  <2>4. k <= k - 1
    BY <1>4, <2>3
  <2> QED BY <1>5, <2>4
<1>7. \E m \in 0..n : /\ \A i \in m + 1..n : list[i].score < score
                      /\ m > 0 => list[m].score >= score
  BY <1>4, <1>5, <1>6
<1> QED BY <1>7 DEF Games!Above

\* Putting somebody back on a board, with no less than before, keeps it a ranking.
LEMMA PlacedRanks ==
    ASSUME NEW U, NEW list \in Seq(Entries(U)), NEW points \in [U -> Nat],
           NEW size \in Nat \ {0}, Len(list) <= size, Games!Ranks(list, points, size),
           NEW u \in U, NEW score \in Nat, score >= points[u]
    PROVE  LET M == Games!Placed(list, u, score, size)
           IN  /\ M \in Seq(Entries(U)) /\ Len(M) <= size
               /\ Games!Ranks(M, [points EXCEPT ![u] = score], size)
<1> DEFINE n == Len(list)
           others == Games!Without(list, u)
           m == Len(others)
           k == Games!Above(others, score)
           new == [user |-> u, score |-> score]
           all == Inserted(others, k, new)
           M == Games!Placed(list, u, score, size)
           q == [points EXCEPT ![u] = score]
<1>1. /\ n \in Nat /\ DOMAIN list = 1..n /\ InOrder(list)
      /\ \A i \in 1..n : list[i].user \in U /\ list[i].score \in Nat
      /\ \A i \in 1..n : list[i].score = points[list[i].user]
  <2>1. n \in Nat /\ DOMAIN list = 1..n /\ \A i \in 1..n : list[i] \in Entries(U)
    OBVIOUS
  <2>2. InOrder(list) /\ \A i \in DOMAIN list : list[i].score = points[list[i].user]
    BY DEF Games!Ranks, InOrder
  <2> HIDE DEF n
  <2> QED BY <2>1, <2>2, EntryTyped
<1>2. \A v \in U : \/ \E i \in 1..n : list[i].user = v
                   \/ points[v] = 0
                   \/ n = size /\ points[v] <= list[size].score
  BY <1>1 DEF Games!Ranks
<1>3. /\ others \in Seq(Entries(U)) /\ InOrder(others)
      /\ m <= n /\ m >= n - 1
      /\ \A i \in DOMAIN others :
            others[i].user # u /\ \E j \in DOMAIN list : others[i] = list[j]
      /\ \A j \in DOMAIN list :
            list[j].user # u => \E i \in DOMAIN others : others[i] = list[j]
      /\ (\A j \in DOMAIN list : list[j].user # u) => others = list
  <2>1. InOrder(list)
    BY <1>1
  <2> HIDE DEF k, new, all, M, q
  <2> QED BY <2>1, WithoutIs
<1> HIDE DEF others
<1>4. /\ m \in Nat /\ DOMAIN others = 1..m
      /\ \A i \in 1..m : others[i].user \in U /\ others[i].score \in Nat
  <2>1. others \in Seq(Entries(U))
    BY <1>3
  <2>2. m \in Nat /\ DOMAIN others = 1..m /\ \A i \in 1..m : others[i] \in Entries(U)
    BY <2>1
  <2> HIDE DEF m
  <2> QED BY <2>2, EntryTyped
<1>5. /\ k \in 0..m
      /\ \A i \in k + 1..m : others[i].score < score
      /\ k > 0 => others[k].score >= score
  BY <1>3, AboveIs
<1> HIDE DEF k
<1>6. new \in Entries(U) /\ new.user = u /\ new.score = score
  BY DEF Entries
<1> HIDE DEF new
<1>7. /\ all \in Seq(Entries(U)) /\ Len(all) = m + 1 /\ all[k + 1] = new
      /\ \A i \in 1..k : all[i] = others[i]
      /\ \A i \in k + 1..m : all[i + 1] = others[i]
  <2>1. others \in Seq(Entries(U)) /\ new \in Entries(U) /\ k \in 0..Len(others)
    BY <1>3, <1>5, <1>6
  <2>2. all \in Seq(Entries(U)) /\ PutAfter(all, others, k, new)
    BY ONLY <2>1, InsertAnywhere
  <2>3. m = Len(others)
    OBVIOUS
  <2> HIDE DEF all, m
  <2> QED BY ONLY <2>2, <2>3 DEF PutAfter
<1>8. M = IF Len(all) > size THEN SubSeq(all, 1, size) ELSE all
  BY DEF Games!Placed, all, k, others, new, Inserted
<1> HIDE DEF all, m, M
<1>9. ASSUME NEW i \in 1..m + 1
      PROVE  \/ i = k + 1 /\ all[i] = new
             \/ i \in 1..k /\ i \in 1..m /\ all[i] = others[i]
             \/ i - 1 \in k + 1..m /\ i - 1 \in 1..m /\ all[i] = others[i - 1]
  <2>1. CASE i = k + 1
    BY <1>7, <2>1
  <2>2. CASE i <= k
    BY <1>4, <1>5, <1>7, <2>2
  <2>3. CASE i > k + 1
    <3>1. i - 1 \in k + 1..m /\ i - 1 \in 1..m /\ (i - 1) + 1 = i
      BY <1>4, <1>5, <2>3
    <3> QED BY <1>7, <3>1
  <2> QED BY <1>4, <1>5, <2>1, <2>2, <2>3
\* Everybody on the new list, in order.
<1>10. ASSUME NEW i \in 1..m, NEW j \in 1..m, i < j
       PROVE  others[i].user # others[j].user /\ others[i].score >= others[j].score
  BY <1>3, <1>4, <1>10 DEF InOrder
<1>11. ASSUME NEW i \in 1..m
       PROVE  others[i].user # u /\ (i <= k => others[i].score >= score)
  <2>1. others[i].user # u
    BY <1>3, <1>4
  <2>2. ASSUME i <= k PROVE others[i].score >= score
    <3>1. k \in 1..m /\ k > 0 /\ (i = k \/ i < k)
      BY <1>4, <1>5, <2>2
    <3>2. i < k => others[i].score >= others[k].score
      BY <1>10, <3>1
    <3>3. others[i].score \in Nat /\ others[k].score \in Nat /\ others[k].score >= score
      BY <1>4, <1>5, <3>1
    <3> QED BY <3>1, <3>2, <3>3
  <2> QED BY <2>1, <2>2
<1>12. ASSUME NEW i \in 1..m + 1, NEW j \in 1..m + 1, i < j
       PROVE  all[i].user # all[j].user /\ all[i].score >= all[j].score
  <2>1. CASE i = k + 1
    <3>1. all[i] = new /\ j - 1 \in k + 1..m /\ j - 1 \in 1..m /\ all[j] = others[j - 1]
      BY <1>4, <1>5, <1>7, <1>9, <1>12, <2>1
    <3>2. others[j - 1].user # u /\ others[j - 1].score < score /\ others[j - 1].score \in Nat
      BY <1>4, <1>5, <1>11, <3>1
    <3> QED BY <1>6, <3>1, <3>2
  <2>2. CASE j = k + 1
    <3>1. all[j] = new /\ i \in 1..k /\ i \in 1..m /\ all[i] = others[i] /\ i <= k
      BY <1>4, <1>5, <1>7, <1>9, <1>12, <2>2
    <3>2. others[i].user # u /\ others[i].score >= score
      BY <1>11, <3>1
    <3> QED BY <1>6, <3>1, <3>2
  <2>3. CASE i # k + 1 /\ j # k + 1
    <3> DEFINE a == IF i <= k THEN i ELSE i - 1
               b == IF j <= k THEN j ELSE j - 1
    <3>1. a \in 1..m /\ all[i] = others[a]
      BY <1>4, <1>5, <1>9, <2>3
    <3>2. b \in 1..m /\ all[j] = others[b]
      BY <1>4, <1>5, <1>9, <2>3
    <3>3. a < b
      BY <1>4, <1>5, <1>12, <2>3
    <3> HIDE DEF a, b
    <3> QED BY <1>10, <3>1, <3>2, <3>3
  <2> QED BY <2>1, <2>2, <2>3
<1>13. ASSUME NEW i \in 1..m + 1 PROVE all[i].user \in U /\ all[i].score = q[all[i].user]
  <2>1. CASE i = k + 1
    <3>1. all[i].user = u /\ all[i].score = score
      BY <1>6, <1>7, <2>1
    <3> QED BY <3>1
  <2>2. CASE i # k + 1
    <3>1. PICK l \in 1..m : all[i] = others[l]
      BY <1>9, <2>2
    <3>2. others[l].user # u /\ \E j \in 1..n : others[l] = list[j]
      BY <1>1, <1>3, <1>4
    <3>3. others[l].user \in U /\ others[l].score = points[others[l].user]
      BY <1>1, <3>2
    <3> QED BY <3>1, <3>2, <3>3
  <2> QED BY <2>1, <2>2
<1>14. ASSUME NEW i \in 1..m + 1 PROVE all[i].score \in Nat
  BY <1>4, <1>6, <1>9
\* What the cut leaves.
<1>15. /\ M \in Seq(Entries(U)) /\ Len(M) \in Nat /\ DOMAIN M = 1..Len(M)
       /\ Len(M) <= size /\ Len(M) <= m + 1 /\ (Len(M) = m + 1 \/ Len(M) = size)
       /\ \A i \in 1..Len(M) : i \in 1..m + 1 /\ M[i] = all[i]
  <2>1. CASE Len(all) > size
    <3>1. M = SubSeq(all, 1, size)
      BY <1>8, <2>1
    <3>2. /\ M \in Seq(Entries(U)) /\ Len(M) = size
          /\ \A i \in 1..size : M[i] = all[i]
      BY <1>4, <1>7, <2>1, <3>1
    <3>3. \A i \in 1..size : i \in 1..m + 1
      BY <1>4, <1>7, <2>1
    <3> QED BY <1>4, <1>7, <2>1, <3>2, <3>3
  <2>2. CASE ~(Len(all) > size)
    <3>1. M = all
      BY <1>8, <2>2
    <3> QED BY <1>4, <1>7, <2>2, <3>1
  <2> QED BY <2>1, <2>2
<1>16. ASSUME NEW v \in U
       PROVE  \/ \E i \in DOMAIN M : M[i].user = v
              \/ q[v] = 0
              \/ Len(M) = size /\ q[v] <= M[size].score
  <2>1. CASE \E i \in 1..m + 1 : all[i].user = v
    <3>1. PICK i \in 1..m + 1 : all[i].user = v
      BY <2>1
    <3>2. CASE i <= Len(M)
      <4>1. i \in 1..Len(M)
        <5>1. m \in Nat /\ Len(M) \in Nat
          BY <1>4, <1>15
        <5> QED BY <5>1, <3>2
      <4>2. i \in DOMAIN M /\ M[i].user = v
        BY <1>15, <3>1, <4>1
      <4> QED BY <4>2
    <3>3. CASE ~(i <= Len(M))
      <4>1. Len(M) = size /\ size \in 1..m + 1 /\ size < i /\ M[size] = all[size]
        <5>1. i \in Nat /\ i <= m + 1 /\ Len(M) < i
          <6>1. m \in Nat /\ Len(M) \in Nat
            BY <1>4, <1>15
          <6> QED BY <6>1, <3>3
        <5>2. Len(M) = size
          <6>1. Len(M) \in Nat /\ m \in Nat /\ (Len(M) = m + 1 \/ Len(M) = size)
            BY <1>4, <1>15
          <6> QED BY <5>1, <6>1
        <5>3. size \in 1..Len(M)
          BY <5>2
        <5> QED BY <1>15, <5>1, <5>2, <5>3
      <4>2. all[size].score >= all[i].score
        BY <1>12, <4>1
      <4>3. all[i].score = q[v] /\ q[v] \in Nat /\ all[size].score \in Nat
        BY <1>13, <1>14, <3>1, <4>1
      <4> QED BY <4>1, <4>2, <4>3
    <3> QED BY <3>2, <3>3
  <2>2. CASE \A i \in 1..m + 1 : all[i].user # v
    <3>1. v # u
      <4>1. k + 1 \in 1..m + 1 /\ all[k + 1].user = u
        BY <1>4, <1>5, <1>6, <1>7
      <4> QED BY <2>2, <4>1
    <3>2. q[v] = points[v] /\ points[v] \in Nat
      BY <3>1
    <3>3. \A i \in 1..m : others[i].user # v
      <4> SUFFICES ASSUME NEW i \in 1..m PROVE others[i].user # v
        OBVIOUS
      <4>1. CASE i <= k
        BY <1>4, <1>5, <1>7, <2>2, <4>1
      <4>2. CASE i > k
        <5>1. i \in k + 1..m /\ i + 1 \in 1..m + 1
          BY <1>4, <1>5, <4>2
        <5> QED BY <1>7, <2>2, <5>1
      <4> QED BY <1>4, <1>5, <4>1, <4>2
    <3>4. \A j \in 1..n : list[j].user # v
      <4> SUFFICES ASSUME NEW j \in 1..n, list[j].user = v PROVE FALSE
        OBVIOUS
      <4>1. list[j].user # u
        BY <3>1
      <4>2. PICK i \in 1..m : others[i] = list[j]
        BY <1>1, <1>3, <1>4, <4>1
      <4> QED BY <3>3, <4>2
    <3>5. CASE points[v] = 0
      BY <3>2, <3>5
    <3>6. CASE n = size /\ points[v] <= list[size].score
      <4>1. \A j \in 1..n : list[j].score >= points[v]
        <5> SUFFICES ASSUME NEW j \in 1..n PROVE list[j].score >= points[v]
          OBVIOUS
        <5>1. size \in 1..n /\ (j = size \/ j < size)
          BY <1>1, <3>6
        <5>2. j < size => list[j].score >= list[size].score
          BY <1>1, <5>1 DEF InOrder
        <5>3. list[j].score \in Nat /\ list[size].score \in Nat
          BY <1>1, <5>1
        <5> QED BY <3>2, <3>6, <5>1, <5>2, <5>3
      <4>2. \A i \in 1..m : others[i].score >= points[v]
        BY <1>1, <1>3, <1>4, <4>1
      <4>3. Len(M) = size
        <5>1. m + 1 >= size /\ m \in Nat
          BY <1>1, <1>3, <1>4, <3>6
        <5>2. Len(M) \in Nat /\ Len(M) <= size /\ (Len(M) = m + 1 \/ Len(M) = size)
          BY <1>15
        <5> QED BY <5>1, <5>2
      <4>4. size \in 1..m + 1 /\ M[size] = all[size]
        BY <1>15, <4>3
      <4>5. CASE \E j \in 1..n : list[j].user = u
        <5>1. score >= points[v]
          <6>1. PICK j \in 1..n : list[j].user = u
            BY <4>5
          <6>2. list[j].score = points[u] /\ list[j].score >= points[v] /\ points[u] \in Nat
            BY <1>1, <4>1, <6>1
          <6> QED BY <3>2, <6>2
        <5>2. all[size].score >= points[v]
          BY <1>6, <1>9, <4>2, <4>4, <5>1
        <5> QED BY <3>2, <4>3, <4>4, <5>2
      <4>6. CASE \A j \in 1..n : list[j].user # u
        <5>1. others = list /\ m = n
          BY <1>1, <1>3, <4>6 DEF m
        <5>2. CASE k + 1 <= size
          <6>1. size \in k + 1..m /\ size + 1 \in 1..m + 1 /\ all[size + 1] = others[size]
            BY <1>1, <1>5, <1>7, <3>6, <5>1, <5>2
          <6>2. all[size].score >= all[size + 1].score
            BY <1>1, <1>12, <4>4, <6>1
          <6>3. others[size].score >= points[v]
            BY <1>1, <4>2, <5>1, <6>1, <4>4
          <6>4. all[size].score \in Nat /\ all[size + 1].score \in Nat
            BY <1>14, <4>4, <6>1
          <6> QED BY <3>2, <4>3, <4>4, <6>1, <6>2, <6>3, <6>4
        <5>3. CASE ~(k + 1 <= size)
          <6>1. size \in 1..k /\ size \in 1..m /\ all[size] = others[size]
            BY <1>1, <1>5, <1>7, <3>6, <5>1, <5>3
          <6>2. all[size].score >= points[v]
            BY <4>2, <6>1
          <6> QED BY <3>2, <4>3, <4>4, <6>2
        <5> QED BY <5>2, <5>3
      <4> QED BY <4>5, <4>6
    <3> QED BY <1>2, <3>4, <3>5, <3>6
  <2> QED BY <2>1, <2>2
<1>17. \A i, j \in DOMAIN M : i < j =>
          M[i].user # M[j].user /\ M[i].score >= M[j].score
  BY <1>12, <1>15
<1>18. \A i \in DOMAIN M : M[i].score = q[M[i].user]
  BY <1>13, <1>15
<1>19. DOMAIN q = U
  OBVIOUS
<1> HIDE DEF q
<1>20. Games!Ranks(M, q, size)
  BY <1>16, <1>17, <1>18, <1>19 DEF Games!Ranks
<1> QED BY <1>15, <1>20 DEF M, q

\* The inductive invariant of the seasons: s8 tells who has ended, s9 has the scores, s10 the
\* boards, s11 the honoured and s12 the podiums.
SeasonsInv ==
    /\ s8 \in Seq(BOOLEAN) /\ s9 \in Seq([contest.Traders -> Nat])
    /\ s10 \in Seq(Seq(Entries(contest.Traders))) /\ s12 \in Seq(SUBSET contest.Traders)
    /\ Len(s9) = Len(s8) /\ Len(s10) = Len(s8) /\ Len(s12) = Len(s8)
    /\ \A s \in 1..Len(s8) :
          /\ Len(s10[s]) <= contest.SeasonPlaces
          /\ Games!Ranks(s10[s], s9[s], contest.SeasonPlaces)
          /\ ~s8[s] => s12[s] = {}
    /\ s11 = UNION {s12[s] : s \in DOMAIN s12}

LEMMA ContestAssumed ==
    /\ contest.SeasonPlaces \in Nat \ {0} /\ contest.BoardSize \in Nat \ {0}
    /\ contest.Volumes \subseteq Nat
BY CoreAssumption DEF Games!GamificationAssumption

\* An empty board ranks those who have no points.
LEMMA EmptyRanks ==
    ASSUME NEW U, NEW size
    PROVE  Games!Ranks(<<>>, [u \in U |-> 0], size)
BY DEF Games!Ranks

\* A list that grows by an entry or has one changed.
LEMMA ListGrows ==
    ASSUME NEW S, NEW L \in Seq(S), NEW x \in S
    PROVE  /\ Append(L, x) \in Seq(S) /\ Len(Append(L, x)) = Len(L) + 1
           /\ Len(L) \in Nat /\ DOMAIN L = 1..Len(L) /\ DOMAIN Append(L, x) = 1..Len(L) + 1
           /\ Append(L, x)[Len(L) + 1] = x
           /\ \A i \in 1..Len(L) : Append(L, x)[i] = L[i]
OBVIOUS

LEMMA ListChanges ==
    ASSUME NEW S, NEW L \in Seq(S), NEW x \in S, NEW k \in 1..Len(L)
    PROVE  /\ [L EXCEPT ![k] = x] \in Seq(S) /\ Len([L EXCEPT ![k] = x]) = Len(L)
           /\ Len(L) \in Nat /\ DOMAIN L = 1..Len(L) /\ DOMAIN [L EXCEPT ![k] = x] = 1..Len(L)
           /\ [L EXCEPT ![k] = x][k] = x
           /\ \A i \in 1..Len(L) : i # k => [L EXCEPT ![k] = x][i] = L[i]
<1>1. /\ [L EXCEPT ![k] = x] \in Seq(S) /\ Len([L EXCEPT ![k] = x]) = Len(L)
      /\ \A i \in 1..Len(L) : [L EXCEPT ![k] = x][i] = IF i = k THEN x ELSE L[i]
  BY ExceptSeq
<1>2. Len(L) \in Nat /\ DOMAIN L = 1..Len(L) /\ DOMAIN [L EXCEPT ![k] = x] = 1..Len(L)
  OBVIOUS
<1> QED BY <1>1, <1>2

LEMMA SeasonsBegin == InSeasons => SeasonsInv
<1> SUFFICES ASSUME InSeasons PROVE SeasonsInv
  OBVIOUS
<1>1. s8 = <<>> /\ s9 = <<>> /\ s10 = <<>> /\ s11 = {} /\ s12 = <<>>
  BY DEF InSeasons, Games!Init
<1>2. 1..Len(s8) = {} /\ Len(s8) = 0 /\ Len(s9) = 0 /\ Len(s10) = 0 /\ Len(s12) = 0
  BY <1>1
<1>3. DOMAIN s12 = {}
  BY <1>1
<1>4. UNION {s12[s] : s \in DOMAIN s12} = {}
  BY <1>3
<1> QED BY <1>1, <1>2, <1>4 DEF SeasonsInv

LEMMA SeasonStarts ==
    ASSUME SeasonsInv, Games!StartSeason
    PROVE  SeasonsInv'
<1> DEFINE n == Len(s8)
           zero == [u \in contest.Traders |-> 0]
<1>1. /\ s8' = Append(s8, FALSE) /\ s9' = Append(s9, zero) /\ s10' = Append(s10, <<>>)
      /\ s12' = Append(s12, {}) /\ s11' = s11
  BY DEF Games!StartSeason
<1>2. /\ s8 \in Seq(BOOLEAN) /\ s9 \in Seq([contest.Traders -> Nat])
      /\ s10 \in Seq(Seq(Entries(contest.Traders))) /\ s12 \in Seq(SUBSET contest.Traders)
      /\ Len(s9) = n /\ Len(s10) = n /\ Len(s12) = n
  BY DEF SeasonsInv
<1>3. /\ zero \in [contest.Traders -> Nat] /\ <<>> \in Seq(Entries(contest.Traders))
      /\ {} \in SUBSET contest.Traders /\ FALSE \in BOOLEAN
  OBVIOUS
<1>4. Games!Ranks(<<>>, zero, contest.SeasonPlaces)
  BY EmptyRanks
<1> HIDE DEF zero
<1>5. s8' \in Seq(BOOLEAN) /\ Len(s8') = n + 1 /\ n \in Nat /\ \A s \in 1..n : s8'[s] = s8[s]
  BY <1>1, <1>2, <1>3, ListGrows
<1>6. /\ s9' \in Seq([contest.Traders -> Nat]) /\ Len(s9') = n + 1 /\ s9'[n + 1] = zero
      /\ \A s \in 1..n : s9'[s] = s9[s]
  BY <1>1, <1>2, <1>3, ListGrows
<1>7. /\ s10' \in Seq(Seq(Entries(contest.Traders))) /\ Len(s10') = n + 1
      /\ s10'[n + 1] = <<>> /\ \A s \in 1..n : s10'[s] = s10[s]
  BY <1>1, <1>2, <1>3, ListGrows
<1>8. /\ s12' \in Seq(SUBSET contest.Traders) /\ Len(s12') = n + 1 /\ s12'[n + 1] = {}
      /\ \A s \in 1..n : s12'[s] = s12[s]
      /\ DOMAIN s12 = 1..n /\ DOMAIN s12' = 1..n + 1
  BY <1>1, <1>2, <1>3, ListGrows
<1>9. ASSUME NEW s \in 1..n + 1
      PROVE  /\ Len(s10'[s]) <= contest.SeasonPlaces
             /\ Games!Ranks(s10'[s], s9'[s], contest.SeasonPlaces)
             /\ ~s8'[s] => s12'[s] = {}
  <2>1. CASE s = n + 1
    <3>1. Len(<<>>) = 0
      OBVIOUS
    <3> QED BY <1>4, <1>6, <1>7, <1>8, <2>1, <3>1, ContestAssumed
  <2>2. CASE s # n + 1
    <3>1. s \in 1..n
      BY <1>5, <2>2
    <3> QED BY <1>5, <1>6, <1>7, <1>8, <3>1 DEF SeasonsInv
  <2> QED BY <2>1, <2>2
<1>10. UNION {s12'[s] : s \in DOMAIN s12'} = UNION {s12[s] : s \in DOMAIN s12}
  <2>1. \A s \in 1..n + 1 : s \in 1..n \/ s = n + 1
    BY <1>5
  <2>2. \A s \in 1..n : s \in 1..n + 1
    BY <1>5
  <2> HIDE DEF n
  <2>3. ASSUME NEW x, NEW s \in DOMAIN s12', x \in s12'[s]
        PROVE  \E t \in DOMAIN s12 : x \in s12[t]
    BY <1>8, <2>1, <2>3
  <2>4. ASSUME NEW x, NEW s \in DOMAIN s12, x \in s12[s]
        PROVE  \E t \in DOMAIN s12' : x \in s12'[t]
    BY <1>8, <2>2, <2>4
  <2> QED BY <2>3, <2>4
<1> HIDE DEF n
<1> QED BY <1>1, <1>5, <1>6, <1>7, <1>8, <1>9, <1>10 DEF SeasonsInv

LEMMA SeasonEnds ==
    ASSUME SeasonsInv, Games!EndSeason
    PROVE  SeasonsInv'
<1> DEFINE n == Len(s8)
           honoured == {s10[n][i].user : i \in {j \in DOMAIN s10[n] : j <= contest.Podium}}
<1>1. /\ n > 0 /\ ~s8[n] /\ s8' = [s8 EXCEPT ![n] = TRUE] /\ s11' = s11 \cup honoured
      /\ s12' = [s12 EXCEPT ![n] = honoured] /\ s9' = s9 /\ s10' = s10
  BY DEF Games!EndSeason
<1>2. /\ s8 \in Seq(BOOLEAN) /\ s10 \in Seq(Seq(Entries(contest.Traders)))
      /\ s12 \in Seq(SUBSET contest.Traders) /\ Len(s10) = n /\ Len(s12) = n
      /\ n \in 1..n /\ DOMAIN s10 = 1..n /\ DOMAIN s12 = 1..n
  BY <1>1 DEF SeasonsInv
<1>3. honoured \in SUBSET contest.Traders
  <2>1. s10[n] \in Seq(Entries(contest.Traders))
    BY <1>2
  <2>2. \A i \in DOMAIN s10[n] : s10[n][i] \in Entries(contest.Traders)
    BY <2>1
  <2>3. \A i \in DOMAIN s10[n] : s10[n][i].user \in contest.Traders
    BY <2>2, EntryTyped
  <2> QED BY <2>3
<1> HIDE DEF honoured
<1>4. s8' \in Seq(BOOLEAN) /\ Len(s8') = n /\ s8'[n] /\ \A s \in 1..n : s # n => s8'[s] = s8[s]
  <2>1. TRUE \in BOOLEAN /\ n \in 1..Len(s8) /\ s8 \in Seq(BOOLEAN)
    BY <1>2
  <2>2. s8' \in Seq(BOOLEAN)
    BY <1>1, <2>1, ListChanges
  <2>3. Len(s8') = Len(s8)
    BY <1>1, <2>1, ListChanges
  <2>4. s8'[n]
    BY <1>1, <2>1, ListChanges
  <2>5. \A s \in 1..Len(s8) : s # n => s8'[s] = s8[s]
    BY <1>1, <2>1, ListChanges
  <2> QED BY <2>2, <2>3, <2>4, <2>5
<1>5. /\ s12' \in Seq(SUBSET contest.Traders) /\ Len(s12') = n /\ s12'[n] = honoured
      /\ \A s \in 1..n : s # n => s12'[s] = s12[s]
      /\ DOMAIN s12' = 1..n
  <2>1. n \in 1..Len(s12) /\ s12 \in Seq(SUBSET contest.Traders)
    BY <1>2
  <2> HIDE DEF n
  <2>2. s12' \in Seq(SUBSET contest.Traders)
    BY <1>1, <1>3, <2>1, ListChanges
  <2>3. Len(s12') = Len(s12)
    BY <1>1, <1>3, <2>1, ListChanges
  <2>4. s12'[n] = honoured
    BY <1>1, <1>3, <2>1, ListChanges
  <2>5. \A s \in 1..Len(s12) : s # n => s12'[s] = s12[s]
    BY <1>1, <1>3, <2>1, ListChanges
  <2>6. DOMAIN s12' = 1..Len(s12)
    BY <1>1, <1>3, <2>1, ListChanges
  <2> QED BY <1>2, <2>2, <2>3, <2>4, <2>5, <2>6
<1>6. s12[n] = {}
  BY <1>1, <1>2 DEF SeasonsInv
<1>7. UNION {s12'[s] : s \in DOMAIN s12'} =
          (UNION {s12[s] : s \in DOMAIN s12}) \cup honoured
  <2> HIDE DEF n
  <2>1. ASSUME NEW x, NEW s \in DOMAIN s12', x \in s12'[s]
        PROVE  x \in honoured \/ \E t \in DOMAIN s12 : x \in s12[t]
    BY <1>2, <1>5, <2>1
  <2>2. ASSUME NEW x, NEW s \in DOMAIN s12, x \in s12[s]
        PROVE  \E t \in DOMAIN s12' : x \in s12'[t]
    BY <1>2, <1>5, <1>6, <2>2
  <2>3. \A x \in honoured : \E t \in DOMAIN s12' : x \in s12'[t]
    <3>1. n \in DOMAIN s12' /\ s12'[n] = honoured
      <4>1. n \in 1..n /\ DOMAIN s12' = 1..n /\ s12'[n] = honoured
        BY <1>2, <1>5
      <4> QED BY <4>1
    <3> DEFINE d == DOMAIN s12'
    <3>2. n \in d
      BY <3>1
    <3> HIDE DEF d
    <3>3. \A x \in honoured : \E t \in d : x \in s12'[t]
      BY <3>1, <3>2
    <3> QED BY <3>3 DEF d
  <2> QED BY <2>1, <2>2, <2>3
<1>8. ASSUME NEW s \in 1..n PROVE ~s8'[s] => s12'[s] = {}
  <2>1. CASE s = n
    BY <1>4, <2>1
  <2>2. CASE s # n
    BY <1>4, <1>5, <2>2 DEF SeasonsInv
  <2> QED BY <2>1, <2>2
<1> HIDE DEF n
<1>9. s11 = UNION {s12[s] : s \in DOMAIN s12}
  BY DEF SeasonsInv
<1>10. \A s \in 1..n : /\ Len(s10[s]) <= contest.SeasonPlaces
                       /\ Games!Ranks(s10[s], s9[s], contest.SeasonPlaces)
  BY DEF SeasonsInv, n
<1>11. s9 \in Seq([contest.Traders -> Nat]) /\ Len(s9) = n
  BY DEF SeasonsInv, n
<1> QED BY <1>1, <1>2, <1>4, <1>5, <1>7, <1>8, <1>9, <1>10, <1>11 DEF SeasonsInv

LEMMA SeasonCounts ==
    ASSUME SeasonsInv, NEW u \in contest.Traders, NEW v \in contest.Volumes,
           Games!UpdateUserScore(u, v)
    PROVE  SeasonsInv'
<1> DEFINE n == Len(s8)
           score == s9[n][u] + v
           size == contest.SeasonPlaces
           list == Games!Placed(s10[n], u, score, size)
           row == [s9[n] EXCEPT ![u] = score]
<1>1. /\ n > 0 /\ s9' = [s9 EXCEPT ![n] = row] /\ s10' = [s10 EXCEPT ![n] = list]
      /\ s8' = s8 /\ s11' = s11 /\ s12' = s12
  <2>1. /\ n > 0 /\ s9' = [s9 EXCEPT ![n][u] = score] /\ s10' = [s10 EXCEPT ![n] = list]
        /\ s8' = s8 /\ s11' = s11 /\ s12' = s12
    BY DEF Games!UpdateUserScore
  <2> QED BY <2>1
<1>2. /\ s9 \in Seq([contest.Traders -> Nat]) /\ s10 \in Seq(Seq(Entries(contest.Traders)))
      /\ Len(s9) = n /\ Len(s10) = n /\ n \in 1..n /\ s8 \in Seq(BOOLEAN)
  BY <1>1 DEF SeasonsInv
<1>3. /\ s9[n] \in [contest.Traders -> Nat] /\ s10[n] \in Seq(Entries(contest.Traders))
      /\ Len(s10[n]) <= size /\ Games!Ranks(s10[n], s9[n], size)
  BY <1>2 DEF SeasonsInv
<1>4. score \in Nat /\ score >= s9[n][u] /\ size \in Nat \ {0}
  BY <1>3, ContestAssumed
<1>5. row \in [contest.Traders -> Nat]
  BY <1>3, <1>4
<1>6. /\ list \in Seq(Entries(contest.Traders)) /\ Len(list) <= size
      /\ Games!Ranks(list, row, size)
  <2> DEFINE old == s10[n]
             points == s9[n]
  <2>1. /\ old \in Seq(Entries(contest.Traders)) /\ points \in [contest.Traders -> Nat]
        /\ Len(old) <= size /\ Games!Ranks(old, points, size) /\ score >= points[u]
    BY <1>3, <1>4
  <2> HIDE DEF old, points, score, size
  <2>2. LET M == Games!Placed(old, u, score, size)
        IN  /\ M \in Seq(Entries(contest.Traders)) /\ Len(M) <= size
            /\ Games!Ranks(M, [points EXCEPT ![u] = score], size)
    BY <1>4, <2>1, PlacedRanks
  <2> QED BY <2>2 DEF old, points, score, size
<1> HIDE DEF list, row
<1>7. /\ s9' \in Seq([contest.Traders -> Nat]) /\ Len(s9') = n /\ s9'[n] = row
      /\ \A s \in 1..n : s # n => s9'[s] = s9[s]
  BY <1>1, <1>2, <1>5, ListChanges
<1>8. /\ s10' \in Seq(Seq(Entries(contest.Traders))) /\ Len(s10') = n /\ s10'[n] = list
      /\ \A s \in 1..n : s # n => s10'[s] = s10[s]
  BY <1>1, <1>2, <1>6, ListChanges
<1>9. ASSUME NEW s \in 1..n
      PROVE  /\ Len(s10'[s]) <= size /\ Games!Ranks(s10'[s], s9'[s], size)
  <2>1. CASE s = n
    BY <1>6, <1>7, <1>8, <2>1
  <2>2. CASE s # n
    BY <1>7, <1>8, <2>2 DEF SeasonsInv
  <2> QED BY <2>1, <2>2
<1>10. /\ \A s \in 1..n : ~s8[s] => s12[s] = {}
       /\ s11 = UNION {s12[s] : s \in DOMAIN s12} /\ s12 \in Seq(SUBSET contest.Traders)
       /\ Len(s12) = n
  BY DEF SeasonsInv
<1> HIDE DEF score
<1> QED BY <1>1, <1>2, <1>7, <1>8, <1>9, <1>10 DEF SeasonsInv

LEMMA SeasonsGoOn ==
    ASSUME SeasonsInv, Games!SeasonsNext
    PROVE  SeasonsInv'
BY SeasonStarts, SeasonEnds, SeasonCounts DEF Games!SeasonsNext

\* The rankings of all seasons, and the badges.
LEMMA SeasonsRank == SeasonsInv => Games!SeasonsRankTraders
<1> SUFFICES ASSUME SeasonsInv PROVE Games!SeasonsRankTraders
  OBVIOUS
<1>1. DOMAIN s10 = 1..Len(s8)
  BY DEF SeasonsInv
<1>2. \A s \in DOMAIN s10 : Games!Ranks(s10[s], s9[s], contest.SeasonPlaces)
  BY <1>1 DEF SeasonsInv
<1>3. s11 = UNION {s12[s] : s \in DOMAIN s12}
  BY DEF SeasonsInv
<1> QED BY <1>2, <1>3 DEF Games!SeasonsRankTraders

-----------------------------------------------------------------------------
(* The challenges and the leaderboard.                                     *)

\* Who scored what, and which board ranks them.
ScoresOf(P) == [u \in contest.Users |-> P[u].score]

BoardSound(P, B) ==
    /\ P \in [contest.Users -> Games!Profile] /\ B \in Seq(Entries(contest.Users))
    /\ Len(B) <= contest.BoardSize /\ Games!Ranks(B, ScoresOf(P), contest.BoardSize)

\* The challenges C and who takes part in them, G.
Joins == UNION {[D -> Games!Progress] : D \in SUBSET contest.Users}

JoinedSound(C, G) ==
    /\ C \in Seq(Games!Challenge) /\ G \in Seq(Joins) /\ Len(G) = Len(C)
    /\ \A c \in 1..Len(C) :
          /\ IsFiniteSet(DOMAIN G[c]) /\ C[c].joined = Cardinality(DOMAIN G[c])
          /\ C[c].places > 0 => C[c].joined <= C[c].places

\* The payments of H were claimed in G, each once.
Payment == [user : contest.Users, amount : Nat, challenge : Nat]

Claims(G, c, u) == c \in DOMAIN G /\ u \in DOMAIN G[c] /\ G[c][u].claimed

HistorySound(H, G) ==
    /\ H \in Seq(Payment)
    /\ \A i \in DOMAIN H : H[i].challenge > 0 => Claims(G, H[i].challenge, H[i].user)
    /\ \A i, j \in DOMAIN H :
          H[i].challenge > 0 /\ H[i].user = H[j].user /\ H[i].challenge = H[j].challenge => i = j

\* The payments of H are in the accounts of P.
PaidTo(H, u, ids) ==
    Total([i \in DOMAIN H |->
              IF H[i].user = u /\ H[i].challenge \in ids THEN H[i].amount ELSE 0],
          Len(H))

AccountsSound(P, H) ==
    \A u \in contest.Users : /\ PaidTo(H, u, Nat \ {0}) = P[u].pending + P[u].earned
                             /\ PaidTo(H, u, {0}) = P[u].earned

\* The inductive invariant of the challenges.
GamesInv ==
    /\ s2 \in [contest.Users -> SUBSET DOMAIN contest.Points] /\ s7 \in Nat
    /\ BoardSound(s1, s3) /\ JoinedSound(s4, s5)
    /\ HistorySound(s6, s5) /\ AccountsSound(s1, s6)

LEMMA GamesAssumed ==
    /\ contest.BoardSize \in Nat \ {0} /\ contest.StreakStep \in Nat \ {0}
    /\ contest.Champion \in contest.OtherBadges
    /\ IsFiniteSet(contest.TradingBadges) /\ IsFiniteSet(contest.OtherBadges)
    /\ DOMAIN contest.Points = contest.TradingBadges \cup contest.OtherBadges
                                 \cup {contest.Master, contest.Champion}
    /\ \A b \in DOMAIN contest.Points : contest.Points[b] \in Nat
    /\ contest.StreakBonuses \in Seq(Nat \X Nat)
    /\ contest.TierScores \in Seq(Nat) /\ contest.TierParts \in Seq(Nat)
    /\ Len(contest.TierScores) = Len(contest.TierParts)
    /\ Len(contest.TierScores) > 0 /\ contest.TierScores[1] = 0
    /\ {contest.Day, contest.Completion, contest.ChampionWins} \subseteq Nat
    /\ contest.Pools \subseteq Nat /\ contest.Places \subseteq Nat
    /\ contest.Durations \subseteq Nat
<1>1. Games!GamificationAssumption
  BY CoreAssumption
<1>2. Games!IsFiniteSet(contest.TradingBadges) /\ Games!IsFiniteSet(contest.OtherBadges)
  BY <1>1 DEF Games!GamificationAssumption
<1>3. IsFiniteSet(contest.TradingBadges) /\ IsFiniteSet(contest.OtherBadges)
  BY <1>2 DEF Games!IsFiniteSet, IsFiniteSet
<1>4. contest.TierScores \in Seq(Nat) /\ contest.TierScores # <<>>
  BY <1>1 DEF Games!GamificationAssumption
<1>5. Len(contest.TierScores) > 0
  BY <1>4
<1>6. contest.Points \in [contest.TradingBadges \cup contest.OtherBadges
          \cup {contest.Master, contest.Champion} -> Nat \ {0}]
  BY <1>1 DEF Games!GamificationAssumption
<1> QED BY <1>1, <1>3, <1>4, <1>5, <1>6 DEF Games!GamificationAssumption

LEMMA GamesTotals ==
    /\ \A f, n : Games!Total(f, n) = Total(f, n)
    /\ \A f, S : Games!SetTotal(f, S) = SetTotal(f, S)
    /\ \A S : Games!Cardinality(S) = Cardinality(S)
<1>1. \A f, n : Games!Total(f, n) = Total(f, n)
  BY DEF Games!Total, Total, Games!PartialSums, PartialSums
<1>2. \A S : Games!Cardinality(S) = Cardinality(S)
  BY DEF Games!Cardinality, Cardinality
<1>3. ASSUME NEW f, NEW S PROVE Games!SetTotal(f, S) = SetTotal(f, S)
  <2>1. Games!Cardinality(S) = Cardinality(S)
    BY <1>2
  <2>2. Games!Enumeration(S) = Enumeration(S)
    BY <2>1 DEF Games!Enumeration, Enumeration
  <2> QED BY <1>1, <2>1, <2>2 DEF Games!SetTotal, SetTotal
<1> QED BY <1>1, <1>2, <1>3

\* The greater and the smaller of two numbers are numbers.
LEMMA OneOfTwo ==
    ASSUME NEW a \in Nat, NEW b \in Nat
    PROVE  Games!Min({a, b}) \in Nat /\ Games!Max({a, b}) \in Nat
<1>1. \E x \in {a, b} : \A y \in {a, b} : x <= y
  BY a <= b \/ b <= a
<1>2. \E x \in {a, b} : \A y \in {a, b} : x >= y
  BY a <= b \/ b <= a
<1>3. Games!Min({a, b}) \in {a, b}
  BY <1>1 DEF Games!Min
<1>4. Games!Max({a, b}) \in {a, b}
  BY <1>2 DEF Games!Max
<1> QED BY <1>3, <1>4

\* The fields of a profile.
LEMMA ProfileTyped ==
    ASSUME NEW p \in Games!Profile
    PROVE  /\ p.score \in Nat /\ p.streak \in Nat /\ p.daily \in Nat /\ p.bestDaily \in Nat
           /\ p.seen \in Nat /\ p.won \in Nat /\ p.joined \in Nat /\ p.earned \in Nat
           /\ p.pending \in Nat
BY DEF Games!Profile

\* Every score has its tier.
LEMMA TierIs ==
    ASSUME NEW score \in Nat
    PROVE  Games!Tier(score) \in 1..Len(contest.TierScores)
<1> DEFINE T == contest.TierScores
           n == Len(T)
           D == {d \in Nat : d < n /\ T[n - d] <= score}
<1>1. n \in Nat /\ n > 0 /\ DOMAIN T = 1..n /\ T[1] = 0 /\ \A i \in 1..n : T[i] \in Nat
  <2>1. T \in Seq(Nat) /\ n > 0 /\ T[1] = 0
    BY GamesAssumed
  <2> HIDE DEF T
  <2> QED BY <2>1
<1> HIDE DEF T, n
<1>2. n - 1 \in D
  <2>1. n - (n - 1) = 1 /\ n - 1 \in Nat /\ n - 1 < n
    BY <1>1
  <2> QED BY <1>1, <2>1
<1>3. PICK d \in D : \A e \in D : d <= e
  <2>1. D \subseteq Nat /\ D # {}
    BY <1>2
  <2> HIDE DEF D
  <2> QED BY <2>1, LeastNatural
<1> DEFINE i == n - d
<1>4. i \in 1..n /\ T[i] <= score
  BY <1>1, <1>3
<1>5. ASSUME NEW j \in i + 1..n PROVE score < T[j]
  <2>1. n - j \in Nat /\ n - j < n /\ n - (n - j) = j /\ n - j < d /\ j \in 1..n
    BY <1>1, <1>3, <1>4
  <2>2. n - j \notin D
    BY <1>3, <2>1
  <2> QED BY <1>1, <2>1, <2>2
<1> HIDE DEF i
<1>6. \E k \in DOMAIN T : T[k] <= score /\ \A j \in k + 1..n : score < T[j]
  BY <1>1, <1>4, <1>5
<1>7. Games!Tier(score) \in DOMAIN T
  BY <1>6 DEF Games!Tier, T, n
<1> QED BY <1>1, <1>7 DEF T, n

\* A score that grows, and its place on the board.
LEMMA ScoreGrows ==
    ASSUME GamesInv, NEW u \in contest.Users, NEW p \in Games!Profile, p.score = s1[u].score,
           NEW points \in Nat, Games!Scored(u, p, points)
    PROVE  /\ BoardSound(s1', s3')
           /\ \A v \in contest.Users : v # u => s1'[v] = s1[v]
           /\ s1'[u].pending = p.pending /\ s1'[u].earned = p.earned
<1> DEFINE score == p.score + points
           new == [p EXCEPT !.score = @ + points]
           size == contest.BoardSize
           q == ScoresOf(s1)
<1>1. /\ s1' = [s1 EXCEPT ![u] = new]
      /\ s3' = IF points = 0 THEN s3 ELSE Games!Placed(s3, u, score, size)
  BY DEF Games!Scored
<1>2. /\ s1 \in [contest.Users -> Games!Profile] /\ s3 \in Seq(Entries(contest.Users))
      /\ Len(s3) <= size /\ Games!Ranks(s3, q, size)
  BY DEF GamesInv, BoardSound
<1>3. /\ new \in Games!Profile /\ new.score = score /\ new.pending = p.pending
      /\ new.earned = p.earned
  BY DEF Games!Profile
<1>4. score \in Nat /\ score >= q[u] /\ (points = 0 => score = q[u])
  <2>1. p.score \in Nat /\ q[u] = p.score
    BY ProfileTyped DEF ScoresOf
  <2> QED BY <2>1
<1> HIDE DEF new, score
<1>5. /\ s1' \in [contest.Users -> Games!Profile] /\ s1'[u] = new
      /\ \A v \in contest.Users : v # u => s1'[v] = s1[v]
  BY <1>1, <1>2, <1>3
<1>6. ScoresOf(s1') = [q EXCEPT ![u] = score]
  BY <1>3, <1>5 DEF ScoresOf
<1>7. q \in [contest.Users -> Nat] /\ size \in Nat \ {0}
  BY <1>2, ProfileTyped, GamesAssumed DEF ScoresOf
<1> HIDE DEF q, size
<1>8. /\ s3' \in Seq(Entries(contest.Users)) /\ Len(s3') <= size
      /\ Games!Ranks(s3', [q EXCEPT ![u] = score], size)
  <2>1. CASE points = 0
    <3>1. [q EXCEPT ![u] = score] = q
      BY <1>4, <1>7, <2>1
    <3> QED BY <1>1, <1>2, <2>1, <3>1
  <2>2. CASE points # 0
    <3>1. LET M == Games!Placed(s3, u, score, size)
          IN  /\ M \in Seq(Entries(contest.Users)) /\ Len(M) <= size
              /\ Games!Ranks(M, [q EXCEPT ![u] = score], size)
      BY <1>2, <1>4, <1>7, PlacedRanks
    <3> QED BY <1>1, <2>2, <3>1
  <2> QED BY <2>1, <2>2
<1>9. BoardSound(s1', s3')
  BY <1>5, <1>6, <1>8 DEF BoardSound, size
<1> QED BY <1>3, <1>5, <1>9

\* A profile that changes without its score.
LEMMA ScoreStays ==
    ASSUME GamesInv, NEW u \in contest.Users, NEW p \in Games!Profile, p.score = s1[u].score,
           s1' = [s1 EXCEPT ![u] = p], s3' = s3
    PROVE  /\ BoardSound(s1', s3')
           /\ \A v \in contest.Users : v # u => s1'[v] = s1[v]
           /\ s1'[u] = p
<1>1. s1 \in [contest.Users -> Games!Profile]
  BY DEF GamesInv, BoardSound
<1>2. /\ s1' \in [contest.Users -> Games!Profile] /\ s1'[u] = p
      /\ \A v \in contest.Users : v # u => s1'[v] = s1[v]
  BY <1>1
<1>3. ScoresOf(s1') = ScoresOf(s1)
  BY <1>2 DEF ScoresOf
<1> QED BY <1>2, <1>3 DEF BoardSound, GamesInv

\* What badges and streaks are worth.
LEMMA BadgesAreWorth ==
    ASSUME NEW S, S \subseteq DOMAIN contest.Points
    PROVE  Games!PointsOf(S) \in Nat
<1>1. IsFiniteSet(DOMAIN contest.Points)
  <2> DEFINE A == contest.TradingBadges \cup contest.OtherBadges
             B == A \cup {contest.Master}
  <2>1. IsFiniteSet(A)
    BY GamesAssumed, FS_Union
  <2>2. IsFiniteSet(B)
    <3> HIDE DEF A
    <3> QED BY <2>1, FS_AddElement
  <2>3. IsFiniteSet(B \cup {contest.Champion})
    <3> HIDE DEF B
    <3> QED BY <2>2, FS_AddElement
  <2>4. DOMAIN contest.Points = B \cup {contest.Champion}
    BY GamesAssumed
  <2> QED BY <2>3, <2>4
<1>2. IsFiniteSet(S)
  BY <1>1, FS_Subset
<1>3. \A b \in S : contest.Points[b] \in Nat
  BY GamesAssumed
<1>4. SetTotal(contest.Points, S) \in Nat
  BY <1>2, <1>3, SetTotalDominates
<1> QED BY <1>4, GamesTotals DEF Games!PointsOf

LEMMA StreaksAreWorth ==
    ASSUME NEW streak \in Nat
    PROVE  Games!StreakPoints(streak) \in Nat
<1> DEFINE B == contest.StreakBonuses
           f == [k \in DOMAIN B |-> IF streak >= B[k][1] THEN B[k][2] ELSE 0]
<1>1. Len(B) \in Nat /\ DOMAIN B = 1..Len(B) /\ \A k \in 1..Len(B) : B[k][2] \in Nat
  <2>1. B \in Seq(Nat \X Nat)
    BY GamesAssumed
  <2> HIDE DEF B
  <2>2. \A k \in 1..Len(B) : B[k] \in Nat \X Nat
    BY <2>1
  <2> QED BY <2>1, <2>2
<1>2. Games!StreakPoints(streak) = Total(f, Len(B))
  BY GamesTotals DEF Games!StreakPoints
<1> HIDE DEF B
<1>3. \A k \in 1..Len(B) : f[k] \in Nat
  BY <1>1
<1> HIDE DEF f
<1>4. Total(f, Len(B)) \in Nat
  BY <1>1, <1>3, TotalDominates
<1> QED BY <1>2, <1>4

\* A reward is a natural number.
LEMMA RewardIs ==
    ASSUME GamesInv, NEW u \in contest.Users, NEW c \in DOMAIN s4
    PROVE  Games!Reward(u, c) \in Nat
<1> DEFINE a == s4[c].pool \div 10
           b == contest.TierParts[Games!Tier(s1[u].score)]
           d == (s1[u].streak \div contest.StreakStep) * 1000
           e == 10000 + Games!Min({d, 10000})
<1>1. s1[u].score \in Nat /\ s1[u].streak \in Nat
  BY ProfileTyped DEF GamesInv, BoardSound
<1>2. a \in Nat
  <2>1. s4[c] \in Games!Challenge
    BY DEF GamesInv, JoinedSound
  <2>2. s4[c].pool \in Nat
    BY <2>1 DEF Games!Challenge
  <2> QED BY <2>2, RoundedDown
<1>3. b \in Nat
  <2> DEFINE k == Games!Tier(s1[u].score)
             T == contest.TierParts
  <2>1. T \in Seq(Nat) /\ k \in 1..Len(T)
    BY <1>1, TierIs, GamesAssumed
  <2> HIDE DEF k, T
  <2>2. T[k] \in Nat
    BY <2>1
  <2> QED BY <2>2 DEF k, T
<1>4. d \in Nat
  <2>1. s1[u].streak \div contest.StreakStep \in Nat
    BY <1>1, GamesAssumed, RoundedDown
  <2> QED BY <2>1
<1>5. e \in Nat
  <2> HIDE DEF d
  <2>1. Games!Min({d, 10000}) \in Nat
    BY <1>4, OneOfTwo
  <2> QED BY <2>1
<1>6. Games!Reward(u, c) = (a * b * e) \div (10000 * 10000)
  BY DEF Games!Reward
<1> HIDE DEF a, b, e
<1>7. a * b * e \in Nat
  <2>1. a * b \in Nat
    BY <1>2, <1>3, ProductNat
  <2> QED BY <1>5, <2>1, ProductNat
<1>8. (a * b * e) \div (10000 * 10000) \in Nat
  <2> DEFINE x == a * b * e
  <2>1. x \in Nat
    BY <1>7
  <2> HIDE DEF x
  <2>2. x \div (10000 * 10000) \in Nat
    BY <2>1, RoundedDown
  <2> QED BY <2>2 DEF x
<1> QED BY <1>6, <1>8

\* One more payment.
LEMMA PaymentAdds ==
    ASSUME NEW H \in Seq(Payment), NEW x \in Payment, NEW u, NEW ids
    PROVE  /\ PaidTo(H, u, ids) \in Nat
           /\ PaidTo(Append(H, x), u, ids) = PaidTo(H, u, ids)
                + (IF x.user = u /\ x.challenge \in ids THEN x.amount ELSE 0)
<1> DEFINE n == Len(H)
           K == Append(H, x)
           At(e) == IF e.user = u /\ e.challenge \in ids THEN e.amount ELSE 0
           f == [i \in DOMAIN H |-> At(H[i])]
           g == [i \in DOMAIN K |-> At(K[i])]
<1>1. \A e \in Payment : At(e) \in Nat
  BY DEF Payment
<1>2. /\ n \in Nat /\ Len(K) = n + 1 /\ DOMAIN H = 1..n /\ DOMAIN K = 1..n + 1
      /\ K[n + 1] = x /\ \A j \in 1..n : K[j] = H[j]
      /\ \A j \in 1..n : H[j] \in Payment
  <2>1. \A j \in 1..n : H[j] \in Payment
    OBVIOUS
  <2> QED BY <2>1, OneMoreEvent
<1>3. PaidTo(H, u, ids) = Total(f, n) /\ PaidTo(K, u, ids) = Total(g, n + 1)
  BY <1>2 DEF PaidTo
<1> HIDE DEF At, K, n
<1>4. \A k \in 1..n : f[k] \in Nat /\ f[k] \in Int /\ g[k] = f[k]
  BY <1>1, <1>2
<1>5. g[n + 1] = At(x) /\ At(x) \in Int
  BY <1>1, <1>2
<1> HIDE DEF f, g
<1>6. Total(f, n) \in Nat
  BY <1>2, <1>4, TotalDominates
<1>7. Total(g, n + 1) = Total(f, n) + g[n + 1]
  BY <1>2, <1>4, <1>5, TotalGrows
<1> QED BY <1>3, <1>5, <1>6, <1>7 DEF At, K

\* A history that is sound says so also when more has been claimed, and with one more
\* payment of a claim that was not paid.
LEMMA HistoryKept ==
    ASSUME NEW H, NEW G, NEW K, HistorySound(H, G),
           \A c, v : Claims(G, c, v) => Claims(K, c, v)
    PROVE  HistorySound(H, K)
BY DEF HistorySound

LEMMA HistoryGrows ==
    ASSUME NEW H, NEW G, HistorySound(H, G), NEW x \in Payment,
           x.challenge > 0 =>
               /\ Claims(G, x.challenge, x.user)
               /\ \A i \in DOMAIN H : ~(H[i].user = x.user /\ H[i].challenge = x.challenge)
    PROVE  HistorySound(Append(H, x), G)
<1> DEFINE n == Len(H)
           K == Append(H, x)
<1>1. H \in Seq(Payment)
  BY DEF HistorySound
<1>2. /\ K \in Seq(Payment) /\ n \in Nat /\ DOMAIN H = 1..n /\ DOMAIN K = 1..n + 1
      /\ K[n + 1] = x /\ \A j \in 1..n : K[j] = H[j]
  BY <1>1, OneMoreEvent
<1> HIDE DEF K, n
<1>3. \A i \in 1..n + 1 : i \in 1..n \/ i = n + 1
  BY <1>2
<1>4. ASSUME NEW i \in 1..n + 1, K[i].challenge > 0 PROVE Claims(G, K[i].challenge, K[i].user)
  <2>1. CASE i \in 1..n
    BY <1>2, <1>4, <2>1 DEF HistorySound
  <2>2. CASE i = n + 1
    BY <1>2, <1>4, <2>2
  <2> QED BY <1>3, <2>1, <2>2
<1>5. ASSUME NEW i \in 1..n + 1, NEW j \in 1..n + 1, K[i].challenge > 0,
             K[i].user = K[j].user, K[i].challenge = K[j].challenge
      PROVE  i = j
  <2>1. CASE i \in 1..n /\ j \in 1..n
    BY <1>2, <1>5, <2>1 DEF HistorySound
  <2>2. CASE i = n + 1 /\ j \in 1..n
    BY <1>2, <1>5, <2>2
  <2>3. CASE i \in 1..n /\ j = n + 1
    BY <1>2, <1>5, <2>3
  <2>4. CASE i = n + 1 /\ j = n + 1
    BY <2>4
  <2> QED BY <1>3, <2>1, <2>2, <2>3, <2>4
<1>6. HistorySound(K, G)
  BY <1>2, <1>4, <1>5 DEF HistorySound
<1> QED BY <1>6 DEF K

\* What is noted about somebody in a challenge.
LEMMA ProgressNoted ==
    ASSUME GamesInv, NEW u \in contest.Users, NEW c \in DOMAIN s4, NEW p \in Games!Progress
    PROVE  LET G == Games!WithProgress(u, c, p)
           IN  /\ G \in Seq(Joins) /\ Len(G) = Len(s4) /\ DOMAIN G = 1..Len(s4)
               /\ DOMAIN s5 = 1..Len(s4) /\ c \in 1..Len(s4)
               /\ DOMAIN G[c] = DOMAIN s5[c] \cup {u} /\ G[c][u] = p
               /\ \A v \in DOMAIN s5[c] : v # u => G[c][v] = s5[c][v]
               /\ \A d \in 1..Len(s4) : d # c => G[d] = s5[d]
<1> DEFINE g == [v \in DOMAIN s5[c] \cup {u} |-> IF v = u THEN p ELSE s5[c][v]]
           G == Games!WithProgress(u, c, p)
<1>1. s5 \in Seq(Joins) /\ Len(s5) = Len(s4) /\ s4 \in Seq(Games!Challenge)
  BY DEF GamesInv, JoinedSound
<1>2. c \in 1..Len(s5) /\ DOMAIN s5 = 1..Len(s4)
  BY <1>1
<1>3. s5[c] \in Joins
  BY <1>1, <1>2
<1>4. PICK D \in SUBSET contest.Users : s5[c] \in [D -> Games!Progress]
  BY <1>3 DEF Joins
<1>5. g \in [D \cup {u} -> Games!Progress] /\ D \cup {u} \in SUBSET contest.Users
  BY <1>4
<1>6. DOMAIN g = DOMAIN s5[c] \cup {u} /\ g[u] = p
      /\ \A v \in DOMAIN s5[c] : v # u => g[v] = s5[c][v]
  OBVIOUS
<1> HIDE DEF g
<1>7. g \in Joins
  BY <1>5 DEF Joins
<1>8. G = [s5 EXCEPT ![c] = g]
  BY DEF Games!WithProgress, g
<1> HIDE DEF G
<1>9. G \in Seq(Joins)
  BY <1>1, <1>2, <1>7, <1>8, ListChanges
<1>10. Len(G) = Len(s5)
  BY <1>1, <1>2, <1>7, <1>8, ListChanges
<1>11. DOMAIN G = 1..Len(s5)
  BY <1>1, <1>2, <1>7, <1>8, ListChanges
<1>12. G[c] = g
  BY <1>1, <1>2, <1>7, <1>8, ListChanges
<1>13. \A d \in 1..Len(s5) : d # c => G[d] = s5[d]
  BY <1>1, <1>2, <1>7, <1>8, ListChanges
<1> QED BY <1>1, <1>2, <1>6, <1>9, <1>10, <1>11, <1>12, <1>13 DEF G

\* It leaves the claims of all others, and it counts nobody twice.
LEMMA ClaimsStay ==
    ASSUME GamesInv, NEW u \in contest.Users, NEW c \in DOMAIN s4, NEW p \in Games!Progress,
           Claims(s5, c, u) => p.claimed
    PROVE  /\ \A d, v : Claims(s5, d, v) => Claims(Games!WithProgress(u, c, p), d, v)
           /\ p.claimed => Claims(Games!WithProgress(u, c, p), c, u)
<1> DEFINE G == Games!WithProgress(u, c, p)
<1>1. /\ DOMAIN G = 1..Len(s4) /\ DOMAIN s5 = 1..Len(s4) /\ c \in 1..Len(s4)
      /\ DOMAIN G[c] = DOMAIN s5[c] \cup {u} /\ G[c][u] = p
      /\ \A v \in DOMAIN s5[c] : v # u => G[c][v] = s5[c][v]
      /\ \A d \in 1..Len(s4) : d # c => G[d] = s5[d]
  BY ProgressNoted
<1> HIDE DEF G
<1>2. ASSUME NEW d, NEW v, Claims(s5, d, v) PROVE Claims(G, d, v)
  <2>1. CASE d = c
    BY <1>1, <1>2, <2>1 DEF Claims
  <2>2. CASE d # c
    BY <1>1, <1>2, <2>2 DEF Claims
  <2> QED BY <2>1, <2>2
<1>3. p.claimed => Claims(G, c, u)
  BY <1>1 DEF Claims
<1> QED BY <1>2, <1>3 DEF G

LEMMA JoinedStay ==
    ASSUME GamesInv, NEW u \in contest.Users, NEW c \in DOMAIN s4, NEW p \in Games!Progress,
           u \in DOMAIN s5[c]
    PROVE  JoinedSound(s4, Games!WithProgress(u, c, p))
<1> DEFINE G == Games!WithProgress(u, c, p)
<1>1. /\ G \in Seq(Joins) /\ Len(G) = Len(s4) /\ c \in 1..Len(s4)
      /\ DOMAIN G[c] = DOMAIN s5[c] \cup {u}
      /\ \A d \in 1..Len(s4) : d # c => G[d] = s5[d]
  BY ProgressNoted
<1> HIDE DEF G
<1>2. DOMAIN G[c] = DOMAIN s5[c]
  BY <1>1
<1>3. \A d \in 1..Len(s4) : DOMAIN G[d] = DOMAIN s5[d]
  BY <1>1, <1>2
<1>4. JoinedSound(s4, G)
  BY <1>1, <1>3 DEF JoinedSound, GamesInv
<1> QED BY <1>4 DEF G

LEMMA AccountsKept ==
    ASSUME NEW P, NEW Q, NEW H, AccountsSound(P, H),
           \A v \in contest.Users : Q[v].pending = P[v].pending /\ Q[v].earned = P[v].earned
    PROVE  AccountsSound(Q, H)
BY DEF AccountsSound

\* Activity, badges and trades touch a profile and its place on the board.
LEMMA ActivityKeepsBooks ==
    ASSUME GamesInv, NEW u \in contest.Users, Games!RecordActivity(u)
    PROVE  GamesInv'
<1> DEFINE daily == IF s1[u].seen = 0 \/ s7 - s1[u].seen > 2 * contest.Day THEN 1
                    ELSE IF s7 - s1[u].seen \in 1..contest.Day THEN s1[u].daily + 1
                    ELSE s1[u].daily
           best == Games!Max({s1[u].bestDaily, daily})
           p == [s1[u] EXCEPT !.daily = daily, !.seen = s7, !.bestDaily = best]
<1>1. /\ s1' = [s1 EXCEPT ![u].daily = daily, ![u].seen = s7,
                   ![u].bestDaily = Games!Max({@, daily})]
      /\ s2' = s2 /\ s3' = s3 /\ s4' = s4 /\ s5' = s5 /\ s6' = s6 /\ s7' = s7
  BY DEF Games!RecordActivity
<1>2. s1[u] \in Games!Profile /\ s7 \in Nat /\ s1 \in [contest.Users -> Games!Profile]
  BY DEF GamesInv, BoardSound
<1>3. daily \in Nat
  BY <1>2, ProfileTyped
<1> HIDE DEF daily
<1>4. best \in Nat
  BY <1>2, <1>3, ProfileTyped, OneOfTwo
<1>5. s1' = [s1 EXCEPT ![u] = p]
  BY <1>1, <1>2
<1> HIDE DEF best
<1>6. /\ p \in Games!Profile /\ p.score = s1[u].score
      /\ p.pending = s1[u].pending /\ p.earned = s1[u].earned
  BY <1>2, <1>3, <1>4 DEF Games!Profile
<1> HIDE DEF p
<1>7. /\ BoardSound(s1', s3') /\ s1'[u] = p
      /\ \A v \in contest.Users : v # u => s1'[v] = s1[v]
  BY <1>1, <1>5, <1>6, ScoreStays
<1>8. \A v \in contest.Users : s1'[v].pending = s1[v].pending /\ s1'[v].earned = s1[v].earned
  BY <1>6, <1>7
<1>9. AccountsSound(s1', s6)
  BY <1>8, AccountsKept DEF GamesInv
<1> QED BY <1>1, <1>7, <1>9 DEF GamesInv

LEMMA BadgesKeepBooks ==
    ASSUME GamesInv, NEW u \in contest.Users,
           NEW met \in SUBSET (contest.TradingBadges \cup contest.OtherBadges),
           Games!AwardAchievements(u, met)
    PROVE  GamesInv'
<1> DEFINE master == IF contest.TradingBadges \subseteq (s2[u] \cup met) THEN {contest.Master}
                     ELSE {}
           new == (met \cup master) \ s2[u]
<1>1. /\ s2' = [s2 EXCEPT ![u] = @ \cup new]
      /\ Games!Scored(u, s1[u], Games!PointsOf(new))
      /\ s4' = s4 /\ s5' = s5 /\ s6' = s6 /\ s7' = s7
  BY DEF Games!AwardAchievements
<1>2. new \subseteq DOMAIN contest.Points
  BY GamesAssumed
<1> HIDE DEF new
<1>3. s2' \in [contest.Users -> SUBSET DOMAIN contest.Points]
  <2>1. s2 \in [contest.Users -> SUBSET DOMAIN contest.Points]
    BY DEF GamesInv
  <2> QED BY <1>1, <1>2, <2>1
<1>4. s1[u] \in Games!Profile /\ Games!PointsOf(new) \in Nat
  BY <1>2, BadgesAreWorth DEF GamesInv, BoardSound
<1>5. /\ BoardSound(s1', s3') /\ \A v \in contest.Users : v # u => s1'[v] = s1[v]
      /\ s1'[u].pending = s1[u].pending /\ s1'[u].earned = s1[u].earned
  BY <1>1, <1>4, ScoreGrows
<1>6. AccountsSound(s1', s6)
  BY <1>5, AccountsKept DEF GamesInv
<1> QED BY <1>1, <1>3, <1>5, <1>6 DEF GamesInv

LEMMA WinsKeepBooks ==
    ASSUME GamesInv, NEW u \in contest.Users, Games!RecordProfitableTrade(u)
    PROVE  GamesInv'
<1> DEFINE p == [s1[u] EXCEPT !.streak = @ + 1]
<1>1. /\ Games!Scored(u, p, Games!StreakPoints(p.streak))
      /\ s2' = s2 /\ s4' = s4 /\ s5' = s5 /\ s6' = s6 /\ s7' = s7
  BY DEF Games!RecordProfitableTrade
<1>2. s1[u] \in Games!Profile
  BY DEF GamesInv, BoardSound
<1>3. /\ p \in Games!Profile /\ p.score = s1[u].score /\ p.streak \in Nat
      /\ p.pending = s1[u].pending /\ p.earned = s1[u].earned
  BY <1>2 DEF Games!Profile
<1> HIDE DEF p
<1>4. Games!StreakPoints(p.streak) \in Nat
  BY <1>3, StreaksAreWorth
<1>5. /\ BoardSound(s1', s3') /\ \A v \in contest.Users : v # u => s1'[v] = s1[v]
      /\ s1'[u].pending = p.pending /\ s1'[u].earned = p.earned
  BY <1>1, <1>3, <1>4, ScoreGrows
<1>6. AccountsSound(s1', s6)
  BY <1>3, <1>5, AccountsKept DEF GamesInv
<1> QED BY <1>1, <1>5, <1>6 DEF GamesInv

LEMMA LossesKeepBooks ==
    ASSUME GamesInv, NEW u \in contest.Users, Games!RecordLosingTrade(u)
    PROVE  GamesInv'
<1> DEFINE p == [s1[u] EXCEPT !.streak = 0]
<1>1. /\ s1' = [s1 EXCEPT ![u].streak = 0]
      /\ s2' = s2 /\ s3' = s3 /\ s4' = s4 /\ s5' = s5 /\ s6' = s6 /\ s7' = s7
  BY DEF Games!RecordLosingTrade
<1>2. s1[u] \in Games!Profile
  BY DEF GamesInv, BoardSound
<1>3. s1' = [s1 EXCEPT ![u] = p]
  BY <1>1
<1>4. /\ p \in Games!Profile /\ p.score = s1[u].score
      /\ p.pending = s1[u].pending /\ p.earned = s1[u].earned
  BY <1>2 DEF Games!Profile
<1> HIDE DEF p
<1>5. /\ BoardSound(s1', s3') /\ s1'[u] = p
      /\ \A v \in contest.Users : v # u => s1'[v] = s1[v]
  BY <1>1, <1>3, <1>4, ScoreStays
<1>6. \A v \in contest.Users : s1'[v].pending = s1[v].pending /\ s1'[v].earned = s1[v].earned
  BY <1>4, <1>5
<1>7. AccountsSound(s1', s6)
  BY <1>6, AccountsKept DEF GamesInv
<1> QED BY <1>1, <1>5, <1>7 DEF GamesInv

\* A payment under no challenge is a payout, and one under a challenge was won.
LEMMA PayoutAdds ==
    ASSUME NEW H \in Seq(Payment), NEW x \in Payment, NEW u, x.challenge = 0
    PROVE  /\ PaidTo(Append(H, x), u, Nat \ {0}) = PaidTo(H, u, Nat \ {0})
           /\ PaidTo(Append(H, x), u, {0}) = PaidTo(H, u, {0})
                + (IF u = x.user THEN x.amount ELSE 0)
<1>1. x.amount \in Nat /\ x.challenge \notin Nat \ {0} /\ x.challenge \in {0}
  BY DEF Payment
<1>2. /\ PaidTo(H, u, Nat \ {0}) \in Nat /\ PaidTo(H, u, {0}) \in Nat
      /\ PaidTo(Append(H, x), u, Nat \ {0}) = PaidTo(H, u, Nat \ {0})
           + (IF x.user = u /\ x.challenge \in Nat \ {0} THEN x.amount ELSE 0)
      /\ PaidTo(Append(H, x), u, {0}) = PaidTo(H, u, {0})
           + (IF x.user = u /\ x.challenge \in {0} THEN x.amount ELSE 0)
  BY PaymentAdds
<1> QED BY <1>1, <1>2

LEMMA WinAdds ==
    ASSUME NEW H \in Seq(Payment), NEW x \in Payment, NEW u, x.challenge > 0
    PROVE  /\ PaidTo(Append(H, x), u, {0}) = PaidTo(H, u, {0})
           /\ PaidTo(Append(H, x), u, Nat \ {0}) = PaidTo(H, u, Nat \ {0})
                + (IF u = x.user THEN x.amount ELSE 0)
<1>1. x.amount \in Nat /\ x.challenge \in Nat \ {0} /\ x.challenge \notin {0}
  BY DEF Payment
<1>2. /\ PaidTo(H, u, Nat \ {0}) \in Nat /\ PaidTo(H, u, {0}) \in Nat
      /\ PaidTo(Append(H, x), u, Nat \ {0}) = PaidTo(H, u, Nat \ {0})
           + (IF x.user = u /\ x.challenge \in Nat \ {0} THEN x.amount ELSE 0)
      /\ PaidTo(Append(H, x), u, {0}) = PaidTo(H, u, {0})
           + (IF x.user = u /\ x.challenge \in {0} THEN x.amount ELSE 0)
  BY PaymentAdds
<1> QED BY <1>1, <1>2

\* What is pending moves to what is earned, and into the history under no challenge.
LEMMA PayoutsKeepBooks ==
    ASSUME GamesInv, NEW u \in contest.Users, Games!ClaimRewards(u)
    PROVE  GamesInv'
<1> DEFINE due == s1[u].pending
           sum == s1[u].earned + due
           p == [s1[u] EXCEPT !.pending = 0, !.earned = sum]
           x == [user |-> u, amount |-> due, challenge |-> 0]
<1>1. /\ s1' = [s1 EXCEPT ![u].pending = 0, ![u].earned = @ + due] /\ s6' = Append(s6, x)
      /\ s2' = s2 /\ s3' = s3 /\ s4' = s4 /\ s5' = s5 /\ s7' = s7
  BY DEF Games!ClaimRewards
<1>2. s1[u] \in Games!Profile /\ s1 \in [contest.Users -> Games!Profile]
  BY DEF GamesInv, BoardSound
<1>3. s1' = [s1 EXCEPT ![u] = p]
  BY <1>1, <1>2
<1>4. due \in Nat /\ s1[u].earned \in Nat /\ sum \in Nat
  BY <1>2, ProfileTyped
<1> HIDE DEF due, sum
<1>5. /\ p \in Games!Profile /\ p.score = s1[u].score
      /\ p.pending = 0 /\ p.earned = sum
  BY <1>2, <1>4 DEF Games!Profile
<1> HIDE DEF p
<1>6. /\ BoardSound(s1', s3') /\ s1'[u] = p
      /\ \A v \in contest.Users : v # u => s1'[v] = s1[v]
  BY <1>1, <1>3, <1>5, ScoreStays
<1>7. x \in Payment /\ x.challenge = 0 /\ x.user = u /\ x.amount = due /\ s6 \in Seq(Payment)
  BY <1>4 DEF Payment, GamesInv, HistorySound
<1> HIDE DEF x
<1>8. HistorySound(s6', s5)
  <2>1. HistorySound(s6, s5)
    BY DEF GamesInv
  <2>2. ~(x.challenge > 0)
    BY <1>7
  <2> QED BY <1>1, <1>7, <2>1, <2>2, HistoryGrows
<1>9. ASSUME NEW v \in contest.Users
      PROVE  /\ PaidTo(s6', v, Nat \ {0}) = s1'[v].pending + s1'[v].earned
             /\ PaidTo(s6', v, {0}) = s1'[v].earned
  <2>1. /\ PaidTo(s6, v, Nat \ {0}) = s1[v].pending + s1[v].earned
        /\ PaidTo(s6, v, {0}) = s1[v].earned
    BY DEF GamesInv, AccountsSound
  <2>2. x.challenge = 0
    BY <1>7
  <2>3. PaidTo(s6, v, {0}) \in Nat
    BY <1>7, PaymentAdds
  <2>5. PaidTo(s6', v, Nat \ {0}) = PaidTo(s6, v, Nat \ {0})
    BY <1>1, <1>7, <2>2, PayoutAdds
  <2>6. PaidTo(s6', v, {0}) = PaidTo(s6, v, {0}) + (IF v = u THEN due ELSE 0)
    BY <1>1, <1>7, <2>2, PayoutAdds
  <2>7. CASE v = u
    <3>1. s1'[v].pending = 0 /\ s1'[v].earned = s1[v].earned + due /\ s1[v].pending = due
      BY <1>5, <1>6, <2>7 DEF due, sum
    <3>2. PaidTo(s6', v, {0}) = s1[v].earned + due
      BY <2>1, <2>6, <2>7
    <3>3. PaidTo(s6', v, Nat \ {0}) = due + s1[v].earned /\ s1[v].earned \in Nat
      BY <1>4, <2>1, <2>5, <2>7, <3>1
    <3> HIDE DEF due
    <3> QED BY <1>4, <3>1, <3>2, <3>3
  <2>8. CASE v # u
    <3>1. s1'[v] = s1[v]
      BY <1>6, <2>8
    <3>2. PaidTo(s6', v, {0}) = PaidTo(s6, v, {0})
      BY <2>3, <2>6, <2>8
    <3> QED BY <2>1, <2>5, <3>1, <3>2
  <2> QED BY <2>7, <2>8
<1>10. AccountsSound(s1', s6')
  BY <1>9 DEF AccountsSound
<1> QED BY <1>1, <1>6, <1>8, <1>10 DEF GamesInv

\* Challenges are created, joined, played, won and closed.
LEMMA CreationsKeepBooks ==
    ASSUME GamesInv, NEW pool \in contest.Pools, NEW places \in contest.Places,
           NEW tier \in DOMAIN contest.TierScores, NEW duration \in contest.Durations,
           Games!CreateChallenge(pool, places, tier, duration)
    PROVE  GamesInv'
<1> DEFINE n == Len(s4)
           x == [pool |-> pool, places |-> places, tier |-> tier, joined |-> 0,
                 end |-> s7 + duration, active |-> TRUE]
<1>1. /\ s4' = Append(s4, x) /\ s5' = Append(s5, <<>>)
      /\ s1' = s1 /\ s2' = s2 /\ s3' = s3 /\ s6' = s6 /\ s7' = s7
  BY DEF Games!CreateChallenge
<1>2. s4 \in Seq(Games!Challenge) /\ s5 \in Seq(Joins) /\ Len(s5) = n
  BY DEF GamesInv, JoinedSound
<1>3. x \in Games!Challenge /\ x.joined = 0
  <2>1. s7 \in Nat /\ duration \in Nat /\ pool \in Nat /\ places \in Nat
    BY GamesAssumed DEF GamesInv
  <2>2. tier \in Nat
    <3>1. contest.TierScores \in Seq(Nat)
      BY GamesAssumed
    <3> QED BY <3>1
  <2>3. s7 + duration \in Nat
    BY <2>1
  <2> QED BY <2>1, <2>2, <2>3 DEF Games!Challenge
<1> HIDE DEF x
<1>4. <<>> \in Joins /\ DOMAIN <<>> = {}
  <2>1. <<>> \in [{} -> Games!Progress]
    OBVIOUS
  <2> QED BY <2>1 DEF Joins
<1>5. /\ s4' \in Seq(Games!Challenge) /\ Len(s4') = n + 1 /\ n \in Nat
      /\ s4'[n + 1] = x /\ \A c \in 1..n : s4'[c] = s4[c]
  BY <1>1, <1>2, <1>3, ListGrows
<1>6. /\ s5' \in Seq(Joins) /\ Len(s5') = n + 1 /\ DOMAIN s5 = 1..n /\ DOMAIN s5' = 1..n + 1
      /\ s5'[n + 1] = <<>> /\ \A c \in 1..n : s5'[c] = s5[c]
  BY <1>1, <1>2, <1>4, ListGrows
<1>7. IsFiniteSet({}) /\ Cardinality({}) = 0
  BY FS_EmptySet
<1>8. ASSUME NEW c \in 1..n + 1
      PROVE  /\ IsFiniteSet(DOMAIN s5'[c]) /\ s4'[c].joined = Cardinality(DOMAIN s5'[c])
             /\ s4'[c].places > 0 => s4'[c].joined <= s4'[c].places
  <2>1. CASE c = n + 1
    <3>1. s4'[c] = x /\ DOMAIN s5'[c] = {} /\ x.places \in Nat
      BY <1>3, <1>4, <1>5, <1>6, <2>1 DEF Games!Challenge
    <3> QED BY <1>3, <1>7, <3>1
  <2>2. CASE c # n + 1
    <3>1. c \in 1..n
      BY <1>5, <2>2
    <3> QED BY <1>5, <1>6, <3>1 DEF GamesInv, JoinedSound
  <2> QED BY <2>1, <2>2
<1>9. \A c, v : Claims(s5, c, v) => Claims(s5', c, v)
  BY <1>5, <1>6 DEF Claims
<1> HIDE DEF n
<1>10. JoinedSound(s4', s5')
  BY <1>5, <1>6, <1>8 DEF JoinedSound
<1>11. HistorySound(s6, s5')
  BY <1>9, HistoryKept DEF GamesInv
<1> QED BY <1>1, <1>10, <1>11 DEF GamesInv

LEMMA JoinsKeepBooks ==
    ASSUME GamesInv, NEW u \in contest.Users, NEW c \in DOMAIN s4, Games!JoinChallenge(u, c)
    PROVE  GamesInv'
<1> DEFINE n == Len(s4)
           q == [done |-> 0, met |-> FALSE, claimed |-> FALSE]
           G == Games!WithProgress(u, c, q)
           many == s4[c].joined + 1
           x == [s4[c] EXCEPT !.joined = many]
           times == s1[u].joined + 1
           p == [s1[u] EXCEPT !.joined = times]
<1>1. /\ s4[c].places > 0 => s4[c].joined < s4[c].places
      /\ u \notin DOMAIN s5[c]
      /\ s5' = G /\ s4' = [s4 EXCEPT ![c].joined = @ + 1] /\ s1' = [s1 EXCEPT ![u].joined = @ + 1]
      /\ s2' = s2 /\ s3' = s3 /\ s6' = s6 /\ s7' = s7
  BY DEF Games!JoinChallenge, Games!Joined
<1>2. /\ s1 \in [contest.Users -> Games!Profile] /\ s4 \in Seq(Games!Challenge)
      /\ c \in 1..n /\ s4[c] \in Games!Challenge
  BY DEF GamesInv, BoardSound, JoinedSound
<1>3. q \in Games!Progress /\ q.claimed = FALSE
  BY DEF Games!Progress
<1> HIDE DEF q
<1>4. s1' = [s1 EXCEPT ![u] = p] /\ s4' = [s4 EXCEPT ![c] = x]
  BY <1>1, <1>2
<1>5. /\ p \in Games!Profile /\ p.score = s1[u].score
      /\ p.pending = s1[u].pending /\ p.earned = s1[u].earned
  <2>1. s1[u] \in Games!Profile /\ times \in Nat
    BY <1>2, ProfileTyped
  <2> HIDE DEF times
  <2> QED BY <2>1 DEF Games!Profile
<1> HIDE DEF p
<1>6. /\ BoardSound(s1', s3') /\ s1'[u] = p
      /\ \A v \in contest.Users : v # u => s1'[v] = s1[v]
  <2>1. /\ GamesInv /\ u \in contest.Users /\ p \in Games!Profile /\ p.score = s1[u].score
        /\ s1' = [s1 EXCEPT ![u] = p] /\ s3' = s3
    BY <1>1, <1>4, <1>5
  <2> QED BY ONLY <2>1, ScoreStays
<1>7. \A v \in contest.Users : s1'[v].pending = s1[v].pending /\ s1'[v].earned = s1[v].earned
  BY <1>5, <1>6
<1>8. AccountsSound(s1', s6)
  BY <1>7, AccountsKept DEF GamesInv
<1>9. /\ G \in Seq(Joins) /\ Len(G) = n /\ DOMAIN G = 1..n /\ DOMAIN s5 = 1..n
      /\ DOMAIN G[c] = DOMAIN s5[c] \cup {u} /\ \A d \in 1..n : d # c => G[d] = s5[d]
  BY <1>3, ProgressNoted
<1>10. ~Claims(s5, c, u)
  BY <1>1 DEF Claims
<1>11. \A d, v : Claims(s5, d, v) => Claims(G, d, v)
  BY <1>3, <1>10, ClaimsStay
<1> HIDE DEF G
<1>12. HistorySound(s6, s5')
  BY <1>1, <1>11, HistoryKept DEF GamesInv
<1>13. /\ IsFiniteSet(DOMAIN s5[c]) /\ s4[c].joined = Cardinality(DOMAIN s5[c])
  BY <1>2 DEF GamesInv, JoinedSound
<1>14. /\ IsFiniteSet(DOMAIN G[c]) /\ Cardinality(DOMAIN G[c]) = many
  <2> DEFINE D == DOMAIN s5[c]
  <2>1. IsFiniteSet(D) /\ u \notin D /\ s4[c].joined = Cardinality(D) /\ DOMAIN G[c] = D \cup {u}
    BY <1>1, <1>9, <1>13
  <2> HIDE DEF D
  <2>2. IsFiniteSet(D \cup {u}) /\ Cardinality(D \cup {u}) = Cardinality(D) + 1
    BY <2>1, FS_AddElement
  <2> QED BY <2>1, <2>2
<1>15. s4[c].joined \in Nat /\ s4[c].places \in Nat /\ many \in Nat
  BY <1>2 DEF Games!Challenge
<1>16. x \in Games!Challenge /\ x.joined = many /\ x.places = s4[c].places
  BY <1>2, <1>15 DEF Games!Challenge
<1>17. many <= s4[c].places \/ ~(s4[c].places > 0)
  BY <1>1, <1>15
<1> HIDE DEF x, many
<1>18. s4' \in Seq(Games!Challenge)
  BY <1>2, <1>4, <1>16, ListChanges
<1>19. Len(s4') = n
  BY <1>2, <1>4, <1>16, ListChanges
<1>20. s4'[c] = x
  BY <1>2, <1>4, <1>16, ListChanges
<1>21. \A d \in 1..n : d # c => s4'[d] = s4[d]
  BY <1>2, <1>4, <1>16, ListChanges
<1>22. ASSUME NEW d \in 1..n
       PROVE  /\ IsFiniteSet(DOMAIN G[d]) /\ s4'[d].joined = Cardinality(DOMAIN G[d])
              /\ s4'[d].places > 0 => s4'[d].joined <= s4'[d].places
  <2>1. CASE d = c
    BY <1>14, <1>16, <1>17, <1>20, <2>1
  <2>2. CASE d # c
    BY <1>9, <1>21, <2>2 DEF GamesInv, JoinedSound
  <2> QED BY <2>1, <2>2
<1>23. JoinedSound(s4', G)
  BY <1>9, <1>18, <1>19, <1>22 DEF JoinedSound
<1> QED BY <1>1, <1>6, <1>8, <1>12, <1>23 DEF GamesInv

LEMMA ProgressKeepsBooks ==
    ASSUME GamesInv, NEW u \in contest.Users, NEW c \in DOMAIN s4, Games!UpdateProgress(u, c)
    PROVE  GamesInv'
<1> DEFINE old == s5[c][u]
           done == old.done + 1
           p == [old EXCEPT !.done = done]
           r == [p EXCEPT !.met = TRUE]
<1>1. /\ u \in DOMAIN s5[c] /\ ~old.met
      /\ IF p.done >= contest.Target
         THEN Games!Scored(u, s1[u], contest.Completion) /\ s5' = Games!WithProgress(u, c, r)
         ELSE s5' = Games!WithProgress(u, c, p) /\ s1' = s1 /\ s3' = s3
      /\ s2' = s2 /\ s4' = s4 /\ s6' = s6 /\ s7' = s7
  BY DEF Games!UpdateProgress, Games!Joined
<1>2. old \in Games!Progress
  <2>1. s5 \in Seq(Joins) /\ c \in 1..Len(s5)
    BY DEF GamesInv, JoinedSound
  <2>2. s5[c] \in Joins
    BY <2>1
  <2> QED BY <1>1, <2>2 DEF Joins
<1>3. p \in Games!Progress /\ r \in Games!Progress /\ p.claimed = old.claimed
      /\ r.claimed = old.claimed
  <2>1. done \in Nat
    BY <1>2 DEF Games!Progress
  <2> HIDE DEF old, done
  <2> QED BY <1>2, <2>1 DEF Games!Progress
<1>4. Claims(s5, c, u) => old.claimed
  BY DEF Claims
<1> HIDE DEF old, p, r
<1>5. PICK q \in Games!Progress : s5' = Games!WithProgress(u, c, q) /\ q.claimed = old.claimed
  BY <1>1, <1>3
<1>6. \A d, v : Claims(s5, d, v) => Claims(s5', d, v)
  BY <1>4, <1>5, ClaimsStay
<1>7. HistorySound(s6, s5')
  BY <1>6, HistoryKept DEF GamesInv
<1>8. JoinedSound(s4, s5')
  BY <1>1, <1>5, JoinedStay
<1>9. BoardSound(s1', s3') /\ AccountsSound(s1', s6)
  <2>1. CASE p.done >= contest.Target
    <3>1. s1[u] \in Games!Profile /\ contest.Completion \in Nat
      BY GamesAssumed DEF GamesInv, BoardSound
    <3>2. /\ BoardSound(s1', s3') /\ \A v \in contest.Users : v # u => s1'[v] = s1[v]
          /\ s1'[u].pending = s1[u].pending /\ s1'[u].earned = s1[u].earned
      BY <1>1, <2>1, <3>1, ScoreGrows
    <3> QED BY <3>2, AccountsKept DEF GamesInv
  <2>2. CASE ~(p.done >= contest.Target)
    BY <1>1, <2>2 DEF GamesInv
  <2> QED BY <2>1, <2>2
<1> QED BY <1>1, <1>7, <1>8, <1>9 DEF GamesInv

LEMMA RewardsKeepBooks ==
    ASSUME GamesInv, NEW u \in contest.Users, NEW c \in DOMAIN s4,
           Games!ClaimChallengeReward(u, c)
    PROVE  GamesInv'
<1> DEFINE old == s5[c][u]
           q == Games!Claimed(old)
           G == Games!WithProgress(u, c, q)
           due == Games!Reward(u, c)
           sum == s1[u].pending + due
           wins == s1[u].won + 1
           paid == [s1[u] EXCEPT !.pending = sum, !.won = wins]
           champion == wins >= contest.ChampionWins /\ contest.Champion \notin s2[u]
           points == IF champion THEN contest.Points[contest.Champion] ELSE 0
           x == [user |-> u, amount |-> due, challenge |-> c]
<1>1. /\ u \in DOMAIN s5[c] /\ ~old.claimed /\ s5' = G /\ s6' = Append(s6, x)
      /\ s2' = [s2 EXCEPT ![u] = @ \cup (IF champion THEN {contest.Champion} ELSE {})]
      /\ s4' = s4 /\ s7' = s7
  BY DEF Games!ClaimChallengeReward, Games!Joined
<1>2. Games!Scored(u, paid, points)
  BY DEF Games!ClaimChallengeReward
<1>3. s1[u] \in Games!Profile /\ s1[u].pending \in Nat /\ s1[u].won \in Nat /\ s1[u].earned \in Nat
  <2>1. s1[u] \in Games!Profile
    BY DEF GamesInv, BoardSound
  <2> QED BY <2>1, ProfileTyped
<1>4. due \in Nat
  BY RewardIs
<1>5. /\ old \in Games!Progress /\ c \in Nat /\ c > 0
  <2>1. s5 \in Seq(Joins) /\ c \in 1..Len(s5)
    BY DEF GamesInv, JoinedSound
  <2>2. s5[c] \in Joins
    BY <2>1
  <2> QED BY <1>1, <2>1, <2>2 DEF Joins
<1>6. q \in Games!Progress /\ q.claimed
  <2> HIDE DEF old
  <2> QED BY <1>5 DEF Games!Progress, Games!Claimed
<1>7. points \in Nat
  BY GamesAssumed
<1>8. s2' \in [contest.Users -> SUBSET DOMAIN contest.Points]
  <2>1. s2 \in [contest.Users -> SUBSET DOMAIN contest.Points]
    BY DEF GamesInv
  <2>2. contest.Champion \in DOMAIN contest.Points
    BY GamesAssumed
  <2> HIDE DEF champion
  <2> QED BY <1>1, <2>1, <2>2
<1>9. ~Claims(s5, c, u)
  BY <1>1 DEF Claims
<1> HIDE DEF old, q, points, due
<1>10. \A d, v : Claims(s5, d, v) => Claims(G, d, v)
  BY <1>6, <1>9, ClaimsStay
<1>11. Claims(G, c, u)
  BY <1>6, <1>9, ClaimsStay
<1>12. JoinedSound(s4, G)
  BY <1>1, <1>6, JoinedStay
<1> HIDE DEF G
<1>13. sum \in Nat /\ wins \in Nat
  BY <1>3, <1>4
<1> HIDE DEF sum, wins
<1>14. /\ paid \in Games!Profile /\ paid.score = s1[u].score /\ paid.pending = sum
       /\ paid.earned = s1[u].earned
  BY <1>3, <1>13 DEF Games!Profile
<1> HIDE DEF paid
<1>15. /\ BoardSound(s1', s3') /\ \A v \in contest.Users : v # u => s1'[v] = s1[v]
       /\ s1'[u].pending = sum /\ s1'[u].earned = s1[u].earned
  BY <1>2, <1>7, <1>14, ScoreGrows
<1>16. /\ x \in Payment /\ x.user = u /\ x.amount = due /\ x.challenge = c
       /\ s6 \in Seq(Payment)
  BY <1>4, <1>5 DEF Payment, GamesInv, HistorySound
<1> HIDE DEF x
<1>17. HistorySound(s6', s5')
  <2>1. HistorySound(s6, G)
    BY <1>10, HistoryKept DEF GamesInv
  <2>2. \A i \in DOMAIN s6 : ~(s6[i].user = x.user /\ s6[i].challenge = x.challenge)
    <3> SUFFICES ASSUME NEW i \in DOMAIN s6, s6[i].user = u, s6[i].challenge = c PROVE FALSE
      BY <1>16
    <3>1. Claims(s5, s6[i].challenge, s6[i].user)
      BY <1>5 DEF GamesInv, HistorySound
    <3> QED BY <1>9, <3>1
  <2>3. HistorySound(Append(s6, x), G)
    BY <1>11, <1>16, <2>1, <2>2, HistoryGrows
  <2> QED BY <1>1, <2>3
<1>18. ASSUME NEW v \in contest.Users
       PROVE  /\ PaidTo(s6', v, Nat \ {0}) = s1'[v].pending + s1'[v].earned
              /\ PaidTo(s6', v, {0}) = s1'[v].earned
  <2>1. /\ PaidTo(s6, v, Nat \ {0}) = s1[v].pending + s1[v].earned
        /\ PaidTo(s6, v, {0}) = s1[v].earned
    BY DEF GamesInv, AccountsSound
  <2>2. PaidTo(s6, v, Nat \ {0}) \in Nat
    BY <1>16, PaymentAdds
  <2>3. PaidTo(s6', v, {0}) = PaidTo(s6, v, {0})
    BY <1>1, <1>5, <1>16, WinAdds
  <2>4. PaidTo(s6', v, Nat \ {0}) = PaidTo(s6, v, Nat \ {0}) + (IF v = u THEN due ELSE 0)
    BY <1>1, <1>5, <1>16, WinAdds
  <2>5. CASE v = u
    <3>1. s1'[v].pending = s1[v].pending + due /\ s1'[v].earned = s1[v].earned
      BY <1>15, <2>5 DEF sum
    <3>2. PaidTo(s6', v, Nat \ {0}) = s1[v].pending + s1[v].earned + due
      BY <2>1, <2>4, <2>5
    <3>3. s1[v].pending \in Nat /\ s1[v].earned \in Nat
      BY <1>3, <2>5
    <3> QED BY <1>4, <2>1, <2>3, <3>1, <3>2, <3>3
  <2>6. CASE v # u
    <3>1. s1'[v] = s1[v]
      BY <1>15, <2>6
    <3>2. PaidTo(s6', v, Nat \ {0}) = PaidTo(s6, v, Nat \ {0})
      BY <2>2, <2>4, <2>6
    <3> QED BY <2>1, <2>3, <3>1, <3>2
  <2> QED BY <2>5, <2>6
<1>19. AccountsSound(s1', s6')
  BY <1>18 DEF AccountsSound
<1> QED BY <1>1, <1>8, <1>12, <1>15, <1>17, <1>19 DEF GamesInv

LEMMA ClosingKeepsBooks ==
    ASSUME GamesInv, Games!FinalizeExpiredChallenges
    PROVE  GamesInv'
<1> DEFINE At(c) == [s4[c] EXCEPT !.active = @ /\ s7 <= s4[c].end]
<1>1. /\ s4' = [c \in DOMAIN s4 |-> At(c)]
      /\ s1' = s1 /\ s2' = s2 /\ s3' = s3 /\ s5' = s5 /\ s6' = s6 /\ s7' = s7
  BY DEF Games!FinalizeExpiredChallenges
<1>2. s4 \in Seq(Games!Challenge) /\ Len(s4) \in Nat /\ DOMAIN s4 = 1..Len(s4)
  BY DEF GamesInv, JoinedSound
<1>3. \A c \in 1..Len(s4) : /\ At(c) \in Games!Challenge
                            /\ At(c).joined = s4[c].joined /\ At(c).places = s4[c].places
  <2> SUFFICES ASSUME NEW c \in 1..Len(s4)
               PROVE  /\ At(c) \in Games!Challenge
                      /\ At(c).joined = s4[c].joined /\ At(c).places = s4[c].places
    OBVIOUS
  <2>1. s4[c] \in Games!Challenge
    BY <1>2
  <2> QED BY <2>1 DEF Games!Challenge
<1> HIDE DEF At
<1>4. s4' \in [1..Len(s4) -> Games!Challenge] /\ \A c \in 1..Len(s4) : s4'[c] = At(c)
  BY <1>1, <1>2, <1>3
<1>5. s4' \in Seq(Games!Challenge) /\ Len(s4') = Len(s4)
  BY <1>2, <1>4, FunctionIsSequence
<1>6. JoinedSound(s4', s5)
  BY <1>3, <1>4, <1>5 DEF JoinedSound, GamesInv
<1> QED BY <1>1, <1>6 DEF GamesInv

LEMMA GamesBegin == InGames => GamesInv
<1> SUFFICES ASSUME InGames PROVE GamesInv
  OBVIOUS
<1> DEFINE p == [score |-> 0, streak |-> 0, daily |-> 0, bestDaily |-> 0, seen |-> 0, won |-> 0,
                 joined |-> 0, earned |-> 0, pending |-> 0]
<1>1. /\ s1 = [u \in contest.Users |-> p] /\ s2 = [u \in contest.Users |-> {}] /\ s3 = <<>>
      /\ s4 = <<>> /\ s5 = <<>> /\ s6 = <<>> /\ s7 = 1
  BY DEF InGames, Games!Init
<1>2. p \in Games!Profile /\ p.score = 0 /\ p.pending = 0 /\ p.earned = 0
  BY DEF Games!Profile
<1> HIDE DEF p
<1>3. ScoresOf(s1) = [u \in contest.Users |-> 0]
  BY <1>1, <1>2 DEF ScoresOf
<1>4. BoardSound(s1, s3)
  <2>1. Games!Ranks(<<>>, [u \in contest.Users |-> 0], contest.BoardSize)
    BY EmptyRanks
  <2>2. Len(<<>>) <= contest.BoardSize
    BY GamesAssumed
  <2> QED BY <1>1, <1>2, <1>3, <2>1, <2>2 DEF BoardSound
<1>5. JoinedSound(s4, s5)
  <2>1. 1..Len(<<>>) = {}
    OBVIOUS
  <2> QED BY <1>1, <2>1 DEF JoinedSound
<1>6. HistorySound(s6, s5)
  BY <1>1 DEF HistorySound
<1>7. AccountsSound(s1, s6)
  <2>1. ASSUME NEW u, NEW ids PROVE PaidTo(<<>>, u, ids) = 0
    BY TotalEmpty DEF PaidTo
  <2> QED BY <1>1, <1>2, <2>1 DEF AccountsSound
<1> QED BY <1>1, <1>4, <1>5, <1>6, <1>7 DEF GamesInv

LEMMA GamesGoOn ==
    ASSUME GamesInv, Games!GamesNext
    PROVE  GamesInv'
<1>1. CASE \E u \in contest.Users :
          \/ Games!RecordActivity(u) \/ Games!RecordProfitableTrade(u)
          \/ Games!RecordLosingTrade(u) \/ Games!ClaimRewards(u)
  BY <1>1, ActivityKeepsBooks, WinsKeepBooks, LossesKeepBooks, PayoutsKeepBooks
<1>2. CASE \E u \in contest.Users :
          \E met \in SUBSET (contest.TradingBadges \cup contest.OtherBadges) :
              Games!AwardAchievements(u, met)
  BY <1>2, BadgesKeepBooks
<1>3. CASE \E pool \in contest.Pools, n \in contest.Places, t \in DOMAIN contest.TierScores,
              d \in contest.Durations : Games!CreateChallenge(pool, n, t, d)
  BY <1>3, CreationsKeepBooks
<1>4. CASE \E u \in contest.Users, c \in DOMAIN s4 :
          \/ Games!JoinChallenge(u, c) \/ Games!UpdateProgress(u, c)
          \/ Games!ClaimChallengeReward(u, c)
  BY <1>4, JoinsKeepBooks, ProgressKeepsBooks, RewardsKeepBooks
<1>5. CASE Games!FinalizeExpiredChallenges
  BY <1>5, ClosingKeepsBooks
<1>6. CASE Games!Tick
  <2>1. /\ s7' = s7 + 1 /\ s1' = s1 /\ s2' = s2 /\ s3' = s3 /\ s4' = s4 /\ s5' = s5 /\ s6' = s6
    BY <1>6 DEF Games!Tick
  <2>2. s7' \in Nat
    BY <2>1 DEF GamesInv
  <2> QED BY <2>1, <2>2 DEF GamesInv
<1> QED BY <1>1, <1>2, <1>3, <1>4, <1>5, <1>6 DEF Games!GamesNext

LEMMA GamesRank == GamesInv => Games!BoardRanksScores
BY DEF GamesInv, BoardSound, ScoresOf, Games!BoardRanksScores

LEMMA GamesPayOnce == GamesInv => Games!RewardsPaidOnce
<1> SUFFICES ASSUME GamesInv PROVE Games!RewardsPaidOnce
  OBVIOUS
<1>1. \A u, ids : Games!Paid(u, ids) = PaidTo(s6, u, ids)
  BY GamesTotals DEF Games!Paid, PaidTo
<1>2. ASSUME NEW u \in contest.Users
      PROVE  /\ Games!Paid(u, Nat \ {0}) = s1[u].pending + s1[u].earned
             /\ Games!Paid(u, {0}) = s1[u].earned
  BY <1>1 DEF GamesInv, AccountsSound
<1>3. ASSUME NEW c \in DOMAIN s4
      PROVE  /\ s4[c].joined = Games!Cardinality(DOMAIN s5[c])
             /\ s4[c].places > 0 => s4[c].joined <= s4[c].places
  <2>1. c \in 1..Len(s4)
    BY DEF GamesInv, JoinedSound
  <2> QED BY <2>1, GamesTotals DEF GamesInv, JoinedSound
<1>4. \A i, j \in DOMAIN s6 :
          s6[i].challenge > 0 /\ s6[i].user = s6[j].user
             /\ s6[i].challenge = s6[j].challenge => i = j
  BY DEF GamesInv, HistorySound
<1> QED BY <1>2, <1>3, <1>4 DEF Games!RewardsPaidOnce

\* The theorem behind RewardsAccounted: the pools of the participation rewards cover what
\* their accounts show, and every reward of a challenge is paid once and accounted for.
THEOREM RewardsAccountedAlways == CoreSpec => []RewardsAccounted
<1> DEFINE Inv == (part = "rewards" => RewardsInv) /\ (part = "games" => GamesInv)
<1>1. CoreInit => Inv
  BY PartBegins, RewardsBegin, GamesBegin
<1>2. Inv /\ [CoreNext]_vars => Inv'
  <2>1. ASSUME Inv, CoreNext PROVE Inv'
    <3>1. CASE part = "rewards"
      BY <2>1, <3>1, PartGoesOn, RewardsGoOn DEF RewardsStep
    <3>2. CASE part = "games"
      BY <2>1, <3>2, PartGoesOn, GamesGoOn DEF GamesStep
    <3>3. CASE part # "rewards" /\ part # "games"
      BY <3>3, <2>1, PartGoesOn
    <3> QED BY <3>1, <3>2, <3>3
  <2>2. ASSUME Inv, UNCHANGED vars PROVE Inv'
    BY <2>2, NothingMoves DEF RewardsInv, GamesInv
  <2> QED BY <2>1, <2>2
<1>3. Inv => RewardsAccounted
  BY RewardsCover, GamesPayOnce DEF RewardsAccounted
<1> QED BY <1>1, <1>2, <1>3, PTL DEF CoreSpec

\* The theorem behind BoardsRank: whatever is scored, in whichever order and however often
\* users overtake each other, a board keeps the ranking and leaves out nobody who is better.
THEOREM BoardsRankAlways == CoreSpec => []BoardsRank
<1> DEFINE Inv == (part = "games" => GamesInv) /\ (part = "seasons" => SeasonsInv)
<1>1. CoreInit => Inv
  BY PartBegins, GamesBegin, SeasonsBegin
<1>2. Inv /\ [CoreNext]_vars => Inv'
  <2>1. ASSUME Inv, CoreNext PROVE Inv'
    <3>1. CASE part = "games"
      BY <2>1, <3>1, PartGoesOn, GamesGoOn DEF GamesStep
    <3>2. CASE part = "seasons"
      BY <2>1, <3>2, PartGoesOn, SeasonsGoOn DEF SeasonsStep
    <3>3. CASE part # "games" /\ part # "seasons"
      BY <3>3, <2>1, PartGoesOn
    <3> QED BY <3>1, <3>2, <3>3
  <2>2. ASSUME Inv, UNCHANGED vars PROVE Inv'
    BY <2>2, NothingMoves DEF GamesInv, SeasonsInv
  <2> QED BY <2>1, <2>2
<1>3. Inv => BoardsRank
  BY GamesRank, SeasonsRank DEF BoardsRank
<1> QED BY <1>1, <1>2, <1>3, PTL DEF CoreSpec

-----------------------------------------------------------------------------
(* The referrers of users, and what their fees earn.                       *)

LEMMA CircleAssumed ==
    /\ circle.Tiers \in Seq(Nat \X Nat \X Nat) /\ Len(circle.Tiers) > 0 /\ circle.Tiers[1][1] = 0
    /\ circle.Unit \in Nat \ {0} /\ circle.Fees \subseteq Nat /\ IsFiniteSet(circle.Users)
<1>1. /\ circle.Tiers \in Seq(Nat \X Nat \X Nat) /\ circle.Tiers /= <<>> /\ circle.Tiers[1][1] = 0
      /\ circle.Unit \in Nat \ {0} /\ circle.Fees \subseteq Nat /\ Refers!IsFiniteSet(circle.Users)
  BY CoreAssumption DEF Refers!ReferralsAssumption
<1>2. Refers!IsFiniteSet(circle.Users) <=> IsFiniteSet(circle.Users)
  BY DEF Refers!IsFiniteSet, IsFiniteSet
<1>3. ASSUME NEW q \in Seq(Nat \X Nat \X Nat), q /= <<>> PROVE Len(q) > 0
  BY <1>3
<1> QED BY <1>1, <1>2, <1>3

LEMMA CircleTotals ==
    /\ \A f, S : Refers!SetTotal(f, S) = SetTotal(f, S)
    /\ \A S : Refers!Cardinality(S) = Cardinality(S)
<1>1. \A f, n : Refers!Total(f, n) = Total(f, n)
  BY DEF Refers!Total, Total, Refers!PartialSums, PartialSums
<1>2. \A S : Refers!Cardinality(S) = Cardinality(S)
  BY DEF Refers!Cardinality, Cardinality
<1>3. ASSUME NEW f, NEW S PROVE Refers!SetTotal(f, S) = SetTotal(f, S)
  <2>1. Refers!Enumeration(S) = Enumeration(S)
    BY <1>2 DEF Refers!Enumeration, Enumeration
  <2> QED BY <1>1, <1>2, <2>1 DEF Refers!SetTotal, SetTotal
<1> QED BY <1>2, <1>3

\* The chains of referrers, as the recursion of Up has them.
IsUp(g, U, ref) ==
    g = [d \in 0..3 |-> [u \in U |-> IF d = 0 \/ u \notin DOMAIN ref THEN <<>>
                                     ELSE <<ref[u]>> \o g[d - 1][ref[u]]]]
UpOf(U, ref) == CHOOSE g : IsUp(g, U, ref)

Referring(U, ref) == DOMAIN ref \subseteq U /\ \A u \in DOMAIN ref : ref[u] \in U

LEMMA UpUnfolds ==
    ASSUME NEW U, NEW ref, Referring(U, ref)
    PROVE  \A d \in 0..3 : \A u \in U :
              UpOf(U, ref)[d][u] = IF d = 0 \/ u \notin DOMAIN ref THEN <<>>
                                   ELSE <<ref[u]>> \o UpOf(U, ref)[d - 1][ref[u]]
<1> DEFINE F == [U -> Seq(U)]
           Higher(d, f) == [u \in U |-> IF d = 0 \/ u \notin DOMAIN ref THEN <<>>
                                        ELSE <<ref[u]>> \o f[ref[u]]]
           a == [u \in U |-> <<>>]
           h == [x \in Nat \X F |-> Higher(x[1], x[2])]
<1>1. \A d \in Nat, f \in F : Higher(d, f) \in F
  <2> TAKE d \in Nat, f \in F
  <2>1. \A u \in U : Higher(d, f)[u] \in Seq(U)
    BY ConcatProperties DEF Referring
  <2> QED BY <2>1
<1>2. a \in F
  OBVIOUS
<1> HIDE DEF Higher, F
<1>3. h \in [Nat \X F -> F] /\ \A d \in Nat, f \in F : h[<<d, f>>] = Higher(d, f)
  BY <1>1
<1> HIDE DEF h, a
<1>4. PICK g : Recursion(g, F, a, h, 3)
  BY <1>2, <1>3, RecursionExists
<1>5. g \in [0..3 -> F] /\ g[0] = a /\ \A d \in 1..3 : g[d] = Higher(d, g[d - 1])
  <2>1. g \in [0..3 -> F] /\ g[0] = a /\ \A d \in 1..3 : g[d] = h[<<d, g[d - 1]>>]
    BY <1>4 DEF Recursion
  <2>2. \A d \in 1..3 : d \in Nat /\ g[d - 1] \in F
    BY <2>1
  <2> QED BY <1>3, <2>1, <2>2
<1>6. \A d \in 0..3 : g[d] = Higher(d, g[d - 1])
  <2> TAKE d \in 0..3
  <2>1. CASE d = 0
    <3>1. a = Higher(0, g[0 - 1])
      BY DEF a, Higher
    <3> QED BY <1>5, <2>1, <3>1
  <2>2. CASE d # 0
    BY <1>5, <2>2
  <2> QED BY <2>1, <2>2
<1>7. g = [d \in 0..3 |-> Higher(d, g[d - 1])]
  BY <1>5, <1>6
<1>8. IsUp(g, U, ref)
  BY <1>7 DEF IsUp, Higher
<1>9. IsUp(UpOf(U, ref), U, ref)
  BY <1>8 DEF UpOf
<1> DEFINE v == UpOf(U, ref)
<1> HIDE DEF v
<1>10. v = [d \in 0..3 |-> [u \in U |-> IF d = 0 \/ u \notin DOMAIN ref THEN <<>>
                                       ELSE <<ref[u]>> \o v[d - 1][ref[u]]]]
  BY <1>9 DEF IsUp, v
<1>11. ASSUME NEW d \in 0..3, NEW u \in U
       PROVE  v[d][u] = IF d = 0 \/ u \notin DOMAIN ref THEN <<>>
                        ELSE <<ref[u]>> \o v[d - 1][ref[u]]
  <2>1. v[d] = [w \in U |-> IF d = 0 \/ w \notin DOMAIN ref THEN <<>>
                            ELSE <<ref[w]>> \o v[d - 1][ref[w]]]
    BY <1>10, <1>11, Zenon
  <2> QED BY <2>1, Zenon
<1> QED BY <1>11 DEF v

\* Who stands in a chain: the referrer, and who stands in the referrer's.
Ahead(U, ref, u, d) == {UpOf(U, ref)[d][u][i] : i \in DOMAIN UpOf(U, ref)[d][u]}

LEMMA AheadUnfolds ==
    ASSUME NEW U, NEW ref, Referring(U, ref)
    PROVE  /\ \A u \in U : UpOf(U, ref)[0][u] = <<>> /\ Ahead(U, ref, u, 0) = {}
           /\ \A d \in 1..3 : \A u \in U : u \notin DOMAIN ref =>
                 UpOf(U, ref)[d][u] = <<>> /\ Ahead(U, ref, u, d) = {}
           /\ \A d \in 1..3 : \A u \in DOMAIN ref : UpOf(U, ref)[d - 1][ref[u]] \in Seq(U) =>
                 /\ UpOf(U, ref)[d][u] \in Seq(U)
                 /\ Len(UpOf(U, ref)[d][u]) = 1 + Len(UpOf(U, ref)[d - 1][ref[u]])
                 /\ Ahead(U, ref, u, d) = {ref[u]} \cup Ahead(U, ref, ref[u], d - 1)
<1> DEFINE v == UpOf(U, ref)
<1>1. \A d \in 0..3 : \A u \in U : v[d][u] = IF d = 0 \/ u \notin DOMAIN ref THEN <<>>
                                             ELSE <<ref[u]>> \o v[d - 1][ref[u]]
  BY UpUnfolds
<1> HIDE DEF v
<1>2. ASSUME NEW u \in U PROVE v[0][u] = <<>> /\ Ahead(U, ref, u, 0) = {}
  BY <1>1 DEF Ahead, v
<1>3. ASSUME NEW d \in 1..3, NEW u \in U, u \notin DOMAIN ref
      PROVE  v[d][u] = <<>> /\ Ahead(U, ref, u, d) = {}
  <2>1. v[d][u] = <<>>
    <3>1. d \in 0..3
      OBVIOUS
    <3> QED BY <1>1, <1>3, <3>1
  <2> QED BY <2>1 DEF Ahead, v
<1>4. ASSUME NEW d \in 1..3, NEW u \in DOMAIN ref, v[d - 1][ref[u]] \in Seq(U)
      PROVE  /\ v[d][u] \in Seq(U) /\ Len(v[d][u]) = 1 + Len(v[d - 1][ref[u]])
             /\ Ahead(U, ref, u, d) = {ref[u]} \cup Ahead(U, ref, ref[u], d - 1)
  <2> DEFINE q == v[d - 1][ref[u]]
             p == v[d][u]
  <2>1. ref[u] \in U /\ u \in U
    BY DEF Referring
  <2>2. p = <<ref[u]>> \o q
    <3>1. d \in 0..3 /\ d # 0
      OBVIOUS
    <3> QED BY <1>1, <2>1, <3>1
  <2>3. q \in Seq(U) /\ Len(q) \in Nat
    BY <1>4
  <2> HIDE DEF p, q
  <2>4. /\ p \in Seq(U) /\ Len(p) = 1 + Len(q) /\ p[1] = ref[u]
        /\ \A i \in 1..Len(q) : p[i + 1] = q[i]
    <3>1. <<ref[u]>> \in Seq(U) /\ Len(<<ref[u]>>) = 1 /\ <<ref[u]>>[1] = ref[u]
      BY <2>1
    <3>2. /\ p \in Seq(U) /\ Len(p) = 1 + Len(q)
          /\ \A i \in 1..1 + Len(q) : p[i] = IF i <= 1 THEN <<ref[u]>>[i] ELSE q[i - 1]
      BY <2>2, <2>3, <3>1, ConcatProperties
    <3>3. \A i \in 1..Len(q) : i + 1 \in 1..1 + Len(q) /\ ~(i + 1 <= 1) /\ (i + 1) - 1 = i
      BY <2>3
    <3> QED BY <2>3, <3>1, <3>2, <3>3
  <2>5. {p[i] : i \in DOMAIN p} = {ref[u]} \cup {q[i] : i \in DOMAIN q}
    <3>1. DOMAIN p = 1..1 + Len(q) /\ DOMAIN q = 1..Len(q)
      BY <2>3, <2>4
    <3>2. \A i \in DOMAIN p : i = 1 \/ (i - 1 \in DOMAIN q /\ p[i] = q[i - 1])
      BY <2>3, <2>4, <3>1
    <3>3. 1 \in DOMAIN p /\ \A i \in DOMAIN q : i + 1 \in DOMAIN p
      BY <2>3, <3>1
    <3>4. \A x \in {p[i] : i \in DOMAIN p} : x \in {ref[u]} \cup {q[i] : i \in DOMAIN q}
      BY <2>4, <3>2
    <3>5. \A x \in {q[i] : i \in DOMAIN q} : x \in {p[i] : i \in DOMAIN p}
      <4>1. \A i \in DOMAIN q : q[i] = p[i + 1] /\ i + 1 \in DOMAIN p
        BY <2>4, <3>1, <3>3
      <4> QED BY <4>1
    <3>6. ref[u] \in {p[i] : i \in DOMAIN p}
      BY <2>4, <3>3
    <3> QED BY <3>4, <3>5, <3>6
  <2> QED BY <2>4, <2>5 DEF Ahead, p, q, v
<1> QED BY <1>2, <1>3, <1>4 DEF v

LEMMA AheadIs ==
    ASSUME NEW U, NEW ref, Referring(U, ref)
    PROVE  \A u \in U :
              /\ \A d \in 0..3 : UpOf(U, ref)[d][u] \in Seq(U) /\ Len(UpOf(U, ref)[d][u]) <= d
              /\ Ahead(U, ref, u, 1) = IF u \in DOMAIN ref THEN {ref[u]} ELSE {}
              /\ Ahead(U, ref, u, 2) = IF u \in DOMAIN ref
                                       THEN {ref[u]} \cup Ahead(U, ref, ref[u], 1) ELSE {}
              /\ Ahead(U, ref, u, 3) = IF u \in DOMAIN ref
                                       THEN {ref[u]} \cup Ahead(U, ref, ref[u], 2) ELSE {}
<1> DEFINE v == UpOf(U, ref)
           Fine(d) == \A u \in U : v[d][u] \in Seq(U) /\ Len(v[d][u]) <= d
           A(u, d) == Ahead(U, ref, u, d)
<1>1. \A u \in DOMAIN ref : u \in U /\ ref[u] \in U
  BY DEF Referring
<1>2. Fine(0) /\ \A u \in U : A(u, 0) = {}
  <2>1. \A u \in U : v[0][u] = <<>> /\ A(u, 0) = {}
    BY AheadUnfolds
  <2>2. <<>> \in Seq(U) /\ Len(<<>>) <= 0
    OBVIOUS
  <2> HIDE DEF v, A
  <2> QED BY <2>1, <2>2
<1>3. ASSUME NEW d \in 1..3, Fine(d - 1)
      PROVE  /\ Fine(d)
             /\ \A u \in U : A(u, d) = IF u \in DOMAIN ref THEN {ref[u]} \cup A(ref[u], d - 1) ELSE {}
  <2>1. ASSUME NEW u \in U, u \notin DOMAIN ref
        PROVE  v[d][u] \in Seq(U) /\ Len(v[d][u]) <= d /\ A(u, d) = {}
    <3>1. v[d][u] = <<>> /\ A(u, d) = {}
      BY <2>1, AheadUnfolds
    <3>2. <<>> \in Seq(U) /\ Len(<<>>) = 0
      OBVIOUS
    <3> HIDE DEF v, A
    <3> QED BY <3>1, <3>2
  <2>2. ASSUME NEW u \in DOMAIN ref
        PROVE  v[d][u] \in Seq(U) /\ Len(v[d][u]) <= d /\ A(u, d) = {ref[u]} \cup A(ref[u], d - 1)
    <3>1. v[d - 1][ref[u]] \in Seq(U) /\ Len(v[d - 1][ref[u]]) <= d - 1
      BY <1>1, <1>3
    <3>2. /\ v[d][u] \in Seq(U) /\ Len(v[d][u]) = 1 + Len(v[d - 1][ref[u]])
          /\ A(u, d) = {ref[u]} \cup A(ref[u], d - 1)
      BY <3>1, AheadUnfolds
    <3> DEFINE p == v[d - 1][ref[u]]
               q == v[d][u]
    <3> HIDE DEF v, A
    <3>3. Len(p) \in Nat
      BY <3>1
    <3> HIDE DEF p, q
    <3>4. Len(q) <= d
      BY <3>1, <3>2, <3>3 DEF p, q
    <3> QED BY <3>2, <3>4 DEF q
  <2> HIDE DEF v, A
  <2> QED BY <1>1, <2>1, <2>2
<1> HIDE DEF v, A
<1>4. /\ Fine(1)
      /\ \A u \in U : A(u, 1) = IF u \in DOMAIN ref THEN {ref[u]} \cup A(ref[u], 0) ELSE {}
  <2>1. 1 \in 1..3 /\ 1 - 1 = 0
    OBVIOUS
  <2> HIDE DEF Fine
  <2> QED BY <1>2, <1>3, <2>1
<1>5. /\ Fine(2)
      /\ \A u \in U : A(u, 2) = IF u \in DOMAIN ref THEN {ref[u]} \cup A(ref[u], 1) ELSE {}
  <2>1. 2 \in 1..3 /\ 2 - 1 = 1
    OBVIOUS
  <2> HIDE DEF Fine
  <2> QED BY <1>4, <1>3, <2>1
<1>6. /\ Fine(3)
      /\ \A u \in U : A(u, 3) = IF u \in DOMAIN ref THEN {ref[u]} \cup A(ref[u], 2) ELSE {}
  <2>1. 3 \in 1..3 /\ 3 - 1 = 2
    OBVIOUS
  <2> HIDE DEF Fine
  <2> QED BY <1>5, <1>3, <2>1
<1>7. \A u \in U : A(u, 1) = IF u \in DOMAIN ref THEN {ref[u]} ELSE {}
  BY <1>1, <1>2, <1>4
<1>8. \A d \in 0..3 : d = 0 \/ d = 1 \/ d = 2 \/ d = 3
  OBVIOUS
<1>9. \A d \in 0..3 : Fine(d)
  <2> HIDE DEF Fine
  <2> QED BY <1>2, <1>4, <1>5, <1>6, <1>8
<1> QED BY <1>5, <1>6, <1>7, <1>9 DEF v, A

LEMMA RefersAhead ==
    \A u, d : Refers!Up = UpOf(circle.Users, s1) /\ Refers!Ancestors(u, d) = Ahead(circle.Users, s1, u, d)
<1>1. Refers!Up = UpOf(circle.Users, s1)
  BY DEF Refers!Up, UpOf, IsUp
<1> QED BY <1>1 DEF Refers!Ancestors, Ahead

\* Nobody stands within three steps ahead of themselves.
Loopless(ref) ==
    \A u \in DOMAIN ref :
        /\ ref[u] # u
        /\ ref[u] \in DOMAIN ref =>
              /\ ref[ref[u]] # u
              /\ ref[ref[u]] \in DOMAIN ref => ref[ref[ref[u]]] # u

LEMMA LooplessAhead ==
    ASSUME NEW U, NEW ref, Referring(U, ref), Loopless(ref), NEW u \in U
    PROVE  u \notin Ahead(U, ref, u, 3)
<1>1. CASE u \notin DOMAIN ref
  BY <1>1, AheadIs
<1>2. CASE u \in DOMAIN ref
  <2>1. ref[u] \in U /\ ref[u] # u
    BY <1>2 DEF Referring, Loopless
  <2>2. Ahead(U, ref, u, 3) = {ref[u]} \cup Ahead(U, ref, ref[u], 2)
    BY <1>2, AheadIs
  <2>3. u \notin Ahead(U, ref, ref[u], 2)
    <3>1. CASE ref[u] \notin DOMAIN ref
      BY <2>1, <3>1, AheadIs
    <3>2. CASE ref[u] \in DOMAIN ref
      <4>1. ref[ref[u]] \in U /\ ref[ref[u]] # u
        BY <1>2, <3>2 DEF Referring, Loopless
      <4>2. Ahead(U, ref, ref[u], 2) = {ref[ref[u]]} \cup Ahead(U, ref, ref[ref[u]], 1)
        BY <2>1, <3>2, AheadIs
      <4>3. u \notin Ahead(U, ref, ref[ref[u]], 1)
        BY <1>2, <3>2, <4>1, AheadIs DEF Loopless
      <4> QED BY <4>1, <4>2, <4>3
    <3> QED BY <3>1, <3>2
  <2> QED BY <2>1, <2>2, <2>3
<1> QED BY <1>1, <1>2

\* A referrer whose two next referrers are others closes no circle of three.
LEMMA LooplessStays ==
    ASSUME NEW U, NEW ref, Referring(U, ref), Loopless(ref), NEW r \in U, NEW u \in U,
           r # u, u \notin DOMAIN ref, u \notin Ahead(U, ref, r, 2), NEW new,
           new = [v \in DOMAIN ref \cup {u} |-> IF v = u THEN r ELSE ref[v]]
    PROVE  Referring(U, new) /\ Loopless(new)
<1>1. r \in DOMAIN ref => ref[r] # u /\ (ref[r] \in DOMAIN ref => ref[ref[r]] # u)
  <2> SUFFICES ASSUME r \in DOMAIN ref
               PROVE  ref[r] # u /\ (ref[r] \in DOMAIN ref => ref[ref[r]] # u)
    OBVIOUS
  <2>1. Ahead(U, ref, r, 2) = {ref[r]} \cup Ahead(U, ref, ref[r], 1) /\ ref[r] \in U
    BY AheadIs DEF Referring
  <2>2. ref[r] \in DOMAIN ref => Ahead(U, ref, ref[r], 1) = {ref[ref[r]]}
    BY <2>1, AheadIs
  <2> QED BY <2>1, <2>2
<1>2. /\ DOMAIN new = DOMAIN ref \cup {u} /\ new[u] = r
      /\ \A v \in DOMAIN ref : v # u /\ new[v] = ref[v]
  OBVIOUS
<1>3. Referring(U, new)
  BY <1>2 DEF Referring
<1>4. ASSUME NEW v \in DOMAIN new
      PROVE  /\ new[v] # v
             /\ new[v] \in DOMAIN new =>
                   /\ new[new[v]] # v
                   /\ new[new[v]] \in DOMAIN new => new[new[new[v]]] # v
  <2>1. CASE v = u
    BY <1>1, <1>2, <2>1
  <2>2. CASE v # u /\ ref[v] = u
    <3>1. v \in DOMAIN ref /\ new[v] = u /\ new[u] = r
      BY <1>2, <2>2
    <3>2. r # v
      BY <1>1, <2>2, <3>1
    <3>3. r \in DOMAIN new => r \in DOMAIN ref /\ new[r] = ref[r]
      BY <1>2
    <3>4. r \in DOMAIN ref => ref[r] # v
      BY <1>1, <2>2, <3>1
    <3> QED BY <2>2, <3>1, <3>2, <3>3, <3>4
  <2>3. CASE v # u /\ ref[v] # u
    <3>1. v \in DOMAIN ref /\ new[v] = ref[v] /\ ref[v] # v
      BY <1>2, <2>3 DEF Loopless
    <3>2. ref[v] \in DOMAIN new => ref[v] \in DOMAIN ref /\ new[ref[v]] = ref[ref[v]] /\ ref[ref[v]] # v
      BY <1>2, <2>3, <3>1 DEF Loopless
    <3>3. ASSUME ref[v] \in DOMAIN ref, ref[ref[v]] \in DOMAIN new PROVE new[ref[ref[v]]] # v
      <4>1. CASE ref[ref[v]] = u
        BY <1>1, <1>2, <3>1, <3>3, <4>1
      <4>2. CASE ref[ref[v]] # u
        BY <1>2, <3>1, <3>3, <4>2 DEF Loopless
      <4> QED BY <4>1, <4>2
    <3> QED BY <3>1, <3>2, <3>3
  <2> QED BY <2>1, <2>2, <2>3
<1> QED BY <1>3, <1>4 DEF Loopless

\* Whom a user referred.
Named(ref, u) == {v \in DOMAIN ref : ref[v] = u}

\* The inductive invariant of the referrers.
RefersInv ==
    /\ Referring(circle.Users, s1) /\ Loopless(s1)
    /\ s2 \in [circle.Users -> [direct : Nat, earned : Nat, referred : Nat]]
    /\ s3 \in [circle.Users -> Nat] /\ s4 \in [circle.Users -> Nat]
    /\ s5 \in [circle.Users -> Nat]
    /\ \A u \in circle.Users : /\ s2[u].earned = s4[u] + s5[u]
                               /\ s2[u].direct = Cardinality(Named(s1, u))

LEMMA RefersBegin == InReferrals => RefersInv
<1> SUFFICES ASSUME InReferrals PROVE RefersInv
  OBVIOUS
<1>0. Cardinality({}) = 0
  BY FS_EmptySet
<1>1. /\ s1 = <<>> /\ s2 = [u \in circle.Users |-> [direct |-> 0, earned |-> 0, referred |-> 0]]
      /\ s3 = [u \in circle.Users |-> 0] /\ s4 = s3 /\ s5 = s3
  BY DEF InReferrals, Refers!Init
<1>2. DOMAIN s1 = {}
  BY <1>1
<1>3. \A u : Named(s1, u) = {}
  BY <1>2 DEF Named
<1>4. Referring(circle.Users, s1) /\ Loopless(s1)
  BY <1>2 DEF Referring, Loopless
<1>5. s3 \in [circle.Users -> Nat] /\ s4 \in [circle.Users -> Nat] /\ s5 \in [circle.Users -> Nat]
  BY <1>1
<1>6. s2 \in [circle.Users -> [direct : Nat, earned : Nat, referred : Nat]]
  BY <1>1
<1>7. \A u \in circle.Users : s2[u].earned = s4[u] + s5[u] /\ s2[u].direct = 0
  BY <1>1
<1> QED BY <1>0, <1>3, <1>4, <1>5, <1>6, <1>7 DEF RefersInv

LEMMA RegisterKeeps ==
    ASSUME RefersInv, NEW r \in circle.Users, NEW u \in circle.Users, Refers!RegisterReferral(r, u)
    PROVE  RefersInv'
<1> DEFINE U == circle.Users
<1>0. u \notin Ahead(U, s1, r, 2)
  <2>1. Refers!Ancestors(r, 2) = Ahead(U, s1, r, 2)
    BY RefersAhead
  <2> QED BY <2>1 DEF Refers!RegisterReferral, Refers!IsCircular
<1>1. /\ r # u /\ u \notin DOMAIN s1
      /\ s1' = [v \in DOMAIN s1 \cup {u} |-> IF v = u THEN r ELSE s1[v]]
      /\ s2' = [s2 EXCEPT ![r].direct = @ + 1] /\ s3' = s3 /\ s4' = s4 /\ s5' = s5
  BY DEF Refers!RegisterReferral
<1>2. Referring(U, s1') /\ Loopless(s1')
  <2>1. Referring(U, s1) /\ Loopless(s1)
    BY DEF RefersInv
  <2>2. /\ r # u /\ u \notin DOMAIN s1 /\ r \in U /\ u \in U
        /\ s1' = [v \in DOMAIN s1 \cup {u} |-> IF v = u THEN r ELSE s1[v]]
    BY <1>1
  <2> DEFINE ref == s1
             new == s1'
  <2> HIDE DEF U, ref, new
  <2>3. /\ Referring(U, ref) /\ Loopless(ref) /\ u \notin Ahead(U, ref, r, 2)
        /\ r \in U /\ u \in U /\ r # u /\ u \notin DOMAIN ref
        /\ new = [v \in DOMAIN ref \cup {u} |-> IF v = u THEN r ELSE ref[v]]
    BY <1>0, <2>1, <2>2 DEF ref, new
  <2>4. Referring(U, new) /\ Loopless(new)
    BY <2>3, LooplessStays
  <2> QED BY <2>4 DEF new
<1>3. DOMAIN s1 \subseteq U /\ IsFiniteSet(U) /\ IsFiniteSet(DOMAIN s1)
  BY CircleAssumed, FS_Subset DEF RefersInv, Referring
<1>4. ASSUME NEW v \in U PROVE IsFiniteSet(Named(s1, v)) /\ Cardinality(Named(s1, v)) \in Nat
  <2>1. Named(s1, v) \subseteq DOMAIN s1
    BY DEF Named
  <2> QED BY <1>3, <2>1, FS_Subset, FS_CardinalityType
<1>5. Named(s1', r) = Named(s1, r) \cup {u} /\ u \notin Named(s1, r)
  BY <1>1 DEF Named
<1>6. \A v \in U : v # r => Named(s1', v) = Named(s1, v)
  BY <1>1 DEF Named
<1>7. Cardinality(Named(s1', r)) = Cardinality(Named(s1, r)) + 1
  BY <1>4, <1>5, FS_AddElement
<1>8. /\ s2 \in [U -> [direct : Nat, earned : Nat, referred : Nat]]
      /\ \A v \in U : s2[v].earned = s4[v] + s5[v] /\ s2[v].direct = Cardinality(Named(s1, v))
  BY DEF RefersInv
<1>9. /\ s2' \in [U -> [direct : Nat, earned : Nat, referred : Nat]]
      /\ s2'[r].direct = s2[r].direct + 1 /\ s2'[r].earned = s2[r].earned
      /\ \A v \in U : v # r => s2'[v] = s2[v]
  <2> DEFINE entry == [s2[r] EXCEPT !.direct = @ + 1]
  <2>1. s2[r] \in [direct : Nat, earned : Nat, referred : Nat] /\ s2[r].direct \in Nat
    BY <1>8
  <2>2. /\ entry \in [direct : Nat, earned : Nat, referred : Nat]
        /\ entry.direct = s2[r].direct + 1 /\ entry.earned = s2[r].earned
    BY <2>1
  <2>3. s2' = [s2 EXCEPT ![r] = entry]
    BY <1>1
  <2> HIDE DEF entry
  <2> QED BY <1>8, <2>2, <2>3
<1>10. \A v \in U : s2'[v].earned = s4'[v] + s5'[v] /\ s2'[v].direct = Cardinality(Named(s1', v))
  <2> TAKE v \in U
  <2>1. CASE v = r
    BY <1>1, <1>7, <1>8, <1>9, <2>1
  <2>2. CASE v # r
    BY <1>1, <1>6, <1>8, <1>9, <2>2
  <2> QED BY <2>1, <2>2
<1> QED BY <1>1, <1>2, <1>9, <1>10 DEF RefersInv

\* Every volume has its tier.
LEMMA TierOfIs ==
    ASSUME NEW v \in Nat
    PROVE  /\ Refers!TierOf(v) \in DOMAIN circle.Tiers
           /\ circle.Tiers[Refers!TierOf(v)] \in Nat \X Nat \X Nat
<1> DEFINE T == circle.Tiers
           n == Len(T)
           S == {d \in Nat : d < n /\ T[n - d][1] <= v}
<1>1. /\ n \in Nat /\ n > 0 /\ DOMAIN T = 1..n /\ T[1][1] = 0
      /\ \A i \in 1..n : T[i] \in Nat \X Nat \X Nat /\ T[i][1] \in Nat
  <2>1. T \in Seq(Nat \X Nat \X Nat) /\ n > 0 /\ T[1][1] = 0
    BY CircleAssumed
  <2> HIDE DEF T
  <2>2. \A i \in 1..n : T[i] \in Nat \X Nat \X Nat
    BY <2>1
  <2> QED BY <2>1, <2>2
<1> HIDE DEF T, n
<1>2. n - 1 \in S
  <2>1. n - (n - 1) = 1 /\ n - 1 \in Nat /\ n - 1 < n
    BY <1>1
  <2> QED BY <1>1, <2>1
<1>3. PICK d \in S : \A e \in S : d <= e
  <2>1. S \subseteq Nat /\ S # {}
    BY <1>2
  <2> HIDE DEF S
  <2> QED BY <2>1, LeastNatural
<1> DEFINE i == n - d
<1>4. i \in 1..n /\ T[i][1] <= v
  BY <1>1, <1>3
<1>5. ASSUME NEW j \in i + 1..n PROVE v < T[j][1]
  <2>1. n - j \in Nat /\ n - j < n /\ n - (n - j) = j /\ n - j < d /\ j \in 1..n
    BY <1>1, <1>3, <1>4
  <2>2. n - j \notin S
    BY <1>3, <2>1
  <2>3. ~(T[n - (n - j)][1] <= v)
    BY <2>1, <2>2
  <2>4. T[j][1] \in Nat /\ v \in Nat /\ ~(T[j][1] <= v)
    BY <1>1, <2>1, <2>3
  <2> QED BY ONLY <2>4
<1> HIDE DEF i
<1>6. \E k \in DOMAIN T : T[k][1] <= v /\ \A j \in k + 1..n : v < T[j][1]
  BY <1>1, <1>4, <1>5
<1>7. Refers!TierOf(v) \in DOMAIN T
  BY <1>6 DEF Refers!TierOf, T, n
<1> QED BY <1>1, <1>7 DEF T

LEMMA StatsGrow ==
    ASSUME NEW e \in [direct : Nat, earned : Nat, referred : Nat], NEW a \in Nat, NEW b \in Nat
    PROVE  LET n == [e EXCEPT !.earned = @ + a, !.referred = @ + b]
           IN  /\ n \in [direct : Nat, earned : Nat, referred : Nat]
               /\ n.earned = e.earned + a /\ n.direct = e.direct
<1>1. e.earned + a \in Nat /\ e.referred + b \in Nat
  OBVIOUS
<1> QED BY <1>1

LEMMA FeeShared ==
    ASSUME RefersInv, NEW u \in circle.Users, NEW fee \in circle.Fees, Refers!Distribute(u, fee)
    PROVE  RefersInv'
<1> DEFINE U == circle.Users
           tier == circle.Tiers[Refers!TierOf(s3[u])]
           up == Refers!Up[2][u]
           Commission(i) == (fee * tier[i + 1]) \div circle.Unit
           Paid(v) == {i \in DOMAIN up : up[i] = v /\ Commission(i) > 0}
           Share(v) == Refers!SetTotal([i \in DOMAIN up |-> Commission(i)], Paid(v))
<1>1. /\ s3' = [s3 EXCEPT ![u] = @ + fee]
      /\ s4' = [v \in U |-> s4[v] + Share(v)]
      /\ s2' = [v \in U |-> [s2[v] EXCEPT !.earned = @ + Share(v),
                                 !.referred = @ + fee * Refers!Cardinality(Paid(v))]]
      /\ s1' = s1 /\ s5' = s5
  BY DEF Refers!Distribute
<1>2. /\ Referring(U, s1) /\ Loopless(s1) /\ s3 \in [U -> Nat] /\ s4 \in [U -> Nat] /\ s5 \in [U -> Nat]
      /\ s2 \in [U -> [direct : Nat, earned : Nat, referred : Nat]]
      /\ \A v \in U : s2[v].earned = s4[v] + s5[v] /\ s2[v].direct = Cardinality(Named(s1, v))
  BY DEF RefersInv
<1>3. fee \in Nat /\ circle.Unit \in Nat \ {0}
  BY CircleAssumed
<1>4. tier \in Nat \X Nat \X Nat
  BY <1>2, TierOfIs
<1>5. up \in Seq(U) /\ Len(up) <= 2
  BY <1>2, AheadIs, RefersAhead
<1> HIDE DEF tier, up
<1>6. DOMAIN up = 1..Len(up) /\ Len(up) \in Nat /\ IsFiniteSet(DOMAIN up)
  <2>1. DOMAIN up = 1..Len(up) /\ Len(up) \in Nat
    BY <1>5
  <2>2. IsFiniteSet(1..Len(up))
    BY <2>1, FS_Interval
  <2> QED BY <2>1, <2>2
<1>7. \A i \in DOMAIN up : Commission(i) \in Nat
  <2> TAKE i \in DOMAIN up
  <2>1. i = 1 \/ i = 2
    BY <1>5, <1>6
  <2>2. tier[2] \in Nat /\ tier[3] \in Nat
    BY <1>4
  <2>3. tier[i + 1] \in Nat
    BY <2>1, <2>2
  <2>4. fee * tier[i + 1] \in Nat
    BY <1>3, <2>3, ProductNat
  <2> DEFINE m == fee * tier[i + 1]
  <2> HIDE DEF m
  <2>5. m \div circle.Unit \in Nat
    BY <1>3, <2>4, RoundedDown DEF m
  <2> QED BY <2>5 DEF m
<1> HIDE DEF Commission
<1>8. ASSUME NEW v \in U PROVE Share(v) \in Nat /\ fee * Refers!Cardinality(Paid(v)) \in Nat
  <2>1. Paid(v) \subseteq DOMAIN up
    OBVIOUS
  <2>2. IsFiniteSet(Paid(v)) /\ Cardinality(Paid(v)) \in Nat
    BY <1>6, <2>1, FS_Subset, FS_CardinalityType
  <2> DEFINE f == [i \in DOMAIN up |-> Commission(i)]
  <2>3. \A i \in Paid(v) : f[i] \in Nat
    BY <1>7, <2>1
  <2> HIDE DEF f, Paid
  <2>4. SetTotal(f, Paid(v)) \in Nat
    BY <2>2, <2>3, SetTotalDominates
  <2>5. Refers!Cardinality(Paid(v)) = Cardinality(Paid(v))
    BY CircleTotals
  <2>6. fee * Cardinality(Paid(v)) \in Nat
    BY <1>3, <2>2, ProductNat
  <2>7. Refers!SetTotal(f, Paid(v)) = SetTotal(f, Paid(v))
    BY CircleTotals
  <2> QED BY <2>4, <2>5, <2>6, <2>7 DEF f
<1> DEFINE share == [v \in U |-> Share(v)]
           told == [v \in U |-> fee * Refers!Cardinality(Paid(v))]
<1>9. /\ s2' = [v \in U |-> [s2[v] EXCEPT !.earned = @ + share[v], !.referred = @ + told[v]]]
      /\ s4' = [v \in U |-> s4[v] + share[v]]
  BY <1>1
<1>10. share \in [U -> Nat] /\ told \in [U -> Nat]
  BY <1>8
<1> HIDE DEF share, told
<1>11. ASSUME NEW v \in U
       PROVE  /\ s2'[v] \in [direct : Nat, earned : Nat, referred : Nat]
              /\ s2'[v].earned = s2[v].earned + share[v] /\ s2'[v].direct = s2[v].direct
  <2>1. s2'[v] = [s2[v] EXCEPT !.earned = @ + share[v], !.referred = @ + told[v]]
    BY <1>9
  <2>2. s2[v] \in [direct : Nat, earned : Nat, referred : Nat]
    BY <1>2
  <2>3. share[v] \in Nat /\ told[v] \in Nat
    BY <1>10
  <2> DEFINE e == s2[v]
  <2> HIDE DEF e
  <2>4. LET n == [e EXCEPT !.earned = @ + share[v], !.referred = @ + told[v]]
        IN  /\ n \in [direct : Nat, earned : Nat, referred : Nat]
            /\ n.earned = e.earned + share[v] /\ n.direct = e.direct
    BY <2>2, <2>3, StatsGrow DEF e
  <2> QED BY <2>1, <2>4 DEF e
<1>12. s2' \in [U -> [direct : Nat, earned : Nat, referred : Nat]]
  <2> DEFINE new == [v \in U |-> [s2[v] EXCEPT !.earned = @ + share[v], !.referred = @ + told[v]]]
  <2>1. s2' = new
    BY <1>9
  <2>2. \A v \in U : new[v] \in [direct : Nat, earned : Nat, referred : Nat]
    BY <1>11, <2>1
  <2>3. DOMAIN new = U /\ new = [v \in U |-> new[v]]
    OBVIOUS
  <2> DEFINE R == [direct : Nat, earned : Nat, referred : Nat]
  <2>4. \A v \in U : new[v] \in R
    BY <2>2
  <2> HIDE DEF new, R, U
  <2>5. new \in [U -> R]
    BY <2>3, <2>4
  <2> QED BY <2>1, <2>5 DEF R
<1>13. s4' \in [U -> Nat] /\ \A v \in U : s4'[v] = s4[v] + share[v]
  <2>1. s4' = [v \in U |-> s4[v] + share[v]]
    BY <1>9
  <2>2. s4 \in [U -> Nat]
    BY <1>2
  <2> QED BY <1>10, <2>1, <2>2
<1>14. s3' \in [U -> Nat]
  <2>1. s3' = [s3 EXCEPT ![u] = @ + fee]
    BY <1>1
  <2> QED BY <1>2, <1>3, <2>1
<1>15. \A v \in U : s2'[v].earned = s4'[v] + s5'[v] /\ s2'[v].direct = Cardinality(Named(s1', v))
  <2> TAKE v \in U
  <2>1. s4[v] \in Nat /\ s5[v] \in Nat /\ share[v] \in Nat
    BY <1>2, <1>10
  <2>2. s5' = s5 /\ s1' = s1
    BY <1>1
  <2>3. s2[v].earned = s4[v] + s5[v] /\ s2[v].direct = Cardinality(Named(s1, v))
    BY <1>2
  <2>4. s4'[v] = s4[v] + share[v]
    BY <1>13
  <2> QED BY <1>11, <2>1, <2>2, <2>3, <2>4
<1> QED BY <1>1, <1>2, <1>12, <1>13, <1>14, <1>15 DEF RefersInv

LEMMA WithdrawalKeeps ==
    ASSUME RefersInv, NEW u \in circle.Users, Refers!Withdraw(u)
    PROVE  RefersInv'
<1>1. /\ s4' = [s4 EXCEPT ![u] = 0] /\ s5' = [s5 EXCEPT ![u] = @ + s4[u]]
      /\ s1' = s1 /\ s2' = s2 /\ s3' = s3
  BY DEF Refers!Withdraw
<1>2. /\ s4 \in [circle.Users -> Nat] /\ s5 \in [circle.Users -> Nat]
      /\ \A v \in circle.Users : s2[v].earned = s4[v] + s5[v]
                                 /\ s2[v].direct = Cardinality(Named(s1, v))
  BY DEF RefersInv
<1>3. s4' \in [circle.Users -> Nat] /\ s5' \in [circle.Users -> Nat]
  BY <1>1, <1>2
<1>4. \A v \in circle.Users : s2'[v].earned = s4'[v] + s5'[v]
  BY <1>1, <1>2
<1>5. \A v \in circle.Users : s2'[v].direct = Cardinality(Named(s1', v))
  BY <1>1, <1>2
<1> QED BY <1>1, <1>3, <1>4, <1>5 DEF RefersInv

LEMMA RefersGoOn ==
    ASSUME RefersInv, Refers!Next
    PROVE  RefersInv'
<1>1. ASSUME NEW r \in circle.Users, NEW u \in circle.Users, Refers!RegisterReferral(r, u)
      PROVE  RefersInv'
  BY <1>1, RegisterKeeps
<1>2. ASSUME NEW u \in circle.Users, NEW fee \in circle.Fees, Refers!Distribute(u, fee)
      PROVE  RefersInv'
  BY <1>2, FeeShared
<1>3. ASSUME NEW u \in circle.Users, Refers!Withdraw(u) PROVE RefersInv'
  BY <1>3, WithdrawalKeeps
<1> QED BY <1>1, <1>2, <1>3 DEF Refers!Next

LEMMA RefersPay == RefersInv => Refers!NobodyPaysThemselves
<1> SUFFICES ASSUME RefersInv PROVE Refers!NobodyPaysThemselves
  OBVIOUS
<1>1. ASSUME NEW u \in circle.Users
      PROVE  /\ u \notin Refers!Ancestors(u, 3) /\ s2[u].earned = s4[u] + s5[u]
             /\ s2[u].direct = Refers!Cardinality({v \in DOMAIN s1 : s1[v] = u})
  <2>1. u \notin Refers!Ancestors(u, 3)
    BY LooplessAhead, RefersAhead DEF RefersInv
  <2> QED BY <2>1, CircleTotals DEF RefersInv, Named
<1> QED BY <1>1 DEF Refers!NobodyPaysThemselves

-----------------------------------------------------------------------------
(* The codes, the badges they earn and the commissions that wait.          *)

LEMMA VouchersAssumed ==
    /\ vouchers.Rates \in [1..3 -> Nat] /\ vouchers.RateUnit \in Nat \ {0}
    /\ vouchers.Fees \subseteq Nat /\ vouchers.Hold \in Nat
    /\ vouchers.Milestones \in Seq(Nat) /\ Len(vouchers.Milestones) > 0
<1>1. /\ vouchers.Rates \in [1..3 -> Nat] /\ vouchers.RateUnit \in Nat \ {0}
      /\ vouchers.Fees \subseteq Nat /\ vouchers.Hold \in Nat
      /\ vouchers.Milestones \in Seq(Nat) /\ vouchers.Milestones /= <<>>
  BY CoreAssumption DEF Codes!CodesAssumption
<1>2. ASSUME NEW q \in Seq(Nat), q /= <<>> PROVE Len(q) > 0
  BY <1>2
<1> QED BY <1>1, <1>2

LEMMA CodesTotals ==
    /\ \A f, n : Codes!Total(f, n) = Total(f, n)
    /\ \A s, T : Codes!Picked(s, T) = Picked(s, T)
    /\ \A S : Codes!Cardinality(S) = Cardinality(S)
<1>1. \A f, n : Codes!Total(f, n) = Total(f, n)
  BY DEF Codes!Total, Total, Codes!PartialSums, PartialSums
<1>2. \A s, T : Codes!Picked(s, T) = Picked(s, T)
  BY DEF Codes!Picked, Picked, Codes!PartialPicks, PartialPicks
<1>3. \A S : Codes!Cardinality(S) = Cardinality(S)
  BY DEF Codes!Cardinality, Cardinality
<1> QED BY <1>1, <1>2, <1>3

\* What waits for a user.
Waiting(U) == [to : U, amount : Nat, at : Nat]

LEMMA WorthIs ==
    ASSUME NEW U, NEW s \in Seq(Waiting(U))
    PROVE  /\ Codes!Worth(s) = Total([i \in 1..Len(s) |-> s[i].amount], Len(s))
           /\ Codes!Worth(s) \in Nat
           /\ \A i \in 1..Len(s) : s[i].amount \in Nat
<1>1. Len(s) \in Nat /\ DOMAIN s = 1..Len(s) /\ \A i \in 1..Len(s) : s[i] \in Waiting(U)
  OBVIOUS
<1>2. \A i \in 1..Len(s) : s[i].amount \in Nat
  BY <1>1 DEF Waiting
<1> DEFINE f == [i \in 1..Len(s) |-> s[i].amount]
<1>3. Codes!Worth(s) = Total(f, Len(s))
  BY <1>1, CodesTotals DEF Codes!Worth
<1>4. \A i \in 1..Len(s) : f[i] \in Nat
  BY <1>2
<1> HIDE DEF f
<1>5. Total(f, Len(s)) \in Nat
  BY <1>1, <1>4, TotalDominates
<1> QED BY <1>2, <1>3, <1>5 DEF f

LEMMA WorthOfNone == Codes!Worth(<<>>) = 0
BY CodesTotals, TotalEmpty DEF Codes!Worth

LEMMA WorthAdds ==
    ASSUME NEW U, NEW s \in Seq(Waiting(U)), NEW t \in Seq(Waiting(U))
    PROVE  s \o t \in Seq(Waiting(U)) /\ Codes!Worth(s \o t) = Codes!Worth(s) + Codes!Worth(t)
<1> DEFINE n == Len(s)
           m == Len(t)
           q == s \o t
           f == [i \in 1..n |-> s[i].amount]
           g == [i \in 1..m |-> t[i].amount]
           h == [i \in 1..n + m |-> q[i].amount]
<1>1. n \in Nat /\ m \in Nat
  OBVIOUS
<1>2. /\ q \in Seq(Waiting(U)) /\ Len(q) = n + m
      /\ \A i \in 1..n + m : q[i] = IF i <= n THEN s[i] ELSE t[i - n]
  BY ConcatProperties
<1>3. /\ Codes!Worth(s) = Total(f, n) /\ Codes!Worth(t) = Total(g, m)
      /\ \A i \in 1..n : s[i].amount \in Nat
      /\ \A i \in 1..m : t[i].amount \in Nat
  BY WorthIs
<1>4. Codes!Worth(q) = Total(h, n + m)
  <2> HIDE DEF q, n, m
  <2> QED BY <1>2, WorthIs
<1> HIDE DEF q, n, m
<1>5. \A i \in 1..n : i \in 1..n + m /\ q[i] = s[i]
  BY <1>1, <1>2
<1>6. \A i \in 1..m : n + i \in 1..n + m /\ q[n + i] = t[i]
  BY <1>1, <1>2
<1>7. \A i \in 1..n : f[i] \in Int /\ h[i] = f[i]
  BY <1>3, <1>5
<1>8. \A i \in 1..m : g[i] \in Int /\ h[n + i] = g[i]
  BY <1>3, <1>6
<1> HIDE DEF f, g, h
<1>9. Total(h, n + m) = Total(f, n) + Total(g, m)
  <2>1. Follows(h, f, n, g, m)
    BY ONLY <1>7, <1>8 DEF Follows
  <2> QED BY ONLY <1>1, <2>1, TotalConcat
<1> QED BY <1>2, <1>3, <1>4, <1>9 DEF q

\* What is picked and what is left are worth what there was.
LEMMA WorthSplits ==
    ASSUME NEW U, NEW s \in Seq(Waiting(U)), NEW T, T \subseteq DOMAIN s
    PROVE  /\ Picked(s, T) \in Seq(Waiting(U)) /\ Picked(s, DOMAIN s \ T) \in Seq(Waiting(U))
           /\ Codes!Worth(s) = Codes!Worth(Picked(s, T)) + Codes!Worth(Picked(s, DOMAIN s \ T))
<1> DEFINE R == Waiting(U)
           N == Len(s)
           f == [x \in R |-> x.amount]
           At(X) == [i \in 1..N |-> IF i \in X THEN f[s[i]] ELSE 0]
           p == Picked(s, T)
           q == Picked(s, DOMAIN s \ T)
<1>1. N \in Nat /\ DOMAIN s = 1..N /\ \A i \in 1..N : s[i] \in R
  OBVIOUS
<1>2. f \in [R -> Int]
  BY DEF Waiting
<1>3. ASSUME NEW t \in Seq(R)
      PROVE  Codes!Worth(t) = Total([k \in 1..Len(t) |-> f[t[k]]], Len(t))
  <2>1. [k \in 1..Len(t) |-> f[t[k]]] = [k \in 1..Len(t) |-> t[k].amount]
    OBVIOUS
  <2> QED BY <2>1, WorthIs
<1>0. s \in Seq(R) /\ T \subseteq 1..N /\ DOMAIN s \ T \subseteq 1..N
  BY <1>1
<1> HIDE DEF R, f
<1>4. p \in Seq(R) /\ q \in Seq(R)
  BY <1>1, PickedIs DEF R
<1>5. Codes!Worth(p) = Total(At(T), N) /\ Codes!Worth(q) = Total(At(DOMAIN s \ T), N)
  <2> DEFINE a == At(T)
             b == At(DOMAIN s \ T)
             g == [k \in 1..Len(p) |-> f[p[k]]]
             h == [k \in 1..Len(q) |-> f[q[k]]]
  <2>3. s \in Seq(R) /\ f \in [R -> Int]
    BY <1>0, <1>2
  <2>1. /\ \A k \in 1..Len(p) : g[k] = f[p[k]]
        /\ \A k \in 1..Len(q) : h[k] = f[q[k]]
        /\ \A i \in 1..Len(s) : a[i] = IF i \in T THEN f[s[i]] ELSE 0
        /\ \A i \in 1..Len(s) : b[i] = IF i \in DOMAIN s \ T THEN f[s[i]] ELSE 0
    OBVIOUS
  <2> HIDE DEF a, b, g, h
  <2>5. PickedValues(R, s, T, f, g, a) /\ PickedValues(R, s, DOMAIN s \ T, f, h, b)
    BY <2>1, <2>3 DEF PickedValues
  <2>4. Total(g, Len(p)) = Total(a, N) /\ Total(h, Len(q)) = Total(b, N)
    BY <2>5, PickedTotal
  <2>2. /\ Total([k \in 1..Len(p) |-> f[p[k]]], Len(p)) = Total(At(T), N)
        /\ Total([k \in 1..Len(q) |-> f[q[k]]], Len(q)) = Total(At(DOMAIN s \ T), N)
    BY <2>4 DEF a, b, g, h
  <2> HIDE DEF p, q
  <2> QED BY <1>3, <1>4, <2>2
<1>6. Codes!Worth(s) = Total([k \in 1..N |-> f[s[k]]], N)
  BY <1>0, <1>3
<1> DEFINE a == At(T)
           b == At(DOMAIN s \ T)
           c == [k \in 1..N |-> f[s[k]]]
<1>7. \A i \in 1..N : a[i] \in Int /\ b[i] \in Int /\ c[i] = a[i] + 1 * b[i]
  BY <1>1, <1>2
<1> HIDE DEF a, b, c, N
<1>8. Total(c, N) = Total(a, N) + 1 * Total(b, N)
  BY <1>1, <1>7, TotalPlus
<1>9. Total(b, N) \in Int /\ Total(a, N) \in Int
  BY <1>1, <1>7, TotalInt
<1>10. Codes!Worth(s) = Codes!Worth(p) + Codes!Worth(q)
  BY <1>5, <1>6, <1>8, <1>9 DEF a, b, c
<1> QED BY <1>4, <1>10 DEF R

\* An entry of the registry of codes.
CodeEntry(U) ==
    [coded : BOOLEAN, referrer : Seq(U), earned : Nat, available : Int, direct : Nat,
     badges : Seq(Nat \X Nat)]

\* Whoever has a referrer has one with a code, and whoever has a code has no referrer.
OneStepUp(I, U) ==
    \A u \in DOMAIN I :
        /\ Len(I[u].referrer) <= 1 /\ (I[u].coded => I[u].referrer = <<>>)
        /\ I[u].referrer # <<>> => /\ I[u].referrer[1] \in DOMAIN I
                                   /\ I[I[u].referrer[1]].coded

\* The badges: their tokens were given out, each once, and their milestones differ.
BadgesSound(B, token) ==
    /\ \A u \in DOMAIN B : /\ B[u] \in Seq(Nat \X Nat)
                           /\ \A i \in 1..Len(B[u]) : B[u][i][2] < token
                           /\ \A i, j \in 1..Len(B[u]) : B[u][i][1] = B[u][j][1] => i = j
    /\ \A u, v \in DOMAIN B : \A i \in 1..Len(B[u]), j \in 1..Len(B[v]) :
          B[u][i][2] = B[v][j][2] => u = v /\ i = j

BadgesOf(I) == [u \in DOMAIN I |-> I[u].badges]

\* The inductive invariant of the codes.
CodesTyped ==
    /\ DOMAIN s1 \subseteq vouchers.Users
    /\ \A u \in DOMAIN s1 : s1[u] \in CodeEntry(vouchers.Users)
    /\ s2 \in [vouchers.Users -> Seq(Waiting(vouchers.Users))]
    /\ s4 \in Nat \ {0} /\ s6 \in [vouchers.Users -> Nat] /\ s7 \in Nat

CodesInv ==
    /\ CodesTyped /\ OneStepUp(s1, vouchers.Users) /\ BadgesSound(BadgesOf(s1), s4)
    /\ \A u \in DOMAIN s1 : s6[u] = s1[u].earned + Codes!Worth(s2[u])
    /\ \A u \in vouchers.Users \ DOMAIN s1 : s2[u] = <<>> /\ s6[u] = 0

LEMMA EntryFields ==
    ASSUME NEW U, NEW e \in CodeEntry(U)
    PROVE  /\ e.coded \in BOOLEAN /\ e.referrer \in Seq(U) /\ e.earned \in Nat
           /\ e.available \in Int /\ e.direct \in Nat /\ e.badges \in Seq(Nat \X Nat)
BY DEF CodeEntry

\* The chain of a trader is the referrer, if there is one.
IsChain(g, U, I) ==
    g = [d \in 0..3 |-> [u \in U |-> IF d = 0 \/ u \notin DOMAIN I \/ I[u].referrer = <<>> THEN <<>>
                                     ELSE I[u].referrer \o g[d - 1][I[u].referrer[1]]]]
ChainOf(U, I) == CHOOSE g : IsChain(g, U, I)

LEMMA ChainUnfolds ==
    ASSUME NEW U, NEW I, \A u \in DOMAIN I : I[u].referrer \in Seq(U)
    PROVE  \A d \in 0..3 : \A u \in U :
              ChainOf(U, I)[d][u] = IF d = 0 \/ u \notin DOMAIN I \/ I[u].referrer = <<>> THEN <<>>
                                    ELSE I[u].referrer \o ChainOf(U, I)[d - 1][I[u].referrer[1]]
<1> DEFINE F == [U -> Seq(U)]
           Higher(d, f) == [u \in U |-> IF d = 0 \/ u \notin DOMAIN I \/ I[u].referrer = <<>> THEN <<>>
                                        ELSE I[u].referrer \o f[I[u].referrer[1]]]
           a == [u \in U |-> <<>>]
           h == [x \in Nat \X F |-> Higher(x[1], x[2])]
<1>1. \A d \in Nat, f \in F : Higher(d, f) \in F
  <2> TAKE d \in Nat, f \in F
  <2>1. \A u \in U : Higher(d, f)[u] \in Seq(U)
    <3> TAKE u \in U
    <3>1. CASE d = 0 \/ u \notin DOMAIN I \/ I[u].referrer = <<>>
      BY <3>1
    <3>2. CASE ~(d = 0 \/ u \notin DOMAIN I \/ I[u].referrer = <<>>)
      <4> DEFINE q == I[u].referrer
      <4>1. q \in Seq(U) /\ q # <<>>
        BY <3>2
      <4> HIDE DEF q
      <4>2. q[1] \in U
        BY <4>1
      <4>3. f[q[1]] \in Seq(U)
        BY <4>2
      <4>4. q \o f[q[1]] \in Seq(U)
        BY <4>1, <4>3, ConcatProperties
      <4>5. Higher(d, f)[u] = q \o f[q[1]]
        BY <3>2 DEF q
      <4> QED BY <4>4, <4>5
    <3> QED BY <3>1, <3>2
  <2> QED BY <2>1
<1>2. a \in F
  OBVIOUS
<1> HIDE DEF Higher, F
<1>3. h \in [Nat \X F -> F] /\ \A d \in Nat, f \in F : h[<<d, f>>] = Higher(d, f)
  BY <1>1
<1> HIDE DEF h, a
<1>4. PICK g : Recursion(g, F, a, h, 3)
  BY <1>2, <1>3, RecursionExists
<1>5. g \in [0..3 -> F] /\ g[0] = a /\ \A d \in 1..3 : g[d] = Higher(d, g[d - 1])
  <2>1. g \in [0..3 -> F] /\ g[0] = a /\ \A d \in 1..3 : g[d] = h[<<d, g[d - 1]>>]
    BY <1>4 DEF Recursion
  <2>2. \A d \in 1..3 : d \in Nat /\ g[d - 1] \in F
    BY <2>1
  <2> QED BY <1>3, <2>1, <2>2
<1>6. \A d \in 0..3 : g[d] = Higher(d, g[d - 1])
  <2> TAKE d \in 0..3
  <2>1. CASE d = 0
    <3>1. a = Higher(0, g[0 - 1])
      BY DEF a, Higher
    <3> QED BY <1>5, <2>1, <3>1
  <2>2. CASE d # 0
    BY <1>5, <2>2
  <2> QED BY <2>1, <2>2
<1>7. g = [d \in 0..3 |-> Higher(d, g[d - 1])]
  BY <1>5, <1>6
<1>8. IsChain(g, U, I)
  BY <1>7 DEF IsChain, Higher
<1>9. IsChain(ChainOf(U, I), U, I)
  BY <1>8 DEF ChainOf
<1> DEFINE v == ChainOf(U, I)
<1> HIDE DEF v
<1>10. v = [d \in 0..3 |-> [u \in U |-> IF d = 0 \/ u \notin DOMAIN I \/ I[u].referrer = <<>> THEN <<>>
                                       ELSE I[u].referrer \o v[d - 1][I[u].referrer[1]]]]
  BY <1>9 DEF IsChain, v
<1>11. ASSUME NEW d \in 0..3, NEW u \in U
       PROVE  v[d][u] = IF d = 0 \/ u \notin DOMAIN I \/ I[u].referrer = <<>> THEN <<>>
                        ELSE I[u].referrer \o v[d - 1][I[u].referrer[1]]
  <2>1. v[d] = [w \in U |-> IF d = 0 \/ w \notin DOMAIN I \/ I[w].referrer = <<>> THEN <<>>
                            ELSE I[w].referrer \o v[d - 1][I[w].referrer[1]]]
    BY <1>10, <1>11, Zenon
  <2> QED BY <2>1, Zenon
<1> QED BY <1>11 DEF v

LEMMA ChainIs ==
    ASSUME CodesInv, NEW u \in vouchers.Users
    PROVE  Codes!Chain[3][u] = IF u \in DOMAIN s1 THEN s1[u].referrer ELSE <<>>
<1> DEFINE U == vouchers.Users
           C == ChainOf(U, s1)
<1>1. Codes!Chain = C
  BY DEF Codes!Chain, ChainOf, IsChain, Codes!Nobody
<1>2. /\ DOMAIN s1 \subseteq U /\ OneStepUp(s1, U)
      /\ \A v \in DOMAIN s1 : s1[v].referrer \in Seq(U)
  BY EntryFields DEF CodesInv, CodesTyped
<1>3. \A d \in 0..3 : \A v \in U :
         C[d][v] = IF d = 0 \/ v \notin DOMAIN s1 \/ s1[v].referrer = <<>> THEN <<>>
                   ELSE s1[v].referrer \o C[d - 1][s1[v].referrer[1]]
  BY <1>2, ChainUnfolds
<1> HIDE DEF C
<1>4. 3 \in 0..3 /\ 2 \in 0..3 /\ 3 - 1 = 2 /\ 3 # 0
  OBVIOUS
<1>5. CASE u \notin DOMAIN s1 \/ s1[u].referrer = <<>>
  <2>1. C[3][u] = <<>>
    BY <1>3, <1>4, <1>5
  <2> QED BY <1>1, <1>5, <2>1
<1>6. CASE u \in DOMAIN s1 /\ s1[u].referrer # <<>>
  <2> DEFINE q == s1[u].referrer
             r == q[1]
  <2>1. r \in DOMAIN s1 /\ s1[r].referrer = <<>> /\ r \in U
    BY <1>2, <1>6 DEF OneStepUp
  <2>2. C[3][u] = q \o C[2][r]
    BY <1>3, <1>4, <1>6
  <2>3. C[2][r] = <<>>
    BY <1>3, <1>4, <2>1
  <2>4. q \in Seq(U)
    BY <1>2, <1>6
  <2> HIDE DEF q
  <2>5. q \o <<>> = q
    BY <2>4
  <2> QED BY <1>1, <1>6, <2>2, <2>3, <2>5 DEF q
<1> QED BY <1>5, <1>6

LEMMA FirstBadge ==
    ASSUME NEW B, NEW t \in Nat, BadgesSound(B, t), NEW u, u \notin DOMAIN B, NEW C, NEW k \in Nat,
           DOMAIN C = DOMAIN B \cup {u}, C[u] = << <<k, t>> >>, \A v \in DOMAIN B : C[v] = B[v]
    PROVE  BadgesSound(C, t + 1)
<1> DEFINE one == <<k, t>>
<1>1. C[u] \in Seq(Nat \X Nat) /\ Len(C[u]) = 1 /\ C[u][1][2] = t
  <2>1. one \in Nat \X Nat /\ one[2] = t
    OBVIOUS
  <2>2. C[u] = <<one>>
    OBVIOUS
  <2> HIDE DEF one
  <2> QED BY <2>1, <2>2
<1>2. ASSUME NEW v \in DOMAIN B
      PROVE  /\ C[v] = B[v] /\ B[v] \in Seq(Nat \X Nat) /\ v # u
             /\ \A i \in 1..Len(B[v]) : B[v][i][2] < t /\ B[v][i][2] \in Nat
  <2>1. B[v] \in Seq(Nat \X Nat) /\ \A i \in 1..Len(B[v]) : B[v][i][2] < t
    BY DEF BadgesSound
  <2>2. \A i \in 1..Len(B[v]) : B[v][i] \in Nat \X Nat
    BY <2>1
  <2>3. \A x \in Nat \X Nat : x[2] \in Nat
    OBVIOUS
  <2> QED BY <2>1, <2>2, <2>3
<1>3. ASSUME NEW v \in DOMAIN C
      PROVE  /\ C[v] \in Seq(Nat \X Nat) /\ \A i \in 1..Len(C[v]) : C[v][i][2] < t + 1
             /\ \A i, j \in 1..Len(C[v]) : C[v][i][1] = C[v][j][1] => i = j
  <2>1. CASE v = u
    <3>1. \A i \in 1..Len(C[v]) : i = 1
      BY <1>1, <2>1
    <3> QED BY <1>1, <2>1, <3>1
  <2>2. CASE v \in DOMAIN B
    <3>1. \A i \in 1..Len(B[v]) : B[v][i][2] < t + 1
      BY <1>2, <2>2
    <3> QED BY <1>2, <2>2, <3>1 DEF BadgesSound
  <2> QED BY <2>1, <2>2
<1>4. ASSUME NEW v \in DOMAIN C, NEW w \in DOMAIN C, NEW i \in 1..Len(C[v]), NEW j \in 1..Len(C[w]),
             C[v][i][2] = C[w][j][2]
      PROVE  v = w /\ i = j
  <2>1. CASE v = u /\ w = u
    <3>1. i = 1 /\ j = 1
      BY <1>1, <2>1
    <3> QED BY <2>1, <3>1
  <2>2. CASE v = u /\ w \in DOMAIN B
    <3>1. C[v][i][2] = t /\ C[w][j][2] < t /\ C[w][j][2] \in Nat
      BY <1>1, <1>2, <2>2
    <3> QED BY <1>4, <3>1
  <2>3. CASE v \in DOMAIN B /\ w = u
    <3>1. C[w][j][2] = t /\ C[v][i][2] < t /\ C[v][i][2] \in Nat
      BY <1>1, <1>2, <2>3
    <3> QED BY <1>4, <3>1
  <2>4. CASE v \in DOMAIN B /\ w \in DOMAIN B
    <3>1. C[v] = B[v] /\ C[w] = B[w]
      BY <1>2, <2>4
    <3>2. i \in 1..Len(B[v]) /\ j \in 1..Len(B[w]) /\ B[v][i][2] = B[w][j][2]
      BY <1>4, <3>1
    <3> QED BY <2>4, <3>2 DEF BadgesSound
  <2> QED BY <2>1, <2>2, <2>3, <2>4
<1> QED BY <1>3, <1>4 DEF BadgesSound

\* Further badges, for milestones that were not had.
FurtherBadges(B, r, s, t) ==
    /\ s \in Seq(Nat \X Nat) /\ \A i \in 1..Len(s) : s[i][2] = t + i - 1
    /\ \A i, j \in 1..Len(s) : s[i][1] = s[j][1] => i = j
    /\ \A i \in 1..Len(s), j \in 1..Len(B[r]) : B[r][j][1] # s[i][1]

LEMMA MoreBadges ==
    ASSUME NEW B, NEW t \in Nat, BadgesSound(B, t), NEW r \in DOMAIN B, NEW s,
           FurtherBadges(B, r, s, t), NEW C, DOMAIN C = DOMAIN B, C[r] = B[r] \o s,
           \A v \in DOMAIN B : v # r => C[v] = B[v]
    PROVE  BadgesSound(C, t + Len(s))
<1> DEFINE n == Len(B[r])
           m == Len(s)
           b == B[r]
           c == C[r]
<1>1. /\ s \in Seq(Nat \X Nat) /\ m \in Nat /\ \A i \in 1..m : s[i][2] = t + i - 1
      /\ \A i, j \in 1..m : s[i][1] = s[j][1] => i = j
      /\ \A i \in 1..m, j \in 1..n : b[j][1] # s[i][1]
  BY DEF FurtherBadges
<1>2. \A v \in DOMAIN B :
         /\ B[v] \in Seq(Nat \X Nat) /\ \A i \in 1..Len(B[v]) : B[v][i][2] < t
         /\ \A i, j \in 1..Len(B[v]) : B[v][i][1] = B[v][j][1] => i = j
  BY DEF BadgesSound
<1>3. \A v \in DOMAIN B : \A i \in 1..Len(B[v]) : B[v][i][2] \in Nat
  <2>1. ASSUME NEW q \in Seq(Nat \X Nat), NEW i \in 1..Len(q) PROVE q[i][2] \in Nat
    <3>1. q[i] \in Nat \X Nat
      OBVIOUS
    <3> QED BY <3>1
  <2> QED BY <1>2, <2>1
<1>4. b \in Seq(Nat \X Nat) /\ n \in Nat
  BY <1>2
<1> HIDE DEF n, m, b, c
<1>5. /\ c \in Seq(Nat \X Nat) /\ Len(c) = n + m
      /\ \A i \in 1..n + m : c[i] = IF i <= n THEN b[i] ELSE s[i - n]
  BY <1>1, <1>4, ConcatProperties DEF c, b, n, m
<1>0. n \in Nat /\ m \in Nat
  BY <1>1, <1>4
<1>6. \A i \in 1..n + m : \/ i \in 1..n /\ c[i] = b[i]
                          \/ i - n \in 1..m /\ c[i] = s[i - n]
  <2> TAKE i \in 1..n + m
  <2>1. c[i] = IF i <= n THEN b[i] ELSE s[i - n]
    BY <1>5
  <2>2. i \in Nat /\ i >= 1 /\ i <= n + m
    BY <1>0
  <2> QED BY <1>0, <2>1, <2>2
<1>12. \A v, w \in DOMAIN B : \A i \in 1..Len(B[v]), j \in 1..Len(B[w]) :
          B[v][i][2] = B[w][j][2] => v = w /\ i = j
  BY DEF BadgesSound
<1>13. \A w \in DOMAIN B : \A i \in 1..n, j \in 1..Len(B[w]) : b[i][2] = B[w][j][2] => w = r /\ i = j
  BY <1>12 DEF b, n
<1>14. \A i, j \in 1..n : b[i][2] = b[j][2] => i = j
  BY <1>13 DEF b, n
<1>7. ASSUME NEW i \in 1..n + m
      PROVE  c[i][2] \in Nat /\ c[i][2] < t + m /\ (c[i][2] < t <=> i \in 1..n)
  <2>1. CASE i \in 1..n /\ c[i] = b[i]
    <3>1. b[i][2] \in Nat /\ b[i][2] < t
      BY <1>2, <1>3, <2>1 DEF b, n
    <3> QED BY <1>1, <2>1, <3>1
  <2>2. CASE i - n \in 1..m /\ c[i] = s[i - n]
    <3>1. c[i][2] = t + (i - n) - 1
      BY <1>1, <2>2
    <3>2. i \notin 1..n
      BY <1>4, <2>2
    <3> QED BY <1>1, <1>4, <2>2, <3>1, <3>2
  <2> QED BY <1>6, <2>1, <2>2
<1>8. ASSUME NEW i \in 1..n + m, NEW j \in 1..n + m, c[i][1] = c[j][1] PROVE i = j
  <2>1. CASE i \in 1..n /\ j \in 1..n /\ c[i] = b[i] /\ c[j] = b[j]
    BY <1>2, <1>8, <2>1 DEF b, n
  <2>2. CASE i \in 1..n /\ j - n \in 1..m /\ c[i] = b[i] /\ c[j] = s[j - n]
    BY <1>1, <1>8, <2>2
  <2>3. CASE i - n \in 1..m /\ j \in 1..n /\ c[i] = s[i - n] /\ c[j] = b[j]
    BY <1>1, <1>8, <2>3
  <2>4. CASE i - n \in 1..m /\ j - n \in 1..m /\ c[i] = s[i - n] /\ c[j] = s[j - n]
    <3>1. i - n = j - n
      BY <1>1, <1>8, <2>4
    <3> QED BY <1>4, <3>1
  <2> QED BY <1>6, <2>1, <2>2, <2>3, <2>4
<1>9. ASSUME NEW i \in 1..n + m, NEW j \in 1..n + m, c[i][2] = c[j][2] PROVE i = j
  <2>1. CASE i \in 1..n /\ j \in 1..n /\ c[i] = b[i] /\ c[j] = b[j]
    BY <1>9, <1>14, <2>1
  <2>2. CASE i - n \in 1..m /\ j - n \in 1..m /\ c[i] = s[i - n] /\ c[j] = s[j - n]
    <3>1. c[i][2] = t + (i - n) - 1 /\ c[j][2] = t + (j - n) - 1
      BY <1>1, <2>2
    <3>2. i \in Nat /\ j \in Nat
      BY <1>0
    <3>3. t + (i - n) - 1 = t + (j - n) - 1
      BY <1>9, <3>1
    <3> QED BY <1>0, <3>2, <3>3
  <2>3. i \in 1..n <=> j \in 1..n
    BY <1>7, <1>9
  <2>4. i - n \in 1..m => i \notin 1..n
    BY <1>4
  <2>5. j - n \in 1..m => j \notin 1..n
    BY <1>4
  <2> QED BY <1>6, <2>1, <2>2, <2>3, <2>4, <2>5
<1>10. ASSUME NEW v \in DOMAIN C
       PROVE  /\ C[v] \in Seq(Nat \X Nat) /\ \A i \in 1..Len(C[v]) : C[v][i][2] < t + m
              /\ \A i, j \in 1..Len(C[v]) : C[v][i][1] = C[v][j][1] => i = j
  <2>1. CASE v = r
    BY <1>5, <1>7, <1>8, <2>1 DEF c
  <2>2. CASE v # r
    <3>1. \A i \in 1..Len(B[v]) : B[v][i][2] < t + m
      BY <1>1, <1>2, <1>3
    <3> QED BY <1>2, <2>2, <3>1
  <2> QED BY <2>1, <2>2
<1>11. ASSUME NEW v \in DOMAIN C, NEW w \in DOMAIN C, NEW i \in 1..Len(C[v]), NEW j \in 1..Len(C[w]),
              C[v][i][2] = C[w][j][2]
       PROVE  v = w /\ i = j
  <2>1. CASE v = r /\ w = r
    BY <1>5, <1>9, <1>11, <2>1 DEF c
  <2>2. CASE v = r /\ w # r
    <3>1. C[w] = B[w] /\ B[w][j][2] < t /\ i \in 1..n + m /\ c[i][2] = B[w][j][2]
      BY <1>2, <1>5, <1>11, <2>2 DEF c
    <3>2. i \in 1..n /\ c[i] = b[i]
      <4>1. i \in 1..n + m /\ c[i][2] < t
        BY ONLY <3>1
      <4>2. i \in 1..n
        BY ONLY <1>7, <4>1
      <4>3. i <= n /\ c[i] = IF i <= n THEN b[i] ELSE s[i - n]
        BY ONLY <1>0, <1>5, <4>1, <4>2
      <4> QED BY ONLY <4>2, <4>3
    <3>3. w \in DOMAIN B /\ j \in 1..Len(B[w]) /\ b[i][2] = B[w][j][2]
      BY <3>1, <3>2
    <3> QED BY <1>13, <2>2, <3>2, <3>3
  <2>3. CASE v # r /\ w = r
    <3>1. C[v] = B[v] /\ B[v][i][2] < t /\ j \in 1..n + m /\ c[j][2] = B[v][i][2]
      BY <1>2, <1>5, <1>11, <2>3 DEF c
    <3>2. j \in 1..n /\ c[j] = b[j]
      <4>1. j \in 1..n + m /\ c[j][2] < t
        BY ONLY <3>1
      <4>2. j \in 1..n
        BY ONLY <1>7, <4>1
      <4>3. j <= n /\ c[j] = IF j <= n THEN b[j] ELSE s[j - n]
        BY ONLY <1>0, <1>5, <4>1, <4>2
      <4> QED BY ONLY <4>2, <4>3
    <3>3. v \in DOMAIN B /\ i \in 1..Len(B[v]) /\ b[j][2] = B[v][i][2]
      BY <3>1, <3>2
    <3> QED BY <1>13, <2>3, <3>2, <3>3
  <2>4. CASE v # r /\ w # r
    BY <1>11, <1>12, <2>4
  <2> QED BY <2>1, <2>2, <2>3, <2>4
<1> QED BY <1>10, <1>11 DEF BadgesSound, m

LEMMA CodesBegin == InCodes => CodesInv
<1> SUFFICES ASSUME InCodes PROVE CodesInv
  OBVIOUS
<1>1. /\ s1 = <<>> /\ s2 = [u \in vouchers.Users |-> <<>>] /\ s4 = 1
      /\ s6 = [u \in vouchers.Users |-> 0] /\ s7 = 0
  BY DEF InCodes, Codes!Init
<1>2. DOMAIN s1 = {}
  BY <1>1
<1>3. <<>> \in Seq(Waiting(vouchers.Users))
  OBVIOUS
<1>4. CodesTyped
  BY <1>1, <1>2, <1>3 DEF CodesTyped
<1>5. OneStepUp(s1, vouchers.Users)
  BY <1>2 DEF OneStepUp
<1>6. BadgesSound(BadgesOf(s1), s4)
  <2>1. DOMAIN BadgesOf(s1) = {}
    BY <1>2 DEF BadgesOf
  <2> QED BY <2>1 DEF BadgesSound
<1>7. \A u \in vouchers.Users : s2[u] = <<>> /\ s6[u] = 0
  BY <1>1
<1> QED BY <1>2, <1>4, <1>5, <1>6, <1>7 DEF CodesInv

LEMMA CodeKeeps ==
    ASSUME CodesInv, NEW u \in vouchers.Users, Codes!GenerateCode(u)
    PROVE  CodesInv'
<1> DEFINE U == vouchers.Users
           one == <<1, s4>>
           e == Codes!NewInfo(TRUE, <<>>, <<one>>)
<1>1. /\ u \notin DOMAIN s1 /\ s1' = Codes!WithInfo(u, e) /\ s4' = s4 + 1
      /\ s2' = s2 /\ s6' = s6 /\ s7' = s7
  BY DEF Codes!GenerateCode, Codes!Nobody
<1>2. CodesTyped /\ OneStepUp(s1, U) /\ BadgesSound(BadgesOf(s1), s4)
  BY DEF CodesInv
<1>3. s4 \in Nat \ {0}
  BY <1>2 DEF CodesTyped
<1>4. <<one>> \in Seq(Nat \X Nat)
  <2>1. one \in Nat \X Nat
    BY <1>3
  <2> HIDE DEF one
  <2> QED BY <2>1
<1>5. /\ e \in CodeEntry(U) /\ e.coded = TRUE /\ e.referrer = <<>> /\ e.badges = <<one>> /\ e.earned = 0
  <2> DEFINE who == <<>>
             badges == <<one>>
  <2>1. who \in Seq(U) /\ badges \in Seq(Nat \X Nat) /\ TRUE \in BOOLEAN
    BY <1>4
  <2>2. e = Codes!NewInfo(TRUE, who, badges)
    OBVIOUS
  <2> HIDE DEF e, who, badges
  <2>3. /\ e \in CodeEntry(U) /\ e.coded = TRUE /\ e.referrer = who
        /\ e.badges = badges /\ e.earned = 0
    BY <2>1, <2>2 DEF Codes!NewInfo, CodeEntry
  <2> QED BY <2>3 DEF who, badges
<1> HIDE DEF e
<1>6. /\ DOMAIN s1' = DOMAIN s1 \cup {u} /\ s1'[u] = e
      /\ \A v \in DOMAIN s1 : s1'[v] = s1[v] /\ v # u
  <2>1. s1' = Codes!WithInfo(u, e) /\ u \notin DOMAIN s1
    BY <1>1
  <2>2. s1' = [v \in DOMAIN s1 \cup {u} |-> IF v = u THEN e ELSE s1[v]]
    BY <2>1 DEF Codes!WithInfo
  <2> QED BY <2>1, <2>2
<1>7. CodesTyped'
  BY <1>1, <1>2, <1>3, <1>5, <1>6 DEF CodesTyped
<1>8. OneStepUp(s1', U)
  <2>1. ASSUME NEW v \in DOMAIN s1'
        PROVE  /\ Len(s1'[v].referrer) <= 1 /\ (s1'[v].coded => s1'[v].referrer = <<>>)
               /\ s1'[v].referrer # <<>> => /\ s1'[v].referrer[1] \in DOMAIN s1'
                                            /\ s1'[s1'[v].referrer[1]].coded
    <3>1. CASE v = u
      <4>1. Len(<<>>) <= 1
        OBVIOUS
      <4> QED BY <1>5, <1>6, <3>1, <4>1
    <3>2. CASE v \in DOMAIN s1
      <4>1. s1'[v] = s1[v]
        BY <1>6, <3>2
      <4>2. /\ Len(s1[v].referrer) <= 1 /\ (s1[v].coded => s1[v].referrer = <<>>)
            /\ s1[v].referrer # <<>> => /\ s1[v].referrer[1] \in DOMAIN s1
                                        /\ s1[s1[v].referrer[1]].coded
        BY <1>2, <3>2 DEF OneStepUp
      <4> QED BY <1>6, <4>1, <4>2
    <3> QED BY <1>6, <3>1, <3>2
  <2> QED BY <2>1 DEF OneStepUp
<1>9. BadgesSound(BadgesOf(s1'), s4')
  <2> DEFINE B == BadgesOf(s1)
             C == BadgesOf(s1')
  <2>1. /\ DOMAIN B = DOMAIN s1 /\ DOMAIN C = DOMAIN B \cup {u} /\ u \notin DOMAIN B
        /\ C[u] = << <<1, s4>> >> /\ \A v \in DOMAIN B : C[v] = B[v]
    BY <1>1, <1>5, <1>6 DEF BadgesOf
  <2>2. BadgesSound(B, s4) /\ 1 \in Nat /\ s4 \in Nat
    BY <1>2, <1>3
  <2> HIDE DEF B, C
  <2>3. BadgesSound(C, s4 + 1)
    BY <2>1, <2>2, FirstBadge
  <2> QED BY <1>1, <2>3 DEF C
<1>10. ASSUME NEW v \in DOMAIN s1' PROVE s6'[v] = s1'[v].earned + Codes!Worth(s2'[v])
  <2>1. CASE v = u
    <3>1. s2[u] = <<>> /\ s6[u] = 0
      BY <1>1 DEF CodesInv
    <3> QED BY <1>1, <1>5, <1>6, <2>1, <3>1, WorthOfNone
  <2>2. CASE v \in DOMAIN s1
    BY <1>1, <1>6, <2>2 DEF CodesInv
  <2> QED BY <1>6, <2>1, <2>2
<1>11. ASSUME NEW v \in U \ DOMAIN s1' PROVE s2'[v] = <<>> /\ s6'[v] = 0
  BY <1>1, <1>6, <1>11 DEF CodesInv
<1> QED BY <1>7, <1>8, <1>9, <1>10, <1>11 DEF CodesInv

\* The badges that are due: for milestones that were not had, each once.
LEMMA DueBadges ==
    ASSUME NEW e, e.badges \in Seq(Nat \X Nat), NEW t \in Nat
    PROVE  LET due == Picked([m \in DOMAIN vouchers.Milestones |-> m], Codes!Due(e))
               s == [i \in DOMAIN due |-> <<due[i], t + i - 1>>]
           IN  /\ s \in Seq(Nat \X Nat) /\ Len(s) = Len(due) /\ Len(due) \in Nat
               /\ \A i \in 1..Len(s) : s[i][2] = t + i - 1
               /\ \A i, j \in 1..Len(s) : s[i][1] = s[j][1] => i = j
               /\ \A i \in 1..Len(s), j \in 1..Len(e.badges) : e.badges[j][1] # s[i][1]
<1> DEFINE M == vouchers.Milestones
           n == Len(M)
           id == [m \in DOMAIN M |-> m]
           T == Codes!Due(e)
           due == Picked(id, T)
           s == [i \in DOMAIN due |-> <<due[i], t + i - 1>>]
<1>1. n \in Nat /\ DOMAIN M = 1..n
  BY VouchersAssumed
<1>2. T \subseteq 1..n /\ \A m \in T : \A j \in DOMAIN e.badges : e.badges[j][1] # m
  BY <1>1 DEF Codes!Due
<1> HIDE DEF M, n, T
<1>3. id \in [1..n -> 1..n] /\ \A m \in 1..n : id[m] = m
  BY <1>1
<1> HIDE DEF id
<1>4. id \in Seq(1..n) /\ Len(id) = n
  BY <1>1, <1>3, FunctionIsSequence
<1>5. due \in Seq(1..n) /\ \E p : Places(due, p, id, T, Len(id))
  BY <1>2, <1>4, PickedIs
<1> HIDE DEF due
<1>6. PICK p : Places(due, p, id, T, n)
  BY <1>4, <1>5
<1> DEFINE k == Len(due)
<1>7. /\ k \in Nat /\ DOMAIN due = 1..k
      /\ \A i \in 1..k : p[i] \in T /\ p[i] \in 1..n /\ due[i] = id[p[i]]
      /\ \A i, j \in 1..k : i < j => p[i] < p[j]
  <2>1. k \in Nat /\ DOMAIN due = 1..k
    BY <1>5
  <2>2. /\ p \in [1..k -> {i \in T : i \in 1..n}] /\ \A i \in 1..k : due[i] = id[p[i]]
        /\ \A i, j \in 1..k : i < j => p[i] < p[j]
    BY <1>6 DEF Places
  <2>3. \A i \in 1..k : p[i] \in {q \in T : q \in 1..n}
    BY <2>2
  <2> HIDE DEF k
  <2> QED BY <2>1, <2>2, <2>3
<1> HIDE DEF k
<1>8. \A i \in 1..k : due[i] = p[i] /\ due[i] \in T /\ due[i] \in Nat
  BY <1>1, <1>3, <1>7
<1>9. \A i, j \in 1..k : due[i] = due[j] => i = j
  <2> TAKE i, j \in 1..k
  <2>1. i \in Nat /\ j \in Nat /\ p[i] \in Nat /\ p[j] \in Nat
    BY <1>7, <1>8
  <2>2. i < j => p[i] < p[j]
    BY <1>7
  <2>3. j < i => p[j] < p[i]
    BY <1>7
  <2> QED BY <1>8, <2>1, <2>2, <2>3
<1>10. /\ s \in [1..k -> Nat \X Nat] /\ \A i \in 1..k : s[i][1] = due[i] /\ s[i][2] = t + i - 1
  BY <1>7, <1>8
<1> HIDE DEF s
<1>11. s \in Seq(Nat \X Nat) /\ Len(s) = k
  BY <1>7, <1>10, FunctionIsSequence
<1>12. /\ \A i \in 1..k : s[i][2] = t + i - 1
       /\ \A i, j \in 1..k : s[i][1] = s[j][1] => i = j
  BY <1>9, <1>10
<1>13. \A i \in 1..k, j \in 1..Len(e.badges) : e.badges[j][1] # s[i][1]
  <2>1. DOMAIN e.badges = 1..Len(e.badges)
    OBVIOUS
  <2> QED BY <1>2, <1>8, <1>10, <2>1
<1> QED BY <1>7, <1>11, <1>12, <1>13 DEF s, due, id, M, T, k

LEMMA RegisterCodeKeeps ==
    ASSUME CodesInv, NEW r \in vouchers.Users, NEW u \in vouchers.Users,
           Codes!RegisterWithCode(r, u)
    PROVE  CodesInv'
<1> DEFINE U == vouchers.Users
           counted == [s1[r] EXCEPT !.direct = @ + 1]
           due == Picked([m \in DOMAIN vouchers.Milestones |-> m], Codes!Due(counted))
           earned == [i \in DOMAIN due |-> <<due[i], s4 + i - 1>>]
           token == s4 + Len(due)
           one == <<1, token>>
           e == Codes!NewInfo(FALSE, <<r>>, <<one>>)
           f == [counted EXCEPT !.badges = @ \o earned]
<1>1. /\ u \notin DOMAIN s1 /\ r \in DOMAIN s1 /\ s1[r].coded
      /\ s1' = [Codes!WithInfo(u, e) EXCEPT ![r] = f] /\ s4' = token + 1
      /\ s2' = s2 /\ s6' = s6 /\ s7' = s7
  BY CodesTotals DEF Codes!RegisterWithCode
<1>2. CodesTyped /\ OneStepUp(s1, U) /\ BadgesSound(BadgesOf(s1), s4)
  BY DEF CodesInv
<1>3. s4 \in Nat \ {0} /\ s1[r] \in CodeEntry(U)
  BY <1>1, <1>2 DEF CodesTyped
<1>4. /\ counted \in CodeEntry(U) /\ counted.badges = s1[r].badges /\ counted.earned = s1[r].earned
      /\ counted.coded = s1[r].coded /\ counted.referrer = s1[r].referrer
  <2>1. s1[r].direct + 1 \in Nat
    BY <1>3, EntryFields
  <2> QED BY <1>3, <2>1 DEF CodeEntry
<1> HIDE DEF counted
<1>5. counted.badges \in Seq(Nat \X Nat)
  BY <1>4, EntryFields
<1>6. /\ earned \in Seq(Nat \X Nat) /\ Len(earned) = Len(due) /\ Len(due) \in Nat
      /\ \A i \in 1..Len(earned) : earned[i][2] = s4 + i - 1
      /\ \A i, j \in 1..Len(earned) : earned[i][1] = earned[j][1] => i = j
      /\ \A i \in 1..Len(earned), j \in 1..Len(counted.badges) : counted.badges[j][1] # earned[i][1]
  BY <1>3, <1>5, DueBadges
<1> HIDE DEF due, earned
<1>7. token \in Nat /\ <<one>> \in Seq(Nat \X Nat)
  <2>1. token \in Nat
    BY <1>3, <1>6
  <2> HIDE DEF token
  <2>2. one \in Nat \X Nat
    BY <2>1
  <2> HIDE DEF one
  <2> QED BY <2>1, <2>2
<1>8. /\ f \in CodeEntry(U) /\ f.badges = s1[r].badges \o earned /\ f.earned = s1[r].earned
      /\ f.coded = s1[r].coded /\ f.referrer = s1[r].referrer
  <2>1. counted.badges \o earned \in Seq(Nat \X Nat)
    BY <1>5, <1>6, ConcatProperties
  <2> QED BY <1>4, <2>1 DEF CodeEntry
<1> HIDE DEF f, token
<1>9. /\ e \in CodeEntry(U) /\ e.coded = FALSE /\ e.referrer = <<r>> /\ e.badges = <<one>> /\ e.earned = 0
  <2> DEFINE who == <<r>>
             badges == <<one>>
  <2>1. who \in Seq(U) /\ badges \in Seq(Nat \X Nat) /\ FALSE \in BOOLEAN
    <3>1. r \in U
      OBVIOUS
    <3> HIDE DEF U
    <3>2. <<r>> \in Seq(U)
      BY ONLY <3>1
    <3> QED BY ONLY <1>7, <3>2
  <2>2. e = Codes!NewInfo(FALSE, who, badges)
    OBVIOUS
  <2> HIDE DEF e, who, badges
  <2>3. /\ e \in CodeEntry(U) /\ e.coded = FALSE /\ e.referrer = who
        /\ e.badges = badges /\ e.earned = 0
    BY <2>1, <2>2 DEF Codes!NewInfo, CodeEntry
  <2> QED BY <2>3 DEF who, badges
<1> HIDE DEF e
<1>10. /\ DOMAIN s1' = DOMAIN s1 \cup {u} /\ s1'[u] = e /\ s1'[r] = f /\ r # u
       /\ \A v \in DOMAIN s1 : v # u /\ (v # r => s1'[v] = s1[v])
  <2> DEFINE I == Codes!WithInfo(u, e)
  <2>1. I = [v \in DOMAIN s1 \cup {u} |-> IF v = u THEN e ELSE s1[v]]
    BY DEF Codes!WithInfo
  <2>2. s1' = [I EXCEPT ![r] = f]
    BY <1>1
  <2> HIDE DEF I
  <2> QED BY <1>1, <2>1, <2>2
<1>11. \A v \in DOMAIN s1 : /\ s1'[v].coded = s1[v].coded /\ s1'[v].referrer = s1[v].referrer
                            /\ s1'[v].earned = s1[v].earned
  BY <1>8, <1>10
<1>12. CodesTyped'
  <2>1. DOMAIN s1' \subseteq U
    BY <1>2, <1>10 DEF CodesTyped
  <2>2. \A v \in DOMAIN s1' : s1'[v] \in CodeEntry(U)
    BY <1>2, <1>8, <1>9, <1>10 DEF CodesTyped
  <2>3. s4' \in Nat \ {0}
    BY <1>1, <1>7
  <2> QED BY <1>1, <1>2, <2>1, <2>2, <2>3 DEF CodesTyped
<1>13. OneStepUp(s1', U)
  <2>1. ASSUME NEW v \in DOMAIN s1'
        PROVE  /\ Len(s1'[v].referrer) <= 1 /\ (s1'[v].coded => s1'[v].referrer = <<>>)
               /\ s1'[v].referrer # <<>> => /\ s1'[v].referrer[1] \in DOMAIN s1'
                                            /\ s1'[s1'[v].referrer[1]].coded
    <3>1. CASE v = u
      <4>1. ~s1'[v].coded /\ s1'[v].referrer = <<r>> /\ r \in DOMAIN s1' /\ s1'[r].coded
        BY <1>1, <1>9, <1>10, <1>11, <3>1
      <4> DEFINE w == s1'[v].referrer
      <4>2. w = <<r>> /\ s1'[v].referrer = w
        BY <4>1
      <4> HIDE DEF w
      <4>3. Len(w) = 1 /\ w[1] = r
        BY ONLY <4>2
      <4> QED BY ONLY <4>1, <4>2, <4>3
    <3>2. CASE v \in DOMAIN s1
      <4>1. /\ Len(s1[v].referrer) <= 1 /\ (s1[v].coded => s1[v].referrer = <<>>)
            /\ s1[v].referrer # <<>> => /\ s1[v].referrer[1] \in DOMAIN s1
                                        /\ s1[s1[v].referrer[1]].coded
        BY <1>2, <3>2 DEF OneStepUp
      <4> QED BY <1>10, <1>11, <3>2, <4>1
    <3> QED BY <1>10, <3>1, <3>2
  <2> QED BY <2>1 DEF OneStepUp
<1>14. BadgesSound(BadgesOf(s1'), s4')
  <2> DEFINE A == BadgesOf(s1)
             B == [A EXCEPT ![r] = A[r] \o earned]
             C == BadgesOf(s1')
  <2>1. DOMAIN A = DOMAIN s1 /\ A[r] = s1[r].badges /\ \A v \in DOMAIN s1 : A[v] = s1[v].badges
    BY <1>1 DEF BadgesOf
  <2>2. BadgesSound(A, s4) /\ s4 \in Nat /\ r \in DOMAIN A
    BY <1>1, <1>2, <1>3, <2>1
  <2> HIDE DEF A
  <2>3. FurtherBadges(A, r, earned, s4)
    BY <1>4, <1>6, <2>1 DEF FurtherBadges
  <2>4. DOMAIN B = DOMAIN A /\ B[r] = A[r] \o earned /\ \A v \in DOMAIN A : v # r => B[v] = A[v]
    BY <2>2
  <2> HIDE DEF B
  <2>5. BadgesSound(B, s4 + Len(earned))
    BY <2>2, <2>3, <2>4, MoreBadges
  <2>6. /\ DOMAIN C = DOMAIN B \cup {u} /\ u \notin DOMAIN B /\ C[u] = << <<1, token>> >>
        /\ \A v \in DOMAIN B : C[v] = B[v]
    BY <1>1, <1>8, <1>9, <1>10, <2>1, <2>4 DEF BadgesOf
  <2>7. BadgesSound(B, token) /\ 1 \in Nat /\ token \in Nat
    BY <1>6, <1>7, <2>5 DEF token
  <2> HIDE DEF C
  <2>8. BadgesSound(C, token + 1)
    BY <2>6, <2>7, FirstBadge
  <2> QED BY <1>1, <2>8 DEF C
<1>15. ASSUME NEW v \in DOMAIN s1' PROVE s6'[v] = s1'[v].earned + Codes!Worth(s2'[v])
  <2>1. CASE v = u
    <3>1. s2[u] = <<>> /\ s6[u] = 0
      BY <1>1 DEF CodesInv
    <3> QED BY <1>1, <1>9, <1>10, <2>1, <3>1, WorthOfNone
  <2>2. CASE v \in DOMAIN s1
    <3>1. s6[v] = s1[v].earned + Codes!Worth(s2[v])
      BY <2>2 DEF CodesInv
    <3> QED BY <1>1, <1>11, <2>2, <3>1
  <2> QED BY <1>10, <2>1, <2>2
<1>16. ASSUME NEW v \in U \ DOMAIN s1' PROVE s2'[v] = <<>> /\ s6'[v] = 0
  BY <1>1, <1>10, <1>16 DEF CodesInv
<1> QED BY <1>12, <1>13, <1>14, <1>15, <1>16 DEF CodesInv

\* What a fee promises to a user: nothing to those without an entry.
LEMMA PromisesAre ==
    ASSUME CodesInv, NEW trader \in vouchers.Users, NEW fee \in vouchers.Fees, NEW u \in vouchers.Users
    PROVE  LET chain == Codes!Chain[3][trader]
               records == [i \in DOMAIN chain |->
                              [to |-> chain[i], amount |-> (fee * vouchers.Rates[i]) \div vouchers.RateUnit,
                               at |-> s7 + vouchers.Hold]]
               new == Picked(records, {i \in DOMAIN records : records[i].to = u /\ records[i].amount > 0})
           IN  new \in Seq(Waiting(vouchers.Users)) /\ (u \notin DOMAIN s1 => new = <<>>)
<1> DEFINE U == vouchers.Users
           chain == Codes!Chain[3][trader]
           amount(i) == (fee * vouchers.Rates[i]) \div vouchers.RateUnit
           records == [i \in DOMAIN chain |->
                          [to |-> chain[i], amount |-> amount(i), at |-> s7 + vouchers.Hold]]
           T == {i \in DOMAIN records : records[i].to = u /\ records[i].amount > 0}
           new == Picked(records, T)
<1>1. /\ chain \in Seq(U) /\ Len(chain) <= 1 /\ \A i \in DOMAIN chain : chain[i] \in DOMAIN s1
  <2>1. chain = IF trader \in DOMAIN s1 THEN s1[trader].referrer ELSE <<>>
    BY ChainIs
  <2>2. CASE trader \in DOMAIN s1
    <3> DEFINE q == s1[trader].referrer
    <3>1. q \in Seq(U)
      BY <2>2, EntryFields DEF CodesInv, CodesTyped
    <3>2. Len(q) <= 1 /\ (q # <<>> => q[1] \in DOMAIN s1)
      BY <2>2 DEF CodesInv, OneStepUp
    <3> HIDE DEF q
    <3>3. \A i \in DOMAIN q : q[i] \in DOMAIN s1
      <4> TAKE i \in DOMAIN q
      <4>1. i = 1 /\ q # <<>>
        BY <3>1, <3>2
      <4> QED BY <3>2, <4>1
    <3> QED BY <2>1, <2>2, <3>1, <3>2, <3>3 DEF q
  <2>3. CASE trader \notin DOMAIN s1
    <3>1. <<>> \in Seq(U) /\ Len(<<>>) <= 1 /\ DOMAIN <<>> = {}
      OBVIOUS
    <3> QED BY <2>1, <2>3, <3>1
  <2> QED BY <2>2, <2>3
<1> HIDE DEF chain
<1>2. DOMAIN chain = 1..Len(chain) /\ Len(chain) \in Nat
  BY <1>1
<1>3. \A i \in DOMAIN chain : chain[i] \in U /\ amount(i) \in Nat
  <2> TAKE i \in DOMAIN chain
  <2>1. i = 1
    BY <1>1, <1>2
  <2>2. vouchers.Rates[1] \in Nat /\ fee \in Nat /\ vouchers.RateUnit \in Nat \ {0}
    BY VouchersAssumed
  <2> DEFINE t == fee * vouchers.Rates[1]
  <2>3. t \in Nat
    BY <2>2, ProductNat
  <2> HIDE DEF t
  <2>4. t \div vouchers.RateUnit \in Nat
    BY <2>2, <2>3, RoundedDown
  <2> QED BY <1>1, <2>1, <2>4 DEF t
<1>4. s7 + vouchers.Hold \in Nat
  <2>1. s7 \in Nat
    BY ONLY CodesInv DEF CodesInv, CodesTyped
  <2>2. vouchers.Hold \in Nat
    BY ONLY VouchersAssumed
  <2> QED BY ONLY <2>1, <2>2
<1> DEFINE k == Len(chain)
<1>5. records \in [1..k -> Waiting(U)]
  <2> DEFINE at == s7 + vouchers.Hold
  <2>1. at \in Nat
    BY <1>4
  <2> HIDE DEF at, amount
  <2>2. \A i \in 1..k : [to |-> chain[i], amount |-> amount(i), at |-> at] \in Waiting(U)
    BY <1>2, <1>3, <2>1 DEF Waiting
  <2>3. records = [i \in 1..k |-> [to |-> chain[i], amount |-> amount(i), at |-> at]]
    BY <1>2 DEF at
  <2> HIDE DEF records, k
  <2> QED BY <2>2, <2>3
<1>6. \A i \in DOMAIN records : records[i].to \in DOMAIN s1
  BY <1>1
<1> HIDE DEF records
<1>7. records \in Seq(Waiting(U)) /\ Len(records) = k /\ DOMAIN records = 1..k
  BY <1>2, <1>5, FunctionIsSequence
<1>8. T \subseteq 1..Len(records) /\ (u \notin DOMAIN s1 => T = {})
  BY <1>6, <1>7
<1> HIDE DEF T
<1>9. new \in Seq(Waiting(U)) /\ \E p : Places(new, p, records, T, Len(records))
  BY <1>7, <1>8, PickedIs
<1> HIDE DEF new
<1>10. ASSUME u \notin DOMAIN s1 PROVE new = <<>>
  <2>1. PICK p : Places(new, p, records, T, Len(records))
    BY <1>9
  <2>2. T = {}
    BY <1>8, <1>10
  <2>3. \A i \in 1..Len(new) : p[i] \in T
    BY <2>1 DEF Places
  <2>4. Len(new) \in Nat /\ (Len(new) # 0 => 1 \in 1..Len(new))
    BY <1>9
  <2>5. Len(new) = 0
    BY <2>2, <2>3, <2>4
  <2> QED BY <1>9, <2>5
<1> QED BY <1>9, <1>10 DEF new, T, records, chain

LEMMA FeePromised ==
    ASSUME CodesInv, NEW trader \in vouchers.Users, NEW fee \in vouchers.Fees,
           Codes!DistributeCommission(trader, fee)
    PROVE  CodesInv'
<1> DEFINE U == vouchers.Users
           chain == Codes!Chain[3][trader]
           records == [i \in DOMAIN chain |->
                          [to |-> chain[i], amount |-> (fee * vouchers.Rates[i]) \div vouchers.RateUnit,
                           at |-> s7 + vouchers.Hold]]
           T(u) == {i \in DOMAIN records : records[i].to = u /\ records[i].amount > 0}
           New(u) == Codes!Picked(records, T(u))
           new == [u \in U |-> New(u)]
<1>1. /\ s2' = [u \in U |-> s2[u] \o new[u]] /\ s6' = [u \in U |-> s6[u] + Codes!Worth(new[u])]
      /\ s1' = s1 /\ s4' = s4 /\ s7' = s7
  <2>1. /\ s2' = [u \in U |-> s2[u] \o New(u)] /\ s6' = [u \in U |-> s6[u] + Codes!Worth(New(u))]
        /\ s1' = s1 /\ s4' = s4 /\ s7' = s7
    BY DEF Codes!DistributeCommission
  <2> HIDE DEF New
  <2> QED BY <2>1
<1>2. \A u \in U : new[u] \in Seq(Waiting(U)) /\ (u \notin DOMAIN s1 => new[u] = <<>>)
  <2> TAKE u \in U
  <2>1. /\ Picked(records, T(u)) \in Seq(Waiting(U))
        /\ u \notin DOMAIN s1 => Picked(records, T(u)) = <<>>
    BY PromisesAre
  <2> DEFINE X == T(u)
  <2> HIDE DEF records, X
  <2>2. new[u] = Picked(records, X)
    BY CodesTotals DEF X
  <2> QED BY <2>1, <2>2 DEF X
<1> HIDE DEF new
<1>3. CodesTyped /\ OneStepUp(s1, U) /\ BadgesSound(BadgesOf(s1), s4)
  BY DEF CodesInv
<1>4. s2 \in [U -> Seq(Waiting(U))] /\ s6 \in [U -> Nat]
  BY <1>3 DEF CodesTyped
<1>5. ASSUME NEW u \in U
      PROVE  /\ s2'[u] = s2[u] \o new[u] /\ s2'[u] \in Seq(Waiting(U))
             /\ s6'[u] = s6[u] + Codes!Worth(new[u]) /\ s6'[u] \in Nat
             /\ Codes!Worth(s2'[u]) = Codes!Worth(s2[u]) + Codes!Worth(new[u])
             /\ Codes!Worth(s2[u]) \in Nat /\ Codes!Worth(new[u]) \in Nat
  <2>1. s2[u] \in Seq(Waiting(U)) /\ new[u] \in Seq(Waiting(U)) /\ s6[u] \in Nat
    BY <1>2, <1>4
  <2>2. /\ s2[u] \o new[u] \in Seq(Waiting(U))
        /\ Codes!Worth(s2[u] \o new[u]) = Codes!Worth(s2[u]) + Codes!Worth(new[u])
    BY <2>1, WorthAdds
  <2>3. Codes!Worth(s2[u]) \in Nat /\ Codes!Worth(new[u]) \in Nat
    BY <2>1, WorthIs
  <2>4. s2'[u] = s2[u] \o new[u] /\ s6'[u] = s6[u] + Codes!Worth(new[u])
    BY <1>1
  <2> QED BY <2>1, <2>2, <2>3, <2>4
<1>6. s2' \in [U -> Seq(Waiting(U))] /\ s6' \in [U -> Nat]
  <2>1. DOMAIN s2' = U /\ s2' = [u \in U |-> s2'[u]]
    BY <1>1
  <2>2. DOMAIN s6' = U /\ s6' = [u \in U |-> s6'[u]]
    BY <1>1
  <2> QED BY <1>5, <2>1, <2>2
<1>7. CodesTyped'
  BY <1>1, <1>3, <1>6 DEF CodesTyped
<1>8. ASSUME NEW u \in DOMAIN s1 PROVE s6'[u] = s1[u].earned + Codes!Worth(s2'[u])
  <2>1. u \in U /\ s1[u].earned \in Nat
    BY <1>3, EntryFields DEF CodesTyped
  <2>2. s6[u] = s1[u].earned + Codes!Worth(s2[u])
    BY DEF CodesInv
  <2>3. u \in U
    BY <2>1
  <2> DEFINE a == s1[u].earned
             b == Codes!Worth(s2[u])
             c == Codes!Worth(new[u])
  <2>4. b \in Nat /\ c \in Nat /\ s6'[u] = s6[u] + c /\ Codes!Worth(s2'[u]) = b + c
    BY <1>5, <2>3
  <2>5. s6[u] = a + b /\ a \in Nat
    BY <2>1, <2>2
  <2> HIDE DEF a, b, c
  <2>6. s6'[u] = a + Codes!Worth(s2'[u])
    BY <2>4, <2>5
  <2> QED BY <2>6 DEF a
<1>9. ASSUME NEW u \in U \ DOMAIN s1 PROVE s2'[u] = <<>> /\ s6'[u] = 0
  <2>1. s2[u] = <<>> /\ s6[u] = 0 /\ new[u] = <<>>
    BY <1>2 DEF CodesInv
  <2>2. <<>> \o <<>> = <<>>
    OBVIOUS
  <2> QED BY <1>5, <2>1, <2>2, WorthOfNone
<1> QED BY <1>1, <1>3, <1>7, <1>8, <1>9 DEF CodesInv

LEMMA ClaimKeeps ==
    ASSUME CodesInv, NEW u \in vouchers.Users, Codes!ClaimCommission(u)
    PROVE  CodesInv'
<1> DEFINE U == vouchers.Users
           T == Codes!Ripe(u)
           paid == Picked(s2[u], T)
           left == Picked(s2[u], DOMAIN s2[u] \ T)
           sum == Codes!Worth(paid)
<1>1. /\ sum # 0 /\ s2' = [s2 EXCEPT ![u] = left] /\ s4' = s4 /\ s6' = s6 /\ s7' = s7
      /\ s1' = IF u \in DOMAIN s1
               THEN [s1 EXCEPT ![u].available = @ - sum, ![u].earned = @ + sum] ELSE s1
  <2>1. /\ Codes!Picked(s2[u], T) = paid
        /\ Codes!Picked(s2[u], DOMAIN s2[u] \ T) = left
    BY CodesTotals
  <2> HIDE DEF paid, left, T
  <2>2. /\ Codes!Worth(Codes!Picked(s2[u], Codes!Ripe(u))) # 0
        /\ s2' = [s2 EXCEPT ![u] = Codes!Picked(s2[u], DOMAIN s2[u] \ Codes!Ripe(u))]
        /\ s4' = s4 /\ s6' = s6 /\ s7' = s7
        /\ s1' = IF u \in DOMAIN s1
                 THEN [s1 EXCEPT ![u].available = @ - Codes!Worth(Codes!Picked(s2[u], Codes!Ripe(u))),
                                 ![u].earned = @ + Codes!Worth(Codes!Picked(s2[u], Codes!Ripe(u)))]
                 ELSE s1
    BY DEF Codes!ClaimCommission
  <2>3. Codes!Ripe(u) = T
    BY DEF T
  <2> QED BY <2>1, <2>2, <2>3
<1>2. CodesTyped /\ OneStepUp(s1, U) /\ BadgesSound(BadgesOf(s1), s4)
  BY DEF CodesInv
<1>3. s2 \in [U -> Seq(Waiting(U))] /\ s2[u] \in Seq(Waiting(U)) /\ T \subseteq DOMAIN s2[u]
  BY <1>2 DEF CodesTyped, Codes!Ripe
<1> HIDE DEF T
<1>4. /\ paid \in Seq(Waiting(U)) /\ left \in Seq(Waiting(U))
      /\ Codes!Worth(s2[u]) = Codes!Worth(paid) + Codes!Worth(left)
  BY <1>3, WorthSplits
<1> HIDE DEF paid, left
<1>5. sum \in Nat /\ Codes!Worth(left) \in Nat
  BY <1>4, WorthIs
<1>6. u \in DOMAIN s1
  <2>1. SUFFICES ASSUME u \notin DOMAIN s1 PROVE FALSE
    OBVIOUS
  <2>2. s2[u] = <<>>
    BY <2>1 DEF CodesInv
  <2> QED BY <1>1, <1>4, <1>5, <2>2, WorthOfNone
<1> HIDE DEF sum
<1> DEFINE e == s1[u]
           f == [e EXCEPT !.available = @ - sum, !.earned = @ + sum]
<1>7. e \in CodeEntry(U)
  BY <1>2, <1>6 DEF CodesTyped
<1>8. s1' = [s1 EXCEPT ![u] = f]
  BY <1>1, <1>6
<1> HIDE DEF e
<1>9. /\ f \in CodeEntry(U) /\ f.coded = e.coded /\ f.referrer = e.referrer /\ f.badges = e.badges
      /\ f.earned = e.earned + sum /\ e.earned \in Nat
  <2>1. e.available \in Int /\ e.earned \in Nat
    BY <1>7, EntryFields
  <2>2. e.available - sum \in Int /\ e.earned + sum \in Nat
    BY <1>5, <2>1
  <2> QED BY <1>7, <2>1, <2>2 DEF CodeEntry
<1> HIDE DEF f
<1>10. /\ DOMAIN s1' = DOMAIN s1 /\ s1'[u] = f /\ \A v \in DOMAIN s1 : v # u => s1'[v] = s1[v]
  BY <1>6, <1>8
<1>11. /\ s2' \in [U -> Seq(Waiting(U))] /\ s2'[u] = left
       /\ \A v \in U : v # u => s2'[v] = s2[v]
  BY <1>1, <1>3, <1>4
<1>12. \A v \in DOMAIN s1 : /\ s1'[v].coded = s1[v].coded /\ s1'[v].referrer = s1[v].referrer
                            /\ s1'[v].badges = s1[v].badges
  BY <1>9, <1>10 DEF e
<1>13. CodesTyped'
  <2>1. \A v \in DOMAIN s1' : s1'[v] \in CodeEntry(U)
    BY <1>2, <1>9, <1>10 DEF CodesTyped
  <2> QED BY <1>1, <1>2, <1>10, <1>11, <2>1 DEF CodesTyped
<1>14. OneStepUp(s1', U)
  BY <1>2, <1>10, <1>12 DEF OneStepUp
<1>15. BadgesSound(BadgesOf(s1'), s4')
  <2>1. BadgesOf(s1') = BadgesOf(s1)
    BY <1>10, <1>12 DEF BadgesOf
  <2> QED BY <1>1, <1>2, <2>1
<1>16. ASSUME NEW v \in DOMAIN s1' PROVE s6'[v] = s1'[v].earned + Codes!Worth(s2'[v])
  <2>1. v \in DOMAIN s1 /\ v \in U
    BY <1>2, <1>10 DEF CodesTyped
  <2>2. s6[v] = s1[v].earned + Codes!Worth(s2[v])
    BY <2>1 DEF CodesInv
  <2>3. CASE v = u
    <3> DEFINE a == e.earned
               b == Codes!Worth(left)
    <3>1. s6'[u] = a + (sum + b) /\ a \in Nat /\ b \in Nat
      BY <1>1, <1>4, <1>5, <1>9, <2>2, <2>3 DEF e, sum
    <3>2. s1'[u].earned = a + sum /\ Codes!Worth(s2'[u]) = b
      BY <1>9, <1>10, <1>11
    <3>3. sum \in Nat
      BY <1>5
    <3> HIDE DEF a, b
    <3> QED BY <2>3, <3>1, <3>2, <3>3
  <2>4. CASE v # u
    BY <1>1, <1>10, <1>11, <2>1, <2>2, <2>4
  <2> QED BY <2>3, <2>4
<1>17. ASSUME NEW v \in U \ DOMAIN s1' PROVE s2'[v] = <<>> /\ s6'[v] = 0
  <2>1. v \in U \ DOMAIN s1 /\ v # u
    BY <1>6, <1>10
  <2>2. s2[v] = <<>> /\ s6[v] = 0
    BY <2>1 DEF CodesInv
  <2> QED BY <1>1, <1>11, <2>1, <2>2
<1> QED BY <1>13, <1>14, <1>15, <1>16, <1>17 DEF CodesInv

LEMMA CodesGoOn ==
    ASSUME CodesInv, Codes!Next
    PROVE  CodesInv'
<1>1. CASE \E u \in vouchers.Users : Codes!GenerateCode(u)
  BY <1>1, CodeKeeps
<1>2. CASE \E u \in vouchers.Users : Codes!ClaimCommission(u)
  BY <1>2, ClaimKeeps
<1>3. CASE \E r, u \in vouchers.Users : Codes!RegisterWithCode(r, u)
  BY <1>3, RegisterCodeKeeps
<1>4. CASE \E u \in vouchers.Users, fee \in vouchers.Fees : Codes!DistributeCommission(u, fee)
  BY <1>4, FeePromised
<1>5. CASE Codes!Tick
  <2>1. /\ s7' = s7 + 1 /\ s1' = s1 /\ s2' = s2 /\ s4' = s4 /\ s6' = s6
    BY <1>5 DEF Codes!Tick
  <2> QED BY <2>1 DEF CodesInv, CodesTyped
<1> QED BY <1>1, <1>2, <1>3, <1>4, <1>5 DEF Codes!Next

LEMMA CodesEarn == CodesInv => Codes!EarnedOnce
<1> SUFFICES ASSUME CodesInv PROVE Codes!EarnedOnce
  OBVIOUS
<1> DEFINE U == vouchers.Users
           B == BadgesOf(s1)
<1>1. CodesTyped /\ OneStepUp(s1, U) /\ BadgesSound(B, s4)
  BY DEF CodesInv
<1>2. /\ DOMAIN B = DOMAIN s1 /\ DOMAIN s1 \subseteq U
      /\ \A u \in DOMAIN s1 : B[u] = s1[u].badges
  BY <1>1 DEF BadgesOf, CodesTyped
<1> HIDE DEF B
<1>3. ASSUME NEW u \in DOMAIN s1
      PROVE  /\ Codes!Badges(u) = {B[u][i] : i \in 1..Len(B[u])}
             /\ B[u] \in Seq(Nat \X Nat) /\ Len(B[u]) \in Nat
             /\ \A i, j \in 1..Len(B[u]) : B[u][i][1] = B[u][j][1] => i = j
  <2>1. /\ B[u] \in Seq(Nat \X Nat)
        /\ \A i, j \in 1..Len(B[u]) : B[u][i][1] = B[u][j][1] => i = j
    BY <1>1, <1>2 DEF BadgesSound
  <2>2. Codes!Badges(u) = {B[u][i] : i \in DOMAIN B[u]}
    BY <1>2 DEF Codes!Badges
  <2>3. DOMAIN B[u] = 1..Len(B[u]) /\ Len(B[u]) \in Nat
    BY <2>1
  <2> QED BY <2>1, <2>2, <2>3
<1>4. ASSUME NEW u \in U, NEW v \in U, NEW x \in Codes!Badges(u), NEW y \in Codes!Badges(v), x[2] = y[2]
      PROVE  u = v /\ x = y
  <2>1. u \in DOMAIN s1 /\ v \in DOMAIN s1
    BY DEF Codes!Badges
  <2>5. x \in {B[u][i] : i \in 1..Len(B[u])} /\ y \in {B[v][i] : i \in 1..Len(B[v])}
    <3>1. Codes!Badges(u) = {B[u][i] : i \in 1..Len(B[u])}
      BY <1>3, <2>1
    <3>2. Codes!Badges(v) = {B[v][i] : i \in 1..Len(B[v])}
      BY <1>3, <2>1
    <3> QED BY <3>1, <3>2
  <2>2. PICK i \in 1..Len(B[u]) : x = B[u][i]
    BY <2>5
  <2>3. PICK j \in 1..Len(B[v]) : y = B[v][j]
    BY <2>5
  <2>4. B[u][i][2] = B[v][j][2] => u = v /\ i = j
    BY <1>1, <1>2, <2>1 DEF BadgesSound
  <2> QED BY <1>4, <2>2, <2>3, <2>4
<1>5. ASSUME NEW u \in DOMAIN s1
      PROVE  /\ Codes!Cardinality(Codes!Badges(u)) = Len(s1[u].badges)
             /\ \A x, y \in Codes!Badges(u) : x[1] = y[1] => x = y
             /\ s6[u] = s1[u].earned + Codes!Worth(s2[u])
             /\ Len(Codes!Chain[3][u]) <= 1
  <2>1. u \in U
    BY <1>2
  <2>2. \A i, j \in 1..Len(B[u]) : B[u][i] = B[u][j] => i = j
    BY <1>3
  <2> DEFINE q == B[u]
  <2>3. Cardinality({q[i] : i \in 1..Len(q)}) = Len(q)
    <3>1. q \in Seq(Nat \X Nat) /\ \A i, j \in 1..Len(q) : q[i] = q[j] => i = j
      BY <1>3, <2>2
    <3> HIDE DEF q
    <3> QED BY <3>1, DistinctEntries
  <2>4. Codes!Cardinality(Codes!Badges(u)) = Len(s1[u].badges)
    BY <1>2, <1>3, <2>3, CodesTotals
  <2>5. \A x, y \in Codes!Badges(u) : x[1] = y[1] => x = y
    BY <1>3
  <2>6. Len(Codes!Chain[3][u]) <= 1
    BY <1>1, <2>1, ChainIs DEF OneStepUp
  <2>7. s6[u] = s1[u].earned + Codes!Worth(s2[u])
    BY DEF CodesInv
  <2> QED BY <2>4, <2>5, <2>6, <2>7
<1> QED BY <1>4, <1>5 DEF Codes!EarnedOnce

\* The theorem behind CommissionsEarned: nobody is paid for their own trades along a loop of
\* referrals, however it came about, every commission that was earned or promised is held or
\* was paid out, and no badge exists twice.
THEOREM CommissionsEarnedAlways == CoreSpec => []CommissionsEarned
<1> DEFINE Inv == (part = "referrals" => RefersInv) /\ (part = "codes" => CodesInv)
<1>1. CoreInit => Inv
  BY PartBegins, RefersBegin, CodesBegin
<1>2. Inv /\ [CoreNext]_vars => Inv'
  <2>1. ASSUME Inv, CoreNext PROVE Inv'
    <3>1. CASE part = "referrals"
      BY <2>1, <3>1, PartGoesOn, RefersGoOn DEF ReferralsStep
    <3>2. CASE part = "codes"
      BY <2>1, <3>2, PartGoesOn, CodesGoOn DEF CodesStep
    <3>3. CASE part # "referrals" /\ part # "codes"
      BY <3>3, <2>1, PartGoesOn
    <3> QED BY <3>1, <3>2, <3>3
  <2>2. ASSUME Inv, UNCHANGED vars PROVE Inv'
    BY <2>2, NothingMoves DEF RefersInv, CodesInv, CodesTyped
  <2> QED BY <2>1, <2>2
<1>3. Inv => CommissionsEarned
  BY RefersPay, CodesEarn DEF CommissionsEarned
<1> QED BY <1>1, <1>2, <1>3, PTL DEF CoreSpec
-----------------------------------------------------------------------------
(* The types of these parts.                                               *)

LEMMA LogKeepsBound ==
    ASSUME PhasesInv, Len(s3) <= schedule.MaxLog, Phases!Next
    PROVE  Len(s3') <= schedule.MaxLog
<1>1. s3 \in Seq(Phases!Event) /\ schedule.MaxLog \in Nat
  BY CoreAssumption DEF PhasesInv, PhasesTyped, Phases!DecentralizationAssumption
<1>2. ASSUME NEW kind, NEW about, NEW who, Phases!Record(kind, about, who)
      PROVE  Len(s3') <= schedule.MaxLog
  <2> DEFINE e == Phases!Logged(kind, about, who)
  <2>1. Len(s3) < schedule.MaxLog /\ s3' = Append(s3, e)
    BY <1>2 DEF Phases!Record
  <2> HIDE DEF e
  <2>2. Len(s3') = Len(s3) + 1
    BY <1>1, <2>1
  <2> QED BY <1>1, <2>1, <2>2
<1>3. s3' = s3 \/ \E kind, about, who : Phases!Record(kind, about, who)
  <2>1. CASE Phases!TickPhase
    BY <2>1, Zenon DEF Phases!TickPhase
  <2>2. ASSUME Phases!ClockMoves \/ (\E q \in BOOLEAN : Phases!SetPaused(q))
               \/ (\E c \in schedule.Values : Phases!SetFeeDirect(c))
        PROVE  s3' = s3
    BY <2>2 DEF Phases!ClockMoves, Phases!SetPaused, Phases!SetFeeDirect
  <2>3. ASSUME NEW c, Phases!QueueOperation(c) PROVE \E kind, about, who : Phases!Record(kind, about, who)
    BY <2>3, Zenon DEF Phases!QueueOperation
  <2>4. ASSUME NEW id, Phases!ExecuteOperation(id) \/ Phases!CancelOperation(id)
        PROVE  \E kind, about, who : Phases!Record(kind, about, who)
    BY <2>4, Zenon DEF Phases!ExecuteOperation, Phases!CancelOperation
  <2>5. ASSUME NEW g, NEW c, Phases!ProposeMultisig(g, c)
        PROVE  \E kind, about, who : Phases!Record(kind, about, who)
    BY <2>5, Zenon DEF Phases!ProposeMultisig
  <2>6. ASSUME NEW g, NEW id, Phases!ApproveMultisig(id, g)
        PROVE  \E kind, about, who : Phases!Record(kind, about, who)
    BY <2>6, Zenon DEF Phases!ApproveMultisig
  <2>7. ASSUME NEW id, Phases!ExecuteMultisig(id)
        PROVE  \E kind, about, who : Phases!Record(kind, about, who)
    BY <2>7, Zenon DEF Phases!ExecuteMultisig
  <2>8. ASSUME NEW g, Phases!GuardianOverride(g)
        PROVE  \E kind, about, who : Phases!Record(kind, about, who)
    BY <2>8, Zenon DEF Phases!GuardianOverride
  <2> QED BY <2>1, <2>2, <2>3, <2>4, <2>5, <2>6, <2>7, <2>8 DEF Phases!Next
<1> QED BY <1>2, <1>3

LEMMA PhasesTypes ==
    ASSUME PhasesInv, Len(s3) <= schedule.MaxLog
    PROVE  Phases!TypeOK
<1>1. \A id \in DOMAIN s1 : s1[id] \in [eta : Nat, executed : BOOLEAN, cancelled : BOOLEAN]
  <2> SUFFICES ASSUME NEW id \in DOMAIN s1
               PROVE  s1[id] \in [eta : Nat, executed : BOOLEAN, cancelled : BOOLEAN]
    OBVIOUS
  <2>1. s1[id] \in [eta : Int, executed : BOOLEAN, cancelled : BOOLEAN]
    BY DEF PhasesInv, PhasesTyped
  <2>2. PICK i : LastOf(s3, i, id, "Queued") /\ s1[id].eta = s3[i].at + schedule.Delay
    BY DEF PhasesInv, OperationTold
  <2>3. i \in DOMAIN s3 /\ s3 \in Seq(Phases!Event)
    <3>1. i \in DOMAIN s3
      BY <2>2 DEF LastOf
    <3>2. s3 \in Seq(Phases!Event)
      BY DEF PhasesInv, PhasesTyped
    <3> QED BY <3>1, <3>2
  <2>4. s3[i].at \in schedule.Moments
    <3>1. s3[i] \in Phases!Event
      BY <2>3
    <3> QED BY <3>1 DEF Phases!Event
  <2>5. s3[i].at \in Nat /\ schedule.Delay \in Nat
    BY <2>4, CoreAssumption DEF Phases!DecentralizationAssumption
  <2>6. s1[id].eta \in Nat
    BY <2>2, <2>5
  <2> QED BY <2>1, <2>6
<1>2. \A i \in DOMAIN s3 : s3[i] \in Phases!Event
  BY DEF PhasesInv, PhasesTyped
<1> QED BY <1>1, <1>2 DEF Phases!TypeOK, PhasesInv, PhasesTyped, SettingsType

LEMMA ClaimTimesStay ==
    ASSUME RewardsInv, s2 \in [incentives.Participants -> Nat \cup {Rewards!Never}], Rewards!Next
    PROVE  s2' \in [incentives.Participants -> Nat \cup {Rewards!Never}]
<1>1. s5 \in Nat
  BY DEF RewardsInv
<1>2. UNCHANGED s2 \/ \E p \in incentives.Participants : s2' = [s2 EXCEPT ![p] = s5]
  BY DEF Rewards!Next, Rewards!RecordProposalCreated, Rewards!RecordDelegationReceived,
         Rewards!RecordVoteCast, Rewards!Record, Rewards!ClaimRewards, Rewards!FinalizeEpoch,
         Rewards!Tick
<1> QED BY <1>1, <1>2

LEMMA RewardsTypes ==
    ASSUME RewardsInv, s2 \in [incentives.Participants -> Nat \cup {Rewards!Never}]
    PROVE  Rewards!TypeOK
BY DEF RewardsInv, EpochsSound, Rewards!TypeOK

\* While games are played no season goes on, and the reverse.
NoSeasons == s8 = <<>> /\ s9 = <<>> /\ s10 = <<>> /\ s11 = {} /\ s12 = <<>>

NoGames == s1 = [u \in contest.Users |-> [score |-> 0, streak |-> 0, daily |-> 0, bestDaily |-> 0,
                    seen |-> 0, won |-> 0, joined |-> 0, earned |-> 0, pending |-> 0]]
           /\ s2 = [u \in contest.Users |-> {}] /\ s4 = <<>> /\ s5 = <<>> /\ s7 = 1

LEMMA ClockKeepsBound ==
    ASSUME s7 \in 1..contest.MaxTime, Games!GamesNext
    PROVE  s7' \in 1..contest.MaxTime
<1>1. contest.MaxTime \in Nat
  BY CoreAssumption DEF Games!GamificationAssumption
<1>2. CASE Games!Tick
  <2>1. s7 < contest.MaxTime /\ s7' = s7 + 1
    BY <1>2 DEF Games!Tick
  <2> QED BY <1>1, <2>1
<1>3. ASSUME NEW u, NEW met,
             \/ Games!RecordActivity(u) \/ Games!RecordProfitableTrade(u)
             \/ Games!RecordLosingTrade(u) \/ Games!AwardAchievements(u, met)
             \/ Games!ClaimRewards(u)
      PROVE  s7' = s7
  BY <1>3 DEF Games!RecordActivity, Games!RecordProfitableTrade, Games!RecordLosingTrade,
              Games!AwardAchievements, Games!ClaimRewards
<1>4. ASSUME NEW pool, NEW n, NEW t, NEW d, Games!CreateChallenge(pool, n, t, d)
      PROVE  s7' = s7
  BY <1>4 DEF Games!CreateChallenge
<1>5. ASSUME NEW u, NEW c,
             \/ Games!JoinChallenge(u, c) \/ Games!UpdateProgress(u, c)
             \/ Games!ClaimChallengeReward(u, c)
      PROVE  s7' = s7
  BY <1>5 DEF Games!JoinChallenge, Games!UpdateProgress, Games!ClaimChallengeReward
<1>6. CASE Games!FinalizeExpiredChallenges
  BY <1>6 DEF Games!FinalizeExpiredChallenges
<1> QED BY <1>2, <1>3, <1>4, <1>5, <1>6, Zenon DEF Games!GamesNext

LEMMA GamesTypes ==
    ASSUME GamesInv, NoSeasons, s7 \in 1..contest.MaxTime
    PROVE  Games!TypeOK
<1>1. /\ s1 \in [contest.Users -> Games!Profile] /\ s4 \in Seq(Games!Challenge)
      /\ s5 \in Seq(Joins) /\ Len(s5) = Len(s4)
  BY DEF GamesInv, BoardSound, JoinedSound
<1>2. \A u \in contest.Users : s2[u] \subseteq DOMAIN contest.Points
  BY DEF GamesInv
<1>3. ASSUME NEW c \in DOMAIN s5
      PROVE  /\ DOMAIN s5[c] \subseteq contest.Users
             /\ \A u \in DOMAIN s5[c] : s5[c][u] \in Games!Progress
  <2>1. s5[c] \in Joins
    BY <1>1
  <2>2. PICK D \in SUBSET contest.Users : s5[c] \in [D -> Games!Progress]
    BY <2>1 DEF Joins
  <2> QED BY <2>2
<1>4. /\ s8 \in Seq(BOOLEAN) /\ s11 \subseteq contest.Traders
      /\ Len(s9) = Len(s8) /\ Len(s10) = Len(s8) /\ Len(s12) = Len(s8)
  BY DEF NoSeasons
<1> QED BY <1>1, <1>2, <1>3, <1>4 DEF Games!TypeOK

LEMMA SeasonsTypes ==
    ASSUME SeasonsInv, NoGames
    PROVE  Games!TypeOK
<1>1. s1 \in [contest.Users -> Games!Profile]
  BY DEF NoGames, Games!Profile
<1>2. \A u \in contest.Users : s2[u] \subseteq DOMAIN contest.Points
  BY DEF NoGames
<1>3. s4 \in Seq(Games!Challenge) /\ Len(s5) = Len(s4) /\ DOMAIN s5 = {}
  BY DEF NoGames
<1>4. s7 \in 1..contest.MaxTime
  BY CoreAssumption DEF NoGames, Games!GamificationAssumption
<1>5. s11 \subseteq contest.Traders
  BY DEF SeasonsInv
<1>6. s8 \in Seq(BOOLEAN) /\ Len(s9) = Len(s8) /\ Len(s10) = Len(s8) /\ Len(s12) = Len(s8)
  BY DEF SeasonsInv
<1> QED BY <1>1, <1>2, <1>3, <1>4, <1>5, <1>6 DEF Games!TypeOK

LEMMA RefersTypes ==
    ASSUME RefersInv
    PROVE  Refers!TypeOK
BY DEF RefersInv, Referring, Refers!TypeOK

LEMMA CodesTypes ==
    ASSUME CodesInv
    PROVE  Codes!TypeOK
<1>1. ASSUME NEW u \in DOMAIN s1
      PROVE  /\ s1[u].coded \in BOOLEAN /\ s1[u].available \in Int
             /\ s1[u].referrer = Codes!Nobody \/ s1[u].referrer[1] \in vouchers.Users
  <2>1. s1[u].coded \in BOOLEAN /\ s1[u].available \in Int /\ s1[u].referrer \in Seq(vouchers.Users)
    BY EntryFields DEF CodesInv, CodesTyped
  <2>2. ASSUME NEW q \in Seq(vouchers.Users), q # <<>> PROVE q[1] \in vouchers.Users
    BY <2>2
  <2> QED BY <2>1, <2>2 DEF Codes!Nobody
<1> QED BY <1>1 DEF Codes!TypeOK, CodesInv, CodesTyped

\* The inductive invariant of the types.
SuiteTyped ==
    /\ part = "phases" => PhasesInv /\ Len(s3) <= schedule.MaxLog
    /\ part = "rewards" => RewardsInv /\ s2 \in [incentives.Participants -> Nat \cup {Rewards!Never}]
    /\ part = "games" => GamesInv /\ NoSeasons /\ s7 \in 1..contest.MaxTime
    /\ part = "seasons" => SeasonsInv /\ NoGames
    /\ part = "referrals" => RefersInv
    /\ part = "codes" => CodesInv

LEMMA SuiteTypesBegin ==
    ASSUME CoreInit
    PROVE  SuiteTyped
<1>1. CASE part = "phases"
  <2>1. PhasesInv
    BY <1>1, PartBegins, PhasesBegin DEF InPhases
  <2>2. Len(s3) = 2
    BY <1>1, PartBegins DEF InPhases, Phases!Init
  <2>3. Len(s3) <= schedule.MaxLog
    BY <2>2, CoreAssumption DEF Phases!DecentralizationAssumption
  <2> QED BY <1>1, <2>1, <2>3 DEF SuiteTyped
<1>2. CASE part = "rewards"
  <2>1. RewardsInv
    BY <1>2, PartBegins, RewardsBegin
  <2>2. s2 = [p \in incentives.Participants |-> Rewards!Never]
    BY <1>2, PartBegins DEF InRewards, Rewards!Init
  <2> QED BY <1>2, <2>1, <2>2 DEF SuiteTyped
<1>3. CASE part = "games"
  <2>1. GamesInv
    BY <1>3, PartBegins, GamesBegin
  <2>2. NoSeasons /\ s7 = 1
    BY <1>3, PartBegins DEF InGames, Games!Init, NoSeasons
  <2>3. s7 \in 1..contest.MaxTime
    BY <2>2, CoreAssumption DEF Games!GamificationAssumption
  <2> QED BY <1>3, <2>1, <2>2, <2>3 DEF SuiteTyped
<1>4. CASE part = "seasons"
  <2>1. SeasonsInv
    BY <1>4, PartBegins, SeasonsBegin
  <2>2. NoGames
    BY <1>4, PartBegins DEF InSeasons, Games!Init, NoGames
  <2> QED BY <1>4, <2>1, <2>2 DEF SuiteTyped
<1>5. CASE part = "referrals"
  BY <1>5, PartBegins, RefersBegin DEF SuiteTyped
<1>6. CASE part = "codes"
  BY <1>6, PartBegins, CodesBegin DEF SuiteTyped
<1> QED BY <1>1, <1>2, <1>3, <1>4, <1>5, <1>6 DEF SuiteTyped

LEMMA SuiteTypesGoOn ==
    ASSUME SuiteTyped, CoreNext
    PROVE  SuiteTyped'
<1>1. CASE part = "phases"
  BY <1>1, PartGoesOn, PhasesGoOn, LogKeepsBound DEF PhasesStep, SuiteTyped
<1>2. CASE part = "rewards"
  BY <1>2, PartGoesOn, RewardsGoOn, ClaimTimesStay DEF RewardsStep, SuiteTyped
<1>3. CASE part = "games"
  <2>1. part' = part /\ GamesStep
    BY <1>3, PartGoesOn
  <2>2. Games!GamesNext /\ GamesInv /\ NoSeasons /\ s7 \in 1..contest.MaxTime
    BY <1>3, <2>1 DEF GamesStep, SuiteTyped
  <2>3. NoSeasons'
    BY <2>1, <2>2 DEF GamesStep, NoSeasons, from8, from9, from10, from11, from12
  <2>4. GamesInv' /\ s7' \in 1..contest.MaxTime
    BY <2>1, <2>2, GamesGoOn, ClockKeepsBound DEF GamesStep
  <2> QED BY <1>3, <2>1, <2>3, <2>4 DEF SuiteTyped
<1>4. CASE part = "seasons"
  <2>1. part' = part /\ SeasonsStep /\ SeasonsInv /\ NoGames
    BY <1>4, PartGoesOn DEF SuiteTyped
  <2>2. NoGames'
    BY <2>1 DEF SeasonsStep, NoGames
  <2>3. SeasonsInv'
    BY <2>1, SeasonsGoOn DEF SeasonsStep
  <2> QED BY <1>4, <2>1, <2>2, <2>3 DEF SuiteTyped
<1>5. CASE part = "referrals"
  BY <1>5, PartGoesOn, RefersGoOn DEF ReferralsStep, SuiteTyped
<1>6. CASE part = "codes"
  BY <1>6, PartGoesOn, CodesGoOn DEF CodesStep, SuiteTyped
<1>7. CASE part \notin {"phases", "rewards", "games", "seasons", "referrals", "codes"}
  BY <1>7, PartGoesOn DEF SuiteTyped
<1> QED BY <1>1, <1>2, <1>3, <1>4, <1>5, <1>6, <1>7

\* TypeOK in the parts that keep logs, boards and accounts, whatever the values of their
\* constants: no call of theirs leaves a field outside of its type, a log longer than it
\* may be or an account below zero.
THEOREM SuiteTypesAlways ==
    CoreSpec => [](part \in {"phases", "rewards", "games", "seasons", "referrals", "codes"} => TypeOK)
<1>1. CoreInit => SuiteTyped
  BY SuiteTypesBegin
<1>2. SuiteTyped /\ [CoreNext]_vars => SuiteTyped'
  <2>1. ASSUME SuiteTyped, UNCHANGED vars PROVE SuiteTyped'
    BY <2>1, NothingMoves DEF SuiteTyped, PhasesInv, PhasesTyped, RewardsInv, GamesInv, SeasonsInv,
       RefersInv, CodesInv, CodesTyped, NoSeasons, NoGames
  <2> QED BY <2>1, SuiteTypesGoOn
<1>3. SuiteTyped => (part \in {"phases", "rewards", "games", "seasons", "referrals", "codes"} => TypeOK)
  BY PhasesTypes, RewardsTypes, GamesTypes, SeasonsTypes, RefersTypes, CodesTypes
     DEF SuiteTyped, TypeOK
<1> QED BY <1>1, <1>2, <1>3, PTL DEF CoreSpec
=============================================================================
