---------------------------- MODULE CounterProofs -----------------------------
(***************************************************************************)
(* Proofs about the parts of the counter contract, for every value of      *)
(* their constants: swaps and their guards, loans, pools, deposits, NFTs.  *)
(***************************************************************************)
EXTENDS CounterCore, SequenceLemmas

-----------------------------------------------------------------------------
(* A behaviour stays in its part.                                          *)

\* A step that changes nothing changes no variable.
LEMMA NothingMoves ==
    ASSUME UNCHANGED vars
    PROVE  UNCHANGED <<part, s1, s2, s3, s4, s5, s6, s7, s8, s9, s10, s11, s12, s13, s14, s15,
                       s16, s17>>
BY DEF vars, from1, from2, from3, from4, from5, from6, from7, from8, from9, from10, from11,
   from12, from13, from14, from15, from16, from17

\* The part that runs begins as it says and takes its own steps only.
LEMMA PartBegins ==
    ASSUME CoreInit
    PROVE  /\ part = "oracle" => InOracle
           /\ part = "volume" => InVolume
           /\ part = "rates" => InRates
           /\ part = "lending" => InLending
           /\ part = "pools" => InPools
           /\ part = "trading" => InTrading
           /\ part = "market" => InMarket
           /\ part = "fractions" => InFractions
BY DEF CoreInit, InLending, InMarket, InFractions, InPools, InTrading, InOracle, InVolume, InRates,
   InFarming, InBonuses, InTreasury, InEmergency, InPath, InManager, InVotes, InPhases, InRewards,
   InGames, InSeasons, InOrders, InFees,
   InReferrals, InCodes

LEMMA PartGoesOn ==
    ASSUME CoreNext
    PROVE  /\ part' = part
           /\ part = "oracle" => OracleStep
           /\ part = "volume" => VolumeStep
           /\ part = "rates" => RatesStep
           /\ part = "lending" => LendingStep
           /\ part = "pools" => PoolsStep
           /\ part = "trading" => TradingStep
           /\ part = "market" => MarketStep
           /\ part = "fractions" => FractionsStep
BY DEF CoreNext, LendingStep, MarketStep, FractionsStep, PoolsStep, TradingStep, OracleStep,
   VolumeStep, RatesStep, FarmingStep, BonusesStep, TreasuryStep, EmergencyStep, PathStep,
   ManagerStep, VotesStep, PhasesStep, RewardsStep, GamesStep, SeasonsStep, OrdersStep,
   FeesStep, ReferralsStep, CodesStep

-----------------------------------------------------------------------------
(* The guards of a swap.                                                   *)

\* What the oracle stores is a record, whatever is stored in it.
OracleFields == {"current", "history", "updated", "tripped", "fallback"}
OracleInv == DOMAIN s2 = OracleFields /\ s2.tripped \in BOOLEAN

LEMMA OracleBegins ==
    ASSUME Guards!Init
    PROVE  OracleInv
BY DEF Guards!Init, OracleInv, OracleFields

\* While it is tripped a price adapter that is active answers the fallback.
LEMMA TrippedAnswer ==
    ASSUME s1.active, s2.tripped
    PROVE  Guards!GetPrice = s2.fallback
BY DEF Guards!GetPrice

LEMMA TrippedAnswerNext ==
    ASSUME s1'.active, s2'.tripped
    PROVE  (Guards!GetPrice)' = s2'.fallback
BY DEF Guards!GetPrice

\* The fallback stays, or it is the last accepted price.
FallbackKept == \/ s2'.fallback = s2.fallback
                \/ s2'.current = s2.current /\ s2'.fallback = s2.current

LEMMA OracleGoesOn ==
    ASSUME OracleInv, Guards!OracleNext \/ Guards!Tick
    PROVE  OracleInv' /\ Guards!FrozenWhileTripped
<1>1. ASSUME NEW p \in guards.Prices, Guards!UpdatePriceJump(p)
      PROVE  OracleInv' /\ FallbackKept
  <2>1. s2' = s2 \/ s2' = [s2 EXCEPT !.tripped = TRUE, !.fallback = s2.current]
    BY <1>1 DEF Guards!UpdatePriceJump
  <2> QED BY <2>1 DEF OracleInv, OracleFields, FallbackKept
<1>2. ASSUME NEW p \in guards.Prices, Guards!UpdatePrice(p)
      PROVE  OracleInv' /\ FallbackKept
  <2> DEFINE h == Guards!LastOf(Append(s2.history, p), s1.window)
             t == /\ s2.tripped
                  /\ Guards!Deviation(s2.fallback, p) > s1.threshold \div 2
  <2>1. s2' = [s2 EXCEPT !.history = h, !.current = p, !.updated = s10, !.tripped = t]
    BY <1>2 DEF Guards!UpdatePrice
  <2>2. t \in BOOLEAN
    OBVIOUS
  <2> HIDE DEF h, t
  <2> QED BY <2>1, <2>2 DEF OracleInv, OracleFields, FallbackKept
<1>3. ASSUME s2' = s2
      PROVE  OracleInv' /\ FallbackKept
  BY <1>3 DEF OracleInv, FallbackKept
<1>4. ASSUME Guards!ResetPriceBreaker
      PROVE  OracleInv' /\ FallbackKept
  <2>1. s2' = [s2 EXCEPT !.tripped = FALSE]
    BY <1>4 DEF Guards!ResetPriceBreaker
  <2> QED BY <2>1 DEF OracleInv, OracleFields, FallbackKept
<1>5. OracleInv' /\ FallbackKept
  BY <1>1, <1>2, <1>3, <1>4 DEF Guards!OracleNext, Guards!Configure, Guards!Tick, Guards!oracleVars
<1>6. ASSUME s2.tripped, s2'.tripped, s1.active, s1'.active
      PROVE  \/ (Guards!GetPrice)' = Guards!GetPrice
             \/ s2'.current = s2.current /\ (Guards!GetPrice)' = s2.current
  BY <1>5, <1>6, TrippedAnswer, TrippedAnswerNext DEF FallbackKept
<1> QED BY <1>5, <1>6 DEF Guards!FrozenWhileTripped

\* What counts in the window is what is recorded in it: what is kept lies in the window,
\* and nothing is dropped of a list that does.
LEMMA KeptInWindow ==
    ASSUME NEW V, NEW list \in Seq(Nat \X V)
    PROVE  /\ Guards!InWindow(list) \in Seq(Nat \X V)
           /\ \A i \in DOMAIN Guards!InWindow(list) :
                  Guards!InWindow(list)[i][1] >= Guards!Cutoff
           /\ (\A i \in DOMAIN list : list[i][1] >= Guards!Cutoff)
                => Guards!InWindow(list) = list
<1> DEFINE E == Nat \X V
           n == Len(list)
           In(e) == e[1] >= Guards!Cutoff
           Grow(i, q) == IF In(list[i]) THEN Append(q, list[i]) ELSE q
           IsKept(g) == g = [i \in 0..n |-> IF i = 0 THEN <<>> ELSE Grow(i, g[i - 1])]
           kept == CHOOSE g : IsKept(g)
<1>1. n \in Nat /\ \A i \in 1..n : list[i] \in E
  OBVIOUS
<1>2. Guards!InWindow(list) = kept[n]
  BY DEF Guards!InWindow
<1> HIDE DEF In
<1>3. \E g : IsKept(g)
  <2> DEFINE f == [x \in Nat \X Seq(E) |-> IF x[1] \in 1..n THEN Grow(x[1], x[2]) ELSE x[2]]
  <2> HIDE DEF E, n
  <2>1. ASSUME NEW x \in Nat \X Seq(E)
        PROVE  (IF x[1] \in 1..n THEN Grow(x[1], x[2]) ELSE x[2]) \in Seq(E)
    <3>1. x[2] \in Seq(E)
      OBVIOUS
    <3>2. x[1] \in 1..n => Append(x[2], list[x[1]]) \in Seq(E)
      BY <1>1, <3>1
    <3> QED BY <3>1, <3>2
  <2>2. f \in [Nat \X Seq(E) -> Seq(E)] /\ <<>> \in Seq(E)
    BY <2>1
  <2>3. \A i \in 1..n, q \in Seq(E) : f[<<i, q>>] = Grow(i, q)
    BY <1>1
  <2> HIDE DEF f
  <2>4. PICK g : Recursion(g, Seq(E), <<>>, f, n)
    BY <1>1, <2>2, RecursionExists
  <2> HIDE DEF Grow
  <2>5. ASSUME NEW i \in 0..n
        PROVE  g[i] = IF i = 0 THEN <<>> ELSE Grow(i, g[i - 1])
    <3>1. CASE i = 0
      BY <2>4, <3>1 DEF Recursion
    <3>2. CASE i # 0
      <4>1. i \in 1..n /\ i - 1 \in 0..n
        BY <1>1, <3>2
      <4> QED BY <2>3, <2>4, <3>2, <4>1 DEF Recursion
    <3> QED BY <3>1, <3>2
  <2>6. g = [i \in 0..n |-> IF i = 0 THEN <<>> ELSE Grow(i, g[i - 1])]
    BY <2>4, <2>5 DEF Recursion
  <2> QED BY <2>6
<1>4. IsKept(kept)
  BY <1>3
<1> HIDE DEF kept, E, Grow
<1>5. kept[0] = <<>> /\ \A i \in 1..n : kept[i] = Grow(i, kept[i - 1])
  <2>1. 0 \in 0..n /\ \A i \in 1..n : i \in 0..n /\ i # 0
    BY <1>1
  <2> HIDE DEF n
  <2> QED BY <1>4, <2>1
<1> HIDE DEF IsKept, n
<1> DEFINE Good(m) == /\ kept[m] \in Seq(E)
                      /\ \A i \in DOMAIN kept[m] : In(kept[m][i])
                      /\ (\A i \in 1..n : In(list[i])) =>
                             Len(kept[m]) = m /\ \A i \in 1..m : kept[m][i] = list[i]
           S == {m \in Nat : m <= n => Good(m)}
<1>6. 0 \in S
  <2>1. Good(0)
    BY <1>5
  <2> HIDE DEF Good
  <2> QED BY <2>1
<1>7. ASSUME NEW m \in Nat, m \in S PROVE m + 1 \in S
  <2> SUFFICES ASSUME m + 1 <= n PROVE Good(m + 1)
    OBVIOUS
  <2>1. Good(m)
    BY <1>1, <1>7
  <2>2. m + 1 \in 1..n /\ (m + 1) - 1 = m
    BY <1>1
  <2>3. kept[m + 1] = Grow(m + 1, kept[m]) /\ list[m + 1] \in E
    BY <1>1, <1>5, <2>2
  <2>4. CASE ~In(list[m + 1])
    <3>1. kept[m + 1] = kept[m]
      BY <2>3, <2>4 DEF Grow
    <3> QED BY <2>1, <2>2, <2>4, <3>1
  <2>5. CASE In(list[m + 1])
    <3> DEFINE q == kept[m]
               r == Append(q, list[m + 1])
    <3>1. kept[m + 1] = r
      BY <2>3, <2>5 DEF Grow
    <3>2. /\ r \in Seq(E) /\ Len(r) = Len(q) + 1 /\ DOMAIN r = 1..(Len(q) + 1)
          /\ Len(q) \in Nat /\ DOMAIN q = 1..Len(q)
          /\ r[Len(q) + 1] = list[m + 1] /\ \A i \in 1..Len(q) : r[i] = q[i]
      BY <2>1, <2>3
    <3> HIDE DEF r, q
    <3>3. \A i \in DOMAIN r : In(r[i])
      <4>1. \A i \in 1..Len(q) : In(r[i])
        BY <2>1, <3>2 DEF q
      <4>2. In(r[Len(q) + 1])
        BY <2>5, <3>2
      <4> QED BY <3>2, <4>1, <4>2
    <3>4. ASSUME \A i \in 1..n : In(list[i])
          PROVE  Len(r) = m + 1 /\ \A i \in 1..(m + 1) : r[i] = list[i]
      <4>1. Len(q) = m /\ \A i \in 1..m : q[i] = list[i]
        BY <2>1, <3>4 DEF q
      <4> QED BY <3>2, <4>1
    <3> QED BY <3>1, <3>2, <3>3, <3>4
  <2> QED BY <2>4, <2>5
<1>8. n \in S
  <2> HIDE DEF S
  <2> QED BY <1>1, <1>6, <1>7, NatSetInduction
<1>9. Good(n)
  BY <1>1, <1>8
<1>10. ASSUME \A i \in 1..n : In(list[i]) PROVE kept[n] = list
  <2>1. Len(kept[n]) = n /\ \A i \in 1..n : kept[n][i] = list[i]
    BY <1>9, <1>10
  <2>2. kept[n] \in Seq(E) /\ list \in Seq(E) /\ Len(list) = n
    BY <1>9 DEF n, E
  <2> QED BY <2>1, <2>2
<1>11. DOMAIN list = 1..n
  BY DEF n
<1> QED BY <1>2, <1>9, <1>10, <1>11 DEF In, E

\* The trades that count are pairs of a time and a volume.
VolumeInv == s4 \in Seq(Nat \X guards.Volumes) /\ s10 \in Nat

LEMMA VolumeBegins ==
    ASSUME Guards!Init
    PROVE  VolumeInv
BY DEF Guards!Init, VolumeInv

\* A recorded trade lies in the window, so what is stored is what counts.
LEMMA RecordedInWindow ==
    ASSUME VolumeInv, NEW amount \in guards.Volumes,
           NEW list, list = Append(Guards!InWindow(s4), <<s10, amount>>)
    PROVE  list \in Seq(Nat \X guards.Volumes) /\ Guards!InWindow(list) = list
<1> DEFINE E == Nat \X guards.Volumes
           q == Guards!InWindow(s4)
           e == <<s10, amount>>
<1>1. q \in Seq(E) /\ \A i \in DOMAIN q : q[i][1] >= Guards!Cutoff
  BY KeptInWindow DEF VolumeInv
<1>q. q \in Seq(E)
  BY <1>1
<1>2. e \in E /\ e[1] >= Guards!Cutoff
  <2>1. s10 >= Guards!Cutoff
    BY CoreAssumption DEF Guards!Cutoff, Guards!GuardsAssumption, VolumeInv
  <2> QED BY <2>1 DEF VolumeInv
<1> HIDE DEF q, e, E
<1>3. list = Append(q, e)
  BY DEF q, e
<1>e. e \in E
  BY <1>2
<1>4. /\ list \in Seq(E) /\ DOMAIN list = 1..(Len(q) + 1)
      /\ Len(q) \in Nat /\ DOMAIN q = 1..Len(q)
      /\ list[Len(q) + 1] = e /\ \A i \in 1..Len(q) : list[i] = q[i]
  <2>1. Append(q, e) \in Seq(E) /\ Len(Append(q, e)) = Len(q) + 1
    BY <1>q, <1>e, AppendProperties
  <2>2. /\ \A i \in 1..Len(q) : Append(q, e)[i] = q[i]
        /\ Append(q, e)[Len(q) + 1] = e
    BY <1>q, <1>e, AppendProperties
  <2>3. DOMAIN list = 1..Len(list) /\ DOMAIN q = 1..Len(q) /\ Len(q) \in Nat
    BY <1>q, <1>3, <2>1
  <2> QED BY <1>3, <2>1, <2>2, <2>3
<1>5. ASSUME NEW i \in DOMAIN list PROVE list[i][1] >= Guards!Cutoff
  <2>1. CASE i = Len(q) + 1
    BY <1>2, <1>4, <2>1
  <2>2. CASE i # Len(q) + 1
    <3>1. i \in DOMAIN q /\ list[i] = q[i]
      BY <1>4, <2>2
    <3> QED BY <1>1, <3>1
  <2> QED BY <2>1, <2>2
<1>6. list \in Seq(Nat \X guards.Volumes)
  BY <1>4 DEF E
<1> QED BY <1>5, <1>6, KeptInWindow

LEMMA VolumeGoesOn ==
    ASSUME VolumeInv, Guards!VolumeNext \/ Guards!Tick
    PROVE  VolumeInv' /\ Guards!VolumeTripsInTime
<1>1. ASSUME NEW amount \in guards.Volumes, Guards!RecordVolume(amount)
      PROVE  VolumeInv' /\ Guards!VolumeTripsInTime
  <2> DEFINE list == Append(Guards!InWindow(s4), <<s10, amount>>)
             trips == s3 > 0 /\ Guards!Total(list) > s3
  <2>1. s4' = list /\ s5' = trips /\ s10' = s10
    BY <1>1 DEF Guards!RecordVolume, Guards!rateVars
  <2> HIDE DEF list
  <2>2. list \in Seq(Nat \X guards.Volumes) /\ Guards!InWindow(list) = list
    BY RecordedInWindow DEF list
  <2>3. Guards!InWindow(s4') = list
    BY <2>1, <2>2
  <2> QED BY <2>1, <2>2, <2>3 DEF VolumeInv, Guards!VolumeTripsInTime
<1>2. ASSUME Guards!ResetVolumeBreaker
      PROVE  VolumeInv' /\ Guards!VolumeTripsInTime
  <2>1. s4' = <<>> /\ s10' = s10
    BY <1>2 DEF Guards!ResetVolumeBreaker, Guards!rateVars
  <2> QED BY <2>1 DEF VolumeInv, Guards!VolumeTripsInTime
<1>3. ASSUME s4' = s4, s10' \in {s10, s10 + 1}
      PROVE  VolumeInv' /\ Guards!VolumeTripsInTime
  BY <1>3 DEF VolumeInv, Guards!VolumeTripsInTime
<1>4. ASSUME Guards!Tick
      PROVE  s4' = s4 /\ s10' \in {s10, s10 + 1}
  BY <1>4 DEF Guards!Tick, Guards!volumeVars
<1>5. ASSUME NEW max, Guards!SetThreshold(max)
      PROVE  s4' = s4 /\ s10' \in {s10, s10 + 1}
  BY <1>5 DEF Guards!SetThreshold
<1>6. ASSUME NEW flag, Guards!SetPaused(flag)
      PROVE  s4' = s4 /\ s10' \in {s10, s10 + 1}
  BY <1>6 DEF Guards!SetPaused
<1> QED BY <1>1, <1>2, <1>3, <1>4, <1>5, <1>6 DEF Guards!VolumeNext

\* BreakersHold: a tripped price breaker serves a frozen price, and the volume breaker
\* trips with the trade that takes its window above the ceiling, for every window,
\* threshold and ceiling.
THEOREM BreakersHoldAlways == CoreSpec => BreakersHold
<1> DEFINE Inv == /\ part = "oracle" => OracleInv
                  /\ part = "volume" => VolumeInv
           Kept == /\ part = "oracle" => Guards!FrozenWhileTripped
                   /\ part = "volume" => Guards!VolumeTripsInTime
<1>1. CoreInit => Inv
  BY PartBegins, OracleBegins, VolumeBegins DEF InOracle, InVolume
<1>2. Inv /\ [CoreNext]_vars => Inv' /\ [Kept]_vars
  <2>1. ASSUME Inv, CoreNext PROVE Inv' /\ Kept
    BY <2>1, PartGoesOn, OracleGoesOn, VolumeGoesOn DEF OracleStep, VolumeStep
  <2>2. ASSUME Inv, UNCHANGED vars PROVE Inv'
    BY <2>2, NothingMoves DEF OracleInv, VolumeInv
  <2> QED BY <2>1, <2>2
<1> QED BY <1>1, <1>2, PTL DEF CoreSpec, BreakersHold

\* The cached boundary of the hour is none, or that of a past hour; the counts are there
\* for every hour.
RatesInv ==
    /\ s10 \in 0..guards.MaxTime
    /\ s8 \in [guards.Users \X Guards!Starts -> Nat]
    /\ DOMAIN s9 = {"start", "expires"}
    /\ \/ s9.expires = 0
       \/ /\ s9.expires = s9.start + guards.Hour /\ s9.start <= s10
          /\ \E k \in Nat : s9.start = k * guards.Hour

LEMMA RatesBegin ==
    ASSUME Guards!Init
    PROVE  RatesInv
BY CoreAssumption DEF Guards!Init, RatesInv, Guards!GuardsAssumption

\* What GuardsAssumption says of the hours.
LEMMA HoursAreNumbers ==
    guards.Hour \in Nat \ {0} /\ guards.MaxTime \in Nat
BY CoreAssumption DEF Guards!GuardsAssumption

\* The hour that runs has a counter, and so has the boundary that answers for it.
LEMMA HourOfNow ==
    ASSUME RatesInv
    PROVE  /\ Guards!WindowStart(s10) \in Guards!Starts
           /\ Guards!HourlyCached.start = Guards!WindowStart(s10)
           /\ DOMAIN Guards!HourlyCached = {"start", "expires"}
           /\ Guards!HourlyCached.expires = Guards!WindowStart(s10) + guards.Hour
<1> DEFINE h == guards.Hour
           w == (s10 \div h) * h
<1>1. h \in Nat \ {0} /\ guards.MaxTime \in Nat /\ s10 \in Nat /\ s10 <= guards.MaxTime
  BY HoursAreNumbers DEF RatesInv
<1> HIDE DEF h
<1>2. s10 \div h \in Nat /\ w \in Nat /\ w <= s10 /\ s10 < w + h
  BY <1>1, RoundedDown
<1>3. w % h = 0
  BY <1>1, <1>2, MultipleHasNoRest
<1>4. Guards!WindowStart(s10) = w
  BY DEF Guards!WindowStart, h
<1>5. w \in Guards!Starts
  BY <1>1, <1>2, <1>3 DEF Guards!Starts, Guards!Times, h
<1>6. CASE s10 < s9.expires
  <2>1. s9.expires = s9.start + h /\ s9.start <= s10
    BY <1>1, <1>6 DEF RatesInv, h
  <2>2. PICK k \in Nat : s9.start = k * h
    BY <1>1, <1>6 DEF RatesInv, h
  <2>3. k = s10 \div h
    BY <1>1, <1>2, <1>6, <2>1, <2>2, OneMultipleBelow
  <2>4. s9.start = w /\ s9.expires = w + h
    BY <2>1, <2>2, <2>3
  <2>5. Guards!HourlyCached = s9
    BY <1>6 DEF Guards!HourlyCached, Guards!CacheValid
  <2> QED BY <1>4, <1>5, <2>4, <2>5 DEF RatesInv, h
<1>7. CASE ~(s10 < s9.expires)
  <2>1. Guards!HourlyCached = [start |-> w, expires |-> w + h]
    BY <1>4, <1>7 DEF Guards!HourlyCached, Guards!CacheValid, h
  <2> QED BY <1>4, <1>5, <2>1 DEF h
<1> QED BY <1>6, <1>7

LEMMA RatesGoOn ==
    ASSUME RatesInv, Guards!RateNext \/ Guards!Tick
    PROVE  RatesInv' /\ Guards!HourCountKept
<1> DEFINE w == Guards!WindowStart(s10)
           D == guards.Users \X Guards!Starts
<1>1. w \in Guards!Starts /\ Guards!HourlyCached.start = w
  BY HourOfNow
<1>2. s8 \in [D -> Nat] /\ s10 \in Nat /\ guards.Hour \in Nat \ {0} /\ w \in Nat
  BY <1>1, HoursAreNumbers DEF RatesInv, Guards!Starts, Guards!Times
<1>3. ASSUME NEW u \in guards.Users, NEW n \in 1..2, Guards!BatchSwaps(u, n)
      PROVE  RatesInv' /\ \A v \in guards.Users : s8'[<<v, w>>] >= s8[<<v, w>>]
  <2>1. s10' = s10 /\ s9' = Guards!HourlyCached
    BY <1>3 DEF Guards!BatchSwaps
  <2>2. s8' = [s8 EXCEPT ![<<u, w>>] = @ + n]
    BY <1>1, <1>3 DEF Guards!BatchSwaps
  <2> HIDE DEF w
  <2>3. s8' \in [D -> Nat] /\ \A v \in guards.Users : s8'[<<v, w>>] >= s8[<<v, w>>]
    BY <1>1, <1>2, <2>2
  <2>4. \E k \in Nat : w = k * guards.Hour
    BY <1>2, RoundedDown DEF w, Guards!WindowStart
  <2>5. w <= s10
    BY <1>2, RoundedDown DEF w, Guards!WindowStart
  <2>6. /\ DOMAIN s9' = {"start", "expires"}
        /\ s9'.start = w /\ s9'.expires = w + guards.Hour
    BY <2>1, HourOfNow DEF w
  <2>7. Guards!Starts' = Guards!Starts
    BY DEF Guards!Starts, Guards!Times
  <2> QED BY <2>1, <2>3, <2>4, <2>5, <2>6, <2>7 DEF RatesInv
<1>4. ASSUME NEW u \in guards.Users, Guards!CleanupRateLimits(u)
      PROVE  RatesInv' /\ \A v \in guards.Users : s8'[<<v, w>>] >= s8[<<v, w>>]
  <2>1. s10' = s10 /\ s9' = s9 /\ s8' = [s8 EXCEPT ![<<u, w - guards.Hour>>] = 0]
    BY <1>4 DEF Guards!CleanupRateLimits, Guards!rateVars
  <2> HIDE DEF w
  <2>2. w - guards.Hour # w
    BY <1>2
  <2>3. s8' \in [D -> Nat]
    BY <1>2, <2>1
  <2>4. \A v \in guards.Users : s8'[<<v, w>>] = s8[<<v, w>>] /\ s8[<<v, w>>] \in Nat
    BY <1>1, <1>2, <2>1, <2>2
  <2>5. Guards!Starts' = Guards!Starts
    BY DEF Guards!Starts, Guards!Times
  <2> QED BY <2>1, <2>3, <2>4, <2>5 DEF RatesInv
<1>5. ASSUME Guards!Tick
      PROVE  RatesInv' /\ \A v \in guards.Users : s8'[<<v, w>>] >= s8[<<v, w>>]
  <2>1. s8' = s8 /\ s9' = s9 /\ s10' = s10 + 1 /\ s10 < guards.MaxTime
    BY <1>5 DEF Guards!Tick, Guards!rateVars
  <2>2. \A v \in guards.Users : s8[<<v, w>>] \in Nat
    BY <1>1, <1>2
  <2>3. Guards!Starts' = Guards!Starts
    BY DEF Guards!Starts, Guards!Times
  <2>4. s10' \in 0..guards.MaxTime
    BY <1>2, <2>1, HoursAreNumbers
  <2>5. s9.start <= s10 /\ (\E k \in Nat : s9.start = k * guards.Hour) => s9.start <= s10'
    BY <1>2, <2>1
  <2>6. \A v \in guards.Users : s8'[<<v, w>>] >= s8[<<v, w>>]
    BY <2>1, <2>2
  <2> QED BY <2>1, <2>3, <2>4, <2>5, <2>6 DEF RatesInv
<1>6. RatesInv' /\ \A v \in guards.Users : s8'[<<v, w>>] >= s8[<<v, w>>]
  BY <1>3, <1>4, <1>5 DEF Guards!RateNext
<1> QED BY <1>1, <1>6 DEF Guards!HourCountKept

\* HourCountKept: nobody's count falls within its hour, and the cached boundary is that
\* of the hour, for every length of the hour.
THEOREM HourCountKeptAlways == CoreSpec => HourCountKept
<1> DEFINE Inv == part = "rates" => RatesInv
           Kept == part = "rates" => Guards!HourCountKept
<1>1. CoreInit => Inv
  BY PartBegins, RatesBegin DEF InRates
<1>2. Inv /\ [CoreNext]_vars => Inv' /\ [Kept]_vars
  <2>1. ASSUME Inv, CoreNext PROVE Inv' /\ Kept
    BY <2>1, PartGoesOn, RatesGoOn DEF RatesStep
  <2>2. ASSUME Inv, UNCHANGED vars PROVE Inv'
    BY <2>2, NothingMoves DEF RatesInv, Guards!Starts, Guards!Times
  <2> QED BY <2>1, <2>2
<1> QED BY <1>1, <1>2, PTL DEF CoreSpec, HourCountKept

-----------------------------------------------------------------------------
(* Loans and pools, on the terms c: those of the loans of their own and     *)
(* those of the marketplace.                                                *)

Debt(c) == Lending(c)!NFTLoan

\* The NFTs and the loans on them.
LoansTyped(c) ==
    /\ s1 \in [c.Nfts -> Lending(c)!Parties]
    /\ s2 \in Seq(Debt(c)) /\ Len(s2) <= c.MaxLoans
    /\ s3 \in [c.Nfts -> 0..c.MaxLoans] /\ s4 \in Nat
    /\ s5 \in [Lending(c)!Parties -> Nat] /\ s6 \in [Lending(c)!Parties -> Nat]

\* The pools and what was put into them.
LentTyped(c) ==
    /\ DOMAIN s7 \subseteq c.Pools
    /\ \A p \in DOMAIN s7 : s7[p] \in Lending(c)!LendingPool
    /\ s8 \in [c.Pools \X c.Users -> Nat]

\* The queue and the bids.
SaleTyped(c) ==
    /\ s10 \in Seq(1..Len(s2))
    /\ s11 \in [1..c.MaxLoans -> {<<>>} \cup (c.Users \X Nat)]

WorldTyped(c) == s9 \in [c.Nfts -> Nat] /\ s12 \in BOOLEAN /\ s13 \in 0..c.MaxTime

\* Every loan and every pool is of its type, and no pool lent more than it holds.
LendingInv(c) ==
    /\ LoansTyped(c) /\ LentTyped(c) /\ SaleTyped(c) /\ WorldTyped(c)
    /\ Lending(c)!PoolCoversLoans

\* What is assumed of the constants.
LEMMA LendingNumbers ==
    ASSUME NEW c, Lending(c)!LendingAssumption
    PROVE
    /\ c.RateUnit \in Nat \ {0} /\ c.Precision \in Nat \ {0}
    /\ c.LtvUnit \in Nat \ {0} /\ c.Optimal \in 1..(c.RateUnit - 1)
    /\ c.Slope1 \in Nat /\ c.Slope2 \in Nat /\ c.BaseRate \in Nat
    /\ c.MaxLoans \in Nat /\ c.QueueSize \in Nat /\ c.MaxTime \in Nat
    /\ c.Amounts \subseteq Nat /\ c.Rates \subseteq Nat
    /\ c.Days \subseteq Nat /\ c.Values \subseteq Nat
    /\ c.Bids \subseteq Nat
BY DEF Lending!LendingAssumption

\* Products and rounded quotients of natural numbers.
LEMMA ProductIsNat ==
    ASSUME NEW a \in Nat, NEW b \in Nat
    PROVE  a * b \in Nat
OBVIOUS

LEMMA SlackIsNat ==
    ASSUME NEW c, Lending(c)!LendingAssumption,
           NEW x \in Int, NEW y \in Int
    PROVE  Lending(c)!Minus(x, y) \in Nat
BY DEF Lending!Minus

LEMMA InterestIsNat ==
    ASSUME NEW c, Lending(c)!LendingAssumption,
           NEW amount \in Nat, NEW rate \in Nat
    PROVE  Lending(c)!DailyInterest(amount, rate) \in Nat
<1>1. c.RateUnit \in Nat \ {0} /\ amount * rate \in Nat
  BY LendingNumbers, ProductIsNat
<1>2. (amount * rate) \div c.RateUnit \in Nat
  BY <1>1, RoundedDown
<1> QED BY <1>2 DEF Lending!DailyInterest

LEMMA FundedInterestIsNat ==
    ASSUME NEW c, Lending(c)!LendingAssumption,
           NEW amount \in Nat, NEW rate \in Nat, NEW days \in Nat
    PROVE  Lending(c)!FundedInterest(amount, rate, days) \in Nat
<1> DEFINE a == amount * c.Precision * rate
           u == c.RateUnit * c.Precision
           b == (a \div u) * days
<1>1. /\ amount * c.Precision \in Nat
      /\ c.Precision \in Nat \ {0} /\ c.RateUnit \in Nat \ {0}
  BY LendingNumbers, ProductIsNat
<1>2. a \in Nat
  BY <1>1, ProductIsNat
<1>3. u \in Nat \ {0}
  <2>1. c.RateUnit >= 1 /\ c.Precision >= 1
    BY <1>1
  <2>2. 1 * c.Precision <= c.RateUnit * c.Precision
    BY <1>1, <2>1, ProductOrder
  <2>3. u \in Nat
    BY <1>1, ProductIsNat
  <2> QED BY <1>1, <2>1, <2>2, <2>3
<1> HIDE DEF a, u
<1>4. a \div u \in Nat
  BY <1>2, <1>3, RoundedDown
<1>5. b \in Nat
  BY <1>4, ProductIsNat
<1> HIDE DEF b
<1>6. b \div c.Precision \in Nat
  BY <1>1, <1>5, RoundedDown
<1> QED BY <1>6 DEF Lending!FundedInterest, a, b, u

\* What a loan asks for is never negative.
LEMMA DueIsNat ==
    ASSUME NEW c, Lending(c)!LendingAssumption,
           LendingInv(c), NEW loan \in Debt(c)
    PROVE  Lending(c)!TotalDue(loan) \in Nat
<1>1. /\ loan.amount \in Nat /\ loan.rate \in Nat /\ loan.repayment \in Nat /\ loan.due \in Nat
  BY DEF Debt, Lending!NFTLoan
<1>2. s13 \in Nat
  BY LendingNumbers DEF LendingInv, WorldTyped
<1>3. Lending(c)!DailyInterest(loan.amount, loan.rate) \in Nat
  BY <1>1, InterestIsNat
<1>4. Lending(c)!Minus(s13, loan.due) \in Nat
  BY <1>1, <1>2 DEF Lending!Minus
<1>5. Lending(c)!DailyInterest(loan.amount, loan.rate) * Lending(c)!Minus(s13, loan.due) \in Nat
  BY <1>3, <1>4, ProductIsNat
<1> QED BY <1>1, <1>5 DEF Lending!TotalDue

\* Nor is the rate of a pool whose totals are not.
LEMMA RateIsNat ==
    ASSUME NEW c, Lending(c)!LendingAssumption,
           NEW pool \in [deposited : Nat, borrowed : Int],
           pool.deposited = 0 \/ pool.borrowed >= 0
    PROVE  Lending(c)!DynamicRate(pool) \in Nat
<1> DEFINE used == (pool.borrowed * c.RateUnit) \div pool.deposited
           over == used - c.Optimal
           room == c.RateUnit - c.Optimal
<1>a. /\ c.RateUnit \in Nat \ {0} /\ c.Optimal \in 1..(c.RateUnit - 1)
      /\ c.Slope1 \in Nat /\ c.Slope2 \in Nat /\ c.BaseRate \in Nat
  BY LendingNumbers
<1>1. CASE pool.deposited = 0
  BY <1>a, <1>1 DEF Lending!DynamicRate
<1>2. CASE pool.deposited # 0
  <2>1. pool.deposited \in Nat \ {0} /\ pool.borrowed \in Nat
    BY <1>2
  <2>2. pool.borrowed * c.RateUnit \in Nat
    BY <1>a, <2>1, ProductIsNat
  <2>3. used \in Nat
    BY <2>1, <2>2, RoundedDown
  <2> HIDE DEF used
  <2>4. c.Slope1 * used \in Nat /\ c.Optimal \in Nat \ {0} /\ room \in Nat \ {0}
    BY <1>a, <2>3, ProductIsNat
  <2>5. (c.Slope1 * used) \div c.Optimal \in Nat
    BY <2>4, RoundedDown
  <2>6. CASE used <= c.Optimal
    <3>1. Lending(c)!DynamicRate(pool) = c.BaseRate + (c.Slope1 * used) \div c.Optimal
      BY <1>2, <2>6 DEF Lending!DynamicRate, used
    <3> QED BY <1>a, <2>5, <3>1
  <2>7. CASE ~(used <= c.Optimal)
    <3>1. over \in Nat
      BY <1>a, <2>3, <2>7
    <3> HIDE DEF over, room
    <3>2. c.Slope2 * over \in Nat
      BY <1>a, <3>1, ProductIsNat
    <3>3. (c.Slope2 * over) \div room \in Nat
      BY <2>4, <3>2, RoundedDown
    <3>4. Lending(c)!DynamicRate(pool) = c.BaseRate + c.Slope1 + (c.Slope2 * over) \div room
      BY <1>2, <2>7 DEF Lending!DynamicRate, used, over, room
    <3> QED BY <1>a, <3>3, <3>4
  <2> QED BY <2>6, <2>7
<1> QED BY <1>1, <1>2

\* The fields of a loan.
LEMMA DebtFields ==
    ASSUME NEW c, Lending(c)!LendingAssumption,
           NEW loan \in Debt(c)
    PROVE  /\ loan.nft \in c.Nfts /\ loan.borrower \in c.Users
           /\ loan.lender \in Lending(c)!Parties
           /\ loan.amount \in Nat /\ loan.rate \in Nat /\ loan.repayment \in Nat
           /\ loan.days \in Nat /\ loan.due \in Nat
           /\ loan.active \in BOOLEAN /\ loan.repaid \in BOOLEAN /\ loan.liquidated \in BOOLEAN
BY DEF Debt, Lending!NFTLoan

\* A loan of the registry is of its type and its id within the bound.
LEMMA ALoan ==
    ASSUME NEW c, Lending(c)!LendingAssumption,
           LendingInv(c), NEW i \in DOMAIN s2
    PROVE  s2[i] \in Debt(c) /\ i \in 1..Len(s2) /\ i \in 1..c.MaxLoans /\ Len(s2) \in Nat
BY LendingNumbers DEF LendingInv, LoansTyped

\* A loan marked repaid, or liquidated, and no longer active.
LEMMA MarkedLoans ==
    ASSUME NEW c, Lending(c)!LendingAssumption,
           NEW q \in Seq(Debt(c)), NEW i \in DOMAIN q
    PROVE  /\ [q EXCEPT ![i].repaid = TRUE, ![i].active = FALSE] \in Seq(Debt(c))
           /\ Len([q EXCEPT ![i].repaid = TRUE, ![i].active = FALSE]) = Len(q)
           /\ [q EXCEPT ![i].liquidated = TRUE, ![i].active = FALSE] \in Seq(Debt(c))
           /\ Len([q EXCEPT ![i].liquidated = TRUE, ![i].active = FALSE]) = Len(q)
<1> DEFINE e == [q[i] EXCEPT !.repaid = TRUE, !.active = FALSE]
           f == [q[i] EXCEPT !.liquidated = TRUE, !.active = FALSE]
<1>1. i \in 1..Len(q) /\ q[i] \in Debt(c)
  OBVIOUS
<1>2. e \in Debt(c) /\ f \in Debt(c)
  BY <1>1 DEF Debt, Lending!NFTLoan
<1>3. [q EXCEPT ![i].repaid = TRUE, ![i].active = FALSE] = [q EXCEPT ![i] = e]
  BY <1>1
<1>4. [q EXCEPT ![i].liquidated = TRUE, ![i].active = FALSE] = [q EXCEPT ![i] = f]
  BY <1>1
<1> HIDE DEF e, f
<1>5. /\ [q EXCEPT ![i] = e] \in Seq(Debt(c)) /\ Len([q EXCEPT ![i] = e]) = Len(q)
      /\ [q EXCEPT ![i] = f] \in Seq(Debt(c)) /\ Len([q EXCEPT ![i] = f]) = Len(q)
  BY <1>1, <1>2, ExceptSeq
<1> HIDE DEF Debt
<1> QED BY <1>3, <1>4, <1>5

\* Counting down does not go below zero.
LEMMA CountedDown ==
    ASSUME NEW c, Lending(c)!LendingAssumption,
           NEW S, NEW g \in [S -> Nat], NEW x
    PROVE  [g EXCEPT ![x] = Lending(c)!Minus(@, 1)] \in [S -> Nat]
<1>1. CASE x \in S
  <2>1. g[x] \in Nat
    BY <1>1
  <2>2. Lending(c)!Minus(g[x], 1) \in Nat
    BY <2>1 DEF Lending!Minus
  <2> QED BY <1>1, <2>2
<1>2. CASE x \notin S
  BY <1>2
<1> QED BY <1>1, <1>2

LEMMA CountedUp ==
    ASSUME NEW S, NEW g \in [S -> Nat], NEW x
    PROVE  [g EXCEPT ![x] = @ + 1] \in [S -> Nat]
<1>1. CASE x \in S
  BY <1>1
<1>2. CASE x \notin S
  BY <1>2
<1> QED BY <1>1, <1>2

\* The empty registry.
LEMMA LendingBegins ==
    ASSUME NEW c, Lending(c)!LendingAssumption,
           Lending(c)!Init
    PROVE  LendingInv(c)
<1> USE LendingNumbers DEF Lending!Init
<1>1. LoansTyped(c)
  BY DEF LoansTyped, Lending!Parties
<1>2. LentTyped(c)
  BY DEF LentTyped
<1>3. SaleTyped(c)
  BY DEF SaleTyped
<1>4. WorldTyped(c)
  <2>1. s9 \in [c.Nfts -> c.Values]
    OBVIOUS
  <2>2. s9 \in [c.Nfts -> Nat]
    BY <2>1
  <2>3. s12 = FALSE /\ s13 = 0 /\ c.MaxTime \in Nat
    BY LendingNumbers
  <2>4. s13 \in 0..c.MaxTime
    BY <2>3
  <2>5. s12 \in BOOLEAN
    BY <2>3
  <2> QED BY <2>2, <2>4, <2>5 DEF WorldTyped
<1>5. Lending(c)!PoolCoversLoans
  BY DEF Lending!PoolCoversLoans
<1> QED BY <1>1, <1>2, <1>3, <1>4, <1>5 DEF LendingInv

\* What the loans' steps leave alone.
LEMMA PoolsKept ==
    ASSUME NEW c, Lending(c)!LendingAssumption,
           LendingInv(c), UNCHANGED <<s7, s8>>
    PROVE  LentTyped(c)' /\ Lending(c)!PoolCoversLoans'
BY DEF LendingInv, LentTyped, Lending!PoolCoversLoans

LEMMA SalesKept ==
    ASSUME NEW c, Lending(c)!LendingAssumption,
           LendingInv(c), UNCHANGED <<s10, s11>>, Len(s2') \in Nat, Len(s2') >= Len(s2)
    PROVE  SaleTyped(c)'
<1>1. s10 \in Seq(1..Len(s2)) /\ Len(s2) \in Nat
  BY DEF LendingInv, SaleTyped, LoansTyped
<1>2. 1..Len(s2) \subseteq 1..Len(s2')
  BY <1>1
<1>3. s10 \in Seq(1..Len(s2'))
  <2> DEFINE A == 1..Len(s2)
             B == 1..Len(s2')
  <2>1. s10 \in Seq(A) /\ A \subseteq B
    BY <1>1, <1>2
  <2> HIDE DEF A, B
  <2>2. s10 \in Seq(B)
    BY <2>1
  <2> QED BY <2>2 DEF B
<1> QED BY <1>3 DEF LendingInv, SaleTyped

LEMMA WorldKept ==
    ASSUME NEW c, Lending(c)!LendingAssumption,
           LendingInv(c), UNCHANGED <<s9, s12, s13>>
    PROVE  WorldTyped(c)'
BY DEF LendingInv, WorldTyped

LEMMA LoansKept ==
    ASSUME NEW c, Lending(c)!LendingAssumption,
           LendingInv(c), UNCHANGED <<s1, s2, s3, s4, s5, s6>>
    PROVE  LoansTyped(c)'
BY DEF LendingInv, LoansTyped

LEMMA LengthKept ==
    ASSUME NEW c, Lending(c)!LendingAssumption,
           LendingInv(c), UNCHANGED s2
    PROVE  Len(s2') \in Nat /\ Len(s2') >= Len(s2)
BY DEF LendingInv, LoansTyped

\* A new loan goes to the end of the registry and its NFT is pledged.
LEMMA RecordedLoan ==
    ASSUME NEW c, Lending(c)!LendingAssumption,
           LendingInv(c), NEW loan \in Debt(c), Lending(c)!Recorded(loan),
           s1' = s1, s5' \in [Lending(c)!Parties -> Nat], s6' \in [Lending(c)!Parties -> Nat]
    PROVE  LoansTyped(c)' /\ Len(s2') \in Nat /\ Len(s2') >= Len(s2)
<1>1. s2 \in Seq(Debt(c)) /\ Len(s2) \in Nat /\ Len(s2) < c.MaxLoans
  BY DEF LendingInv, LoansTyped, Lending!Recorded
<1>2. s2' = Append(s2, loan)
  BY DEF Lending!Recorded
<1>3. s2' \in Seq(Debt(c)) /\ Len(s2') = Len(s2) + 1
  BY <1>1, <1>2, AppendProperties
<1>4. Len(s2') <= c.MaxLoans /\ Len(s2) + 1 \in 0..c.MaxLoans
  BY <1>1, <1>3, LendingNumbers
<1>5. s3' \in [c.Nfts -> 0..c.MaxLoans]
  <2>1. s3 \in [c.Nfts -> 0..c.MaxLoans]
    BY DEF LendingInv, LoansTyped
  <2>2. s3' = [s3 EXCEPT ![loan.nft] = Len(s2) + 1]
    BY DEF Lending!Recorded
  <2> QED BY <1>4, <2>1, <2>2
<1>6. s4' \in Nat
  BY DEF Lending!Recorded, LendingInv, LoansTyped
<1> HIDE DEF Debt
<1> QED BY <1>1, <1>3, <1>4, <1>5, <1>6 DEF LendingInv, LoansTyped

LEMMA RequestLoanGoesOn ==
    ASSUME NEW c, Lending(c)!LendingAssumption,
           LendingInv(c),
           NEW u \in c.Users, NEW n \in c.Nfts, NEW amount \in c.Amounts,
           NEW rate \in c.Rates, NEW days \in c.Days,
           Lending(c)!RequestLoan(u, n, amount, rate, days)
    PROVE  LendingInv(c)'
<1> DEFINE loan == [nft |-> n, borrower |-> u, lender |-> u,
                    amount |-> amount, rate |-> rate, repayment |-> amount,
                    days |-> days, due |-> 0,
                    active |-> FALSE, repaid |-> FALSE, liquidated |-> FALSE]
<1>1. loan \in Debt(c)
  <2>1. amount \in Nat /\ rate \in Nat /\ days \in Nat
    BY LendingNumbers
  <2> QED BY <2>1 DEF Debt, Lending!NFTLoan, Lending!Parties
<1>2. Lending(c)!Recorded(loan)
  BY DEF Lending!RequestLoan
<1> HIDE DEF loan
<1>3. UNCHANGED <<s1, s5, s6, s7, s8, s9, s10, s11, s12, s13>>
  BY DEF Lending!RequestLoan, Lending!poolVars, Lending!saleVars
<1>4. LoansTyped(c)' /\ Len(s2') \in Nat /\ Len(s2') >= Len(s2)
  <2>1. s5' \in [Lending(c)!Parties -> Nat] /\ s6' \in [Lending(c)!Parties -> Nat]
    BY <1>3 DEF LendingInv, LoansTyped
  <2> QED BY <1>1, <1>2, <1>3, <2>1, RecordedLoan
<1>s. SaleTyped(c)' /\ WorldTyped(c)'
  <2>1. SaleTyped(c)'
    BY <1>3, <1>4, SalesKept
  <2>2. WorldTyped(c)'
    BY <1>3, <1>4, WorldKept
  <2> QED BY <2>1, <2>2
<1>r. LentTyped(c)' /\ Lending(c)!PoolCoversLoans'
  BY <1>3, <1>4, PoolsKept
<1> QED BY <1>3, <1>4, <1>s, <1>r DEF LendingInv

\* One loan is replaced by another, and the counts move as they may.
LEMMA LoanReplaced ==
    ASSUME NEW c, Lending(c)!LendingAssumption,
           LendingInv(c), NEW i \in DOMAIN s2, NEW loan \in Debt(c),
           s2' = [s2 EXCEPT ![i] = loan]
    PROVE  /\ s2' \in Seq(Debt(c)) /\ Len(s2') <= c.MaxLoans
           /\ Len(s2') \in Nat /\ Len(s2') >= Len(s2)
<1>1. s2 \in Seq(Debt(c)) /\ Len(s2) <= c.MaxLoans /\ i \in 1..Len(s2)
  BY DEF LendingInv, LoansTyped
<1> HIDE DEF Debt
<1>2. s2' \in Seq(Debt(c)) /\ Len(s2') = Len(s2)
  BY <1>1, ExceptSeq
<1> QED BY <1>1, <1>2

LEMMA FundLoanGoesOn ==
    ASSUME NEW c, Lending(c)!LendingAssumption,
           LendingInv(c), NEW u \in c.Users, NEW i \in DOMAIN s2, Lending(c)!FundLoan(u, i)
    PROVE  LendingInv(c)'
<1> DEFINE due == s13 + s2[i].days
           back == s2[i].amount + Lending(c)!FundedInterest(s2[i].amount, s2[i].rate, s2[i].days)
           loan == [s2[i] EXCEPT !.lender = u, !.due = due, !.active = TRUE,
                                 !.repayment = back]
<1>1. s2[i] \in Debt(c) /\ i \in 1..Len(s2)
  BY ALoan
<1>2. s13 \in Nat
  BY LendingNumbers DEF LendingInv, WorldTyped
<1>3. due \in Nat /\ back \in Nat
  <2>1. s2[i].amount \in Nat /\ s2[i].rate \in Nat /\ s2[i].days \in Nat
    BY <1>1, DebtFields
  <2>2. Lending(c)!FundedInterest(s2[i].amount, s2[i].rate, s2[i].days) \in Nat
    BY <2>1, FundedInterestIsNat
  <2> QED BY <1>2, <2>1, <2>2
<1>4. s2' = [s2 EXCEPT ![i] = loan]
  BY DEF Lending!FundLoan
<1> HIDE DEF due, back
<1>5. loan \in Debt(c)
  BY <1>1, <1>3 DEF Debt, Lending!NFTLoan, Lending!Parties
<1> HIDE DEF loan
<1>6. /\ s2' \in Seq(Debt(c)) /\ Len(s2') <= c.MaxLoans
      /\ Len(s2') \in Nat /\ Len(s2') >= Len(s2)
  BY <1>4, <1>5, LoanReplaced
<1>7. UNCHANGED <<s1, s3, s4, s7, s8, s9, s10, s11, s12, s13>>
  BY DEF Lending!FundLoan, Lending!poolVars, Lending!saleVars
<1>8. s5' \in [Lending(c)!Parties -> Nat] /\ s6' \in [Lending(c)!Parties -> Nat]
  <2>1. s5 \in [Lending(c)!Parties -> Nat] /\ s6 \in [Lending(c)!Parties -> Nat]
    BY DEF LendingInv, LoansTyped
  <2>2. s5' = [s5 EXCEPT ![s2[i].borrower] = @ + 1] /\ s6' = [s6 EXCEPT ![u] = @ + 1]
    BY DEF Lending!FundLoan
  <2> QED BY <2>1, <2>2, CountedUp
<1>9. LoansTyped(c)'
  BY <1>6, <1>7, <1>8 DEF LendingInv, LoansTyped
<1>s. SaleTyped(c)' /\ WorldTyped(c)'
  <2>1. SaleTyped(c)'
    BY <1>6, <1>7, <1>9, SalesKept
  <2>2. WorldTyped(c)'
    BY <1>6, <1>7, <1>9, WorldKept
  <2> QED BY <2>1, <2>2
<1>r. LentTyped(c)' /\ Lending(c)!PoolCoversLoans'
  BY <1>6, <1>7, <1>9, PoolsKept
<1> QED BY <1>6, <1>7, <1>9, <1>s, <1>r DEF LendingInv

\* A loan is repaid or liquidated: its mark, the registry's count, and the two portfolios.
LEMMA ClosedLoan ==
    ASSUME NEW c, Lending(c)!LendingAssumption,
           LendingInv(c), NEW i \in DOMAIN s2,
           Lending(c)!MarkRepaid(i) \/ Lending(c)!MarkLiquidated(i),
           s1' \in [c.Nfts -> Lending(c)!Parties], s3' = s3,
           s5' = [s5 EXCEPT ![s2[i].borrower] = Lending(c)!Minus(@, 1)],
           s6' = s6 \/ s6' = [s6 EXCEPT ![s2[i].lender] = Lending(c)!Minus(@, 1)]
    PROVE  LoansTyped(c)' /\ Len(s2') \in Nat /\ Len(s2') >= Len(s2)
<1>1. s2 \in Seq(Debt(c)) /\ Len(s2) <= c.MaxLoans /\ s4 \in Nat
  BY DEF LendingInv, LoansTyped
<1>2. s2' \in Seq(Debt(c)) /\ Len(s2') = Len(s2)
  <2> HIDE DEF Debt
  <2>1. CASE Lending(c)!MarkRepaid(i)
    <3>1. s2' = [s2 EXCEPT ![i].repaid = TRUE, ![i].active = FALSE]
      BY <2>1 DEF Lending!MarkRepaid
    <3> QED BY <1>1, <3>1, MarkedLoans
  <2>2. CASE Lending(c)!MarkLiquidated(i)
    <3>1. s2' = [s2 EXCEPT ![i].liquidated = TRUE, ![i].active = FALSE]
      BY <2>2 DEF Lending!MarkLiquidated
    <3> QED BY <1>1, <3>1, MarkedLoans
  <2> QED BY <2>1, <2>2
<1>3. s4' \in Nat
  BY <1>1, SlackIsNat DEF Lending!MarkRepaid, Lending!MarkLiquidated
<1>4. s5' \in [Lending(c)!Parties -> Nat]
  BY CountedDown DEF LendingInv, LoansTyped
<1>5. s6' \in [Lending(c)!Parties -> Nat]
  <2>1. s6 \in [Lending(c)!Parties -> Nat]
    BY DEF LendingInv, LoansTyped
  <2>2. [s6 EXCEPT ![s2[i].lender] = Lending(c)!Minus(@, 1)] \in [Lending(c)!Parties -> Nat]
    BY <2>1, CountedDown
  <2> QED BY <2>1, <2>2
<1>6. s3' \in [c.Nfts -> 0..c.MaxLoans]
  BY DEF LendingInv, LoansTyped
<1> HIDE DEF Debt
<1> QED BY <1>1, <1>2, <1>3, <1>4, <1>5, <1>6 DEF LoansTyped

LEMMA RepayLoanGoesOn ==
    ASSUME NEW c, Lending(c)!LendingAssumption,
           LendingInv(c), NEW u \in c.Users, NEW i \in DOMAIN s2, NEW paid,
           Lending(c)!RepayLoan(u, i, paid)
    PROVE  LendingInv(c)'
<1>1. UNCHANGED <<s1, s3, s7, s8, s9, s10, s11, s12, s13>>
  BY DEF Lending!RepayLoan, Lending!poolVars, Lending!saleVars
<1>2. /\ Lending(c)!MarkRepaid(i) /\ s2[i].borrower = u
      /\ s5' = [s5 EXCEPT ![s2[i].borrower] = Lending(c)!Minus(@, 1)]
      /\ s6' = [s6 EXCEPT ![s2[i].lender] = Lending(c)!Minus(@, 1)]
  BY DEF Lending!RepayLoan, Lending!Closed
<1>3. s1' \in [c.Nfts -> Lending(c)!Parties]
  BY <1>1 DEF LendingInv, LoansTyped
<1>4. LoansTyped(c)' /\ Len(s2') \in Nat /\ Len(s2') >= Len(s2)
  BY <1>1, <1>2, <1>3, ClosedLoan
<1>s. SaleTyped(c)' /\ WorldTyped(c)'
  <2>1. SaleTyped(c)'
    BY <1>1, <1>4, SalesKept
  <2>2. WorldTyped(c)'
    BY <1>1, <1>4, WorldKept
  <2> QED BY <2>1, <2>2
<1>r. LentTyped(c)' /\ Lending(c)!PoolCoversLoans'
  BY <1>1, <1>4, PoolsKept
<1> QED BY <1>1, <1>4, <1>s, <1>r DEF LendingInv

LEMMA LiquidateLoanGoesOn ==
    ASSUME NEW c, Lending(c)!LendingAssumption,
           LendingInv(c), NEW i \in DOMAIN s2, Lending(c)!LiquidateLoan(i)
    PROVE  LendingInv(c)'
<1>1. UNCHANGED <<s3, s7, s8, s9, s10, s11, s12, s13>>
  BY DEF Lending!LiquidateLoan, Lending!poolVars, Lending!saleVars
<1>2. /\ Lending(c)!MarkLiquidated(i)
      /\ s5' = [s5 EXCEPT ![s2[i].borrower] = Lending(c)!Minus(@, 1)]
      /\ s6' = [s6 EXCEPT ![s2[i].lender] = Lending(c)!Minus(@, 1)]
  BY DEF Lending!LiquidateLoan, Lending!Closed
<1>3. s1' \in [c.Nfts -> Lending(c)!Parties]
  <2>1. s1' = [s1 EXCEPT ![s2[i].nft] = s2[i].lender]
    BY DEF Lending!LiquidateLoan
  <2>2. s2[i].lender \in Lending(c)!Parties
    BY ALoan, DebtFields
  <2> QED BY <2>1, <2>2 DEF LendingInv, LoansTyped
<1>4. LoansTyped(c)' /\ Len(s2') \in Nat /\ Len(s2') >= Len(s2)
  BY <1>1, <1>2, <1>3, ClosedLoan
<1>s. SaleTyped(c)' /\ WorldTyped(c)'
  <2>1. SaleTyped(c)'
    BY <1>1, <1>4, SalesKept
  <2>2. WorldTyped(c)'
    BY <1>1, <1>4, WorldKept
  <2> QED BY <2>1, <2>2
<1>r. LentTyped(c)' /\ Lending(c)!PoolCoversLoans'
  BY <1>1, <1>4, PoolsKept
<1> QED BY <1>1, <1>4, <1>s, <1>r DEF LendingInv

\* One pool changes, to one that still covers what it lent.
LEMMA PoolChanged ==
    ASSUME NEW c, Lending(c)!LendingAssumption,
           LendingInv(c), NEW p \in DOMAIN s7, NEW pool \in Lending(c)!LendingPool,
           s7' = [s7 EXCEPT ![p] = pool], Lending(c)!Liquidity(pool) >= 0,
           s8' \in [c.Pools \X c.Users -> Nat]
    PROVE  LentTyped(c)' /\ Lending(c)!PoolCoversLoans'
<1>1. /\ DOMAIN s7' = DOMAIN s7 /\ s7'[p] = pool
      /\ \A q \in DOMAIN s7 : q # p => s7'[q] = s7[q]
  OBVIOUS
<1>2. /\ DOMAIN s7 \subseteq c.Pools
      /\ \A q \in DOMAIN s7 : s7[q] \in Lending(c)!LendingPool /\ Lending(c)!Liquidity(s7[q]) >= 0
  BY DEF LendingInv, LentTyped, Lending!PoolCoversLoans
<1>3. \A q \in DOMAIN s7' : s7'[q] \in Lending(c)!LendingPool /\ Lending(c)!Liquidity(s7'[q]) >= 0
  BY <1>1, <1>2
<1> QED BY <1>1, <1>2, <1>3 DEF LentTyped, Lending!PoolCoversLoans

\* A pool, its numbers and what it can lend.
LEMMA APool ==
    ASSUME NEW c, Lending(c)!LendingAssumption,
           LendingInv(c), NEW p \in DOMAIN s7
    PROVE  /\ s7[p] \in Lending(c)!LendingPool /\ p \in c.Pools
           /\ s7[p].deposited \in Int /\ s7[p].borrowed \in Int
           /\ s7[p].deposited - s7[p].borrowed >= 0
<1>1. s7[p] \in Lending(c)!LendingPool /\ Lending(c)!Liquidity(s7[p]) >= 0 /\ p \in c.Pools
  BY DEF LendingInv, LentTyped, Lending!PoolCoversLoans
<1> QED BY <1>1 DEF Lending!LendingPool, Lending!Liquidity

\* A pool's record.
LEMMA PoolOf ==
    ASSUME NEW c, Lending(c)!LendingAssumption,
           NEW d \in Int, NEW b \in Int, d - b >= 0
    PROVE  /\ [deposited |-> d, borrowed |-> b] \in Lending(c)!LendingPool
           /\ Lending(c)!Liquidity([deposited |-> d, borrowed |-> b]) >= 0
BY DEF Lending!LendingPool, Lending!Liquidity

\* A pool with other totals.
LEMMA PoolSet ==
    ASSUME NEW pool \in [deposited : Int, borrowed : Int], NEW d, NEW b
    PROVE  /\ [pool EXCEPT !.deposited = d] = [deposited |-> d, borrowed |-> pool.borrowed]
           /\ [pool EXCEPT !.borrowed = b] = [deposited |-> pool.deposited, borrowed |-> b]
<1>1. [pool EXCEPT !.deposited = d] = [deposited |-> d, borrowed |-> pool.borrowed]
  OBVIOUS
<1>2. [pool EXCEPT !.borrowed = b] = [deposited |-> pool.deposited, borrowed |-> b]
  OBVIOUS
<1> QED BY <1>1, <1>2

LEMMA CreatePoolGoesOn ==
    ASSUME NEW c, Lending(c)!LendingAssumption,
           LendingInv(c), NEW p \in c.Pools, Lending(c)!CreateLendingPool(p)
    PROVE  LendingInv(c)'
<1> DEFINE pool == [deposited |-> 0, borrowed |-> 0]
<1>1. UNCHANGED <<s1, s2, s3, s4, s5, s6, s8, s9, s10, s11, s12, s13>>
  BY DEF Lending!CreateLendingPool, Lending!loanVars, Lending!saleVars
<1>2. pool \in Lending(c)!LendingPool /\ Lending(c)!Liquidity(pool) >= 0
  BY PoolOf
<1> HIDE DEF pool
<1>3. s7' = [q \in DOMAIN s7 \cup {p} |-> IF q = p THEN pool ELSE s7[q]]
  BY DEF Lending!CreateLendingPool, pool
<1>4. \A q \in DOMAIN s7' :
          q \in c.Pools /\ s7'[q] \in Lending(c)!LendingPool /\ Lending(c)!Liquidity(s7'[q]) >= 0
  BY <1>2, <1>3 DEF LendingInv, LentTyped, Lending!PoolCoversLoans
<1>5. LentTyped(c)' /\ Lending(c)!PoolCoversLoans'
  BY <1>1, <1>4 DEF LendingInv, LentTyped, Lending!PoolCoversLoans
<1>s. SaleTyped(c)' /\ WorldTyped(c)'
  <2>1. SaleTyped(c)'
    BY <1>1, <1>5, LengthKept, SalesKept
  <2>2. WorldTyped(c)'
    BY <1>1, <1>5, LengthKept, WorldKept
  <2> QED BY <2>1, <2>2
<1>r. LoansTyped(c)'
  BY <1>1, <1>5, LoansKept
<1> QED BY <1>1, <1>5, <1>s, <1>r DEF LendingInv

LEMMA DepositGoesOn ==
    ASSUME NEW c, Lending(c)!LendingAssumption,
           LendingInv(c), NEW u \in c.Users, NEW p \in DOMAIN s7,
           NEW amount \in c.Amounts,
           \/ Lending(c)!DepositToLendingPool(u, p, amount)
           \/ Lending(c)!WithdrawFromLendingPool(u, p, amount)
    PROVE  LendingInv(c)'
<1> DEFINE more == [deposited |-> s7[p].deposited + amount, borrowed |-> s7[p].borrowed]
           less == [deposited |-> s7[p].deposited - amount, borrowed |-> s7[p].borrowed]
<1>1. UNCHANGED <<s1, s2, s3, s4, s5, s6, s9, s10, s11, s12, s13>>
  BY DEF Lending!DepositToLendingPool, Lending!WithdrawFromLendingPool,
         Lending!loanVars, Lending!saleVars
<1>2. /\ s7[p] \in [deposited : Int, borrowed : Int] /\ p \in c.Pools
      /\ s7[p].deposited \in Int /\ s7[p].borrowed \in Int /\ amount \in Nat
      /\ s7[p].deposited - s7[p].borrowed >= 0
      /\ s8 \in [c.Pools \X c.Users -> Nat]
  BY APool, LendingNumbers DEF Lending!LendingPool, LendingInv, LentTyped
<1>3. CASE Lending(c)!DepositToLendingPool(u, p, amount)
  <2>1. s7' = [s7 EXCEPT ![p] = more]
    <3>1. s7' = [s7 EXCEPT ![p] = [s7[p] EXCEPT !.deposited = s7[p].deposited + amount]]
      BY <1>3 DEF Lending!DepositToLendingPool
    <3> QED BY <1>2, <3>1, PoolSet
  <2>2. more \in Lending(c)!LendingPool /\ Lending(c)!Liquidity(more) >= 0
    <3>1. s7[p].deposited + amount - s7[p].borrowed >= 0 /\ s7[p].deposited + amount \in Int
      BY <1>2
    <3> QED BY <1>2, <3>1, PoolOf
  <2> HIDE DEF more
  <2>3. s8' \in [c.Pools \X c.Users -> Nat]
    <3>1. s8' = [s8 EXCEPT ![<<p, u>>] = @ + amount]
      BY <1>3 DEF Lending!DepositToLendingPool
    <3>2. <<p, u>> \in c.Pools \X c.Users
      BY <1>2
    <3>3. s8[<<p, u>>] + amount \in Nat
      BY <1>2, <3>2
    <3> QED BY <1>2, <3>1, <3>2, <3>3
  <2>4. LentTyped(c)' /\ Lending(c)!PoolCoversLoans'
    BY <2>1, <2>2, <2>3, PoolChanged
  <2>5. SaleTyped(c)' /\ WorldTyped(c)'
    BY <1>1, LengthKept, SalesKept, WorldKept
  <2>6. LoansTyped(c)'
    BY <1>1, LoansKept
  <2> QED BY <2>4, <2>5, <2>6 DEF LendingInv
<1>4. CASE Lending(c)!WithdrawFromLendingPool(u, p, amount)
  <2>1. s7' = [s7 EXCEPT ![p] = less]
    <3>1. s7' = [s7 EXCEPT ![p] = [s7[p] EXCEPT !.deposited = s7[p].deposited - amount]]
      BY <1>4 DEF Lending!WithdrawFromLendingPool
    <3> QED BY <1>2, <3>1, PoolSet
  <2>2. less \in Lending(c)!LendingPool /\ Lending(c)!Liquidity(less) >= 0
    <3>1. amount <= s7[p].deposited - s7[p].borrowed
      BY <1>4 DEF Lending!WithdrawFromLendingPool, Lending!Liquidity
    <3>2. s7[p].deposited - amount - s7[p].borrowed >= 0 /\ s7[p].deposited - amount \in Int
      BY <1>2, <3>1
    <3> QED BY <1>2, <3>2, PoolOf
  <2> HIDE DEF less
  <2>3. s8' \in [c.Pools \X c.Users -> Nat]
    <3>1. s8' = [s8 EXCEPT ![<<p, u>>] = @ - amount] /\ amount <= s8[<<p, u>>]
      BY <1>4 DEF Lending!WithdrawFromLendingPool
    <3>2. <<p, u>> \in c.Pools \X c.Users
      BY <1>2
    <3>3. s8[<<p, u>>] - amount \in Nat
      BY <1>2, <3>1, <3>2
    <3> QED BY <1>2, <3>1, <3>2, <3>3
  <2>4. LentTyped(c)' /\ Lending(c)!PoolCoversLoans'
    BY <2>1, <2>2, <2>3, PoolChanged
  <2>5. SaleTyped(c)' /\ WorldTyped(c)'
    BY <1>1, LengthKept, SalesKept, WorldKept
  <2>6. LoansTyped(c)'
    BY <1>1, LoansKept
  <2> QED BY <2>4, <2>5, <2>6 DEF LendingInv
<1> QED BY <1>3, <1>4

LEMMA BorrowGoesOn ==
    ASSUME NEW c, Lending(c)!LendingAssumption,
           LendingInv(c), NEW u \in c.Users, NEW p \in DOMAIN s7, NEW n \in c.Nfts,
           NEW amount \in c.Amounts, NEW days \in c.Days,
           Lending(c)!BorrowFromLendingPool(u, p, n, amount, days)
    PROVE  LendingInv(c)'
<1> DEFINE rate == Lending(c)!DynamicRate(s7[p])
           back == amount + Lending(c)!DailyInterest(amount, rate) * days
           loan == [nft |-> n, borrower |-> u, lender |-> p,
                    amount |-> amount, rate |-> rate, repayment |-> back,
                    days |-> days, due |-> s13 + days,
                    active |-> TRUE, repaid |-> FALSE, liquidated |-> FALSE]
           pool == [deposited |-> s7[p].deposited, borrowed |-> s7[p].borrowed + amount]
<1>1. UNCHANGED <<s1, s6, s8, s9, s10, s11, s12, s13>>
  BY DEF Lending!BorrowFromLendingPool, Lending!saleVars
<1>2. /\ s7[p] \in [deposited : Int, borrowed : Int] /\ p \in c.Pools
      /\ s7[p].deposited \in Int /\ s7[p].borrowed \in Int
      /\ s7[p].deposited - s7[p].borrowed >= 0
  BY APool DEF Lending!LendingPool
<1>3. /\ amount \in Nat /\ days \in Nat /\ s13 \in Nat
      /\ s8 \in [c.Pools \X c.Users -> Nat]
  BY LendingNumbers DEF LendingInv, LentTyped, WorldTyped
<1>4. /\ amount <= s7[p].deposited - s7[p].borrowed
      /\ s7[p].deposited = 0 \/ s7[p].borrowed >= 0
  BY DEF Lending!BorrowFromLendingPool, Lending!Liquidity
<1>5. rate \in Nat
  <2>1. s7[p].deposited \in Nat
    BY <1>2, <1>4
  <2>2. s7[p] \in [deposited : Nat, borrowed : Int]
    BY <1>2, <2>1
  <2> QED BY <1>4, <2>2, RateIsNat
<1>6. Lending(c)!Recorded(loan)
  BY DEF Lending!BorrowFromLendingPool
<1>7. s7' = [s7 EXCEPT ![p] = pool]
  <2>1. s7' = [s7 EXCEPT ![p] = [s7[p] EXCEPT !.borrowed = s7[p].borrowed + amount]]
    BY DEF Lending!BorrowFromLendingPool
  <2> QED BY <1>2, <2>1, PoolSet
<1>8. s5' = [s5 EXCEPT ![u] = @ + 1]
  BY DEF Lending!BorrowFromLendingPool
<1> HIDE DEF rate
<1>9. back \in Nat
  <2>1. Lending(c)!DailyInterest(amount, rate) \in Nat
    BY <1>3, <1>5, InterestIsNat
  <2>2. Lending(c)!DailyInterest(amount, rate) * days \in Nat
    BY <1>3, <2>1, ProductIsNat
  <2> QED BY <1>3, <2>2
<1> HIDE DEF back
<1>10. loan \in Debt(c)
  BY <1>2, <1>3, <1>5, <1>9 DEF Debt, Lending!NFTLoan, Lending!Parties
<1> HIDE DEF loan
<1>11. pool \in Lending(c)!LendingPool /\ Lending(c)!Liquidity(pool) >= 0
  <2>1. s7[p].borrowed + amount \in Int
        /\ s7[p].deposited - (s7[p].borrowed + amount) >= 0
    BY <1>2, <1>3, <1>4
  <2> QED BY <1>2, <2>1, PoolOf
<1> HIDE DEF pool
<1>12. LentTyped(c)' /\ Lending(c)!PoolCoversLoans'
  <2>1. s8' \in [c.Pools \X c.Users -> Nat]
    BY <1>1, <1>3
  <2> QED BY <1>7, <1>11, <2>1, PoolChanged
<1>13. LoansTyped(c)' /\ Len(s2') \in Nat /\ Len(s2') >= Len(s2)
  <2>1. s5' \in [Lending(c)!Parties -> Nat] /\ s6' \in [Lending(c)!Parties -> Nat]
    BY <1>1, <1>8, CountedUp DEF LendingInv, LoansTyped
  <2> QED BY <1>1, <1>6, <1>10, <2>1, RecordedLoan
<1>s. SaleTyped(c)' /\ WorldTyped(c)'
  <2>1. SaleTyped(c)'
    BY <1>1, <1>12, <1>13, SalesKept
  <2>2. WorldTyped(c)'
    BY <1>1, <1>12, <1>13, WorldKept
  <2> QED BY <2>1, <2>2
<1> QED BY <1>1, <1>12, <1>13, <1>s DEF LendingInv

LEMMA RepayPoolGoesOn ==
    ASSUME NEW c, Lending(c)!LendingAssumption,
           LendingInv(c), NEW u \in c.Users, NEW p \in DOMAIN s7, NEW i \in DOMAIN s2,
           NEW paid \in Nat, Lending(c)!RepayLendingPoolLoan(u, p, i, paid)
    PROVE  LendingInv(c)'
<1> DEFINE d == s7[p].deposited + paid - s2[i].amount
           b == s7[p].borrowed - s2[i].amount
           pool == [deposited |-> d, borrowed |-> b]
<1>1. UNCHANGED <<s1, s3, s8, s9, s10, s11, s12, s13>>
  BY DEF Lending!RepayLendingPoolLoan, Lending!saleVars
<1>2. /\ s7[p] \in [deposited : Int, borrowed : Int] /\ p \in c.Pools
      /\ s7[p].deposited \in Int /\ s7[p].borrowed \in Int
      /\ s7[p].deposited - s7[p].borrowed >= 0
      /\ s8 \in [c.Pools \X c.Users -> Nat]
  BY APool DEF Lending!LendingPool, LendingInv, LentTyped
<1>3. s2[i].amount \in Nat
  BY ALoan, DebtFields
<1>4. s7' = [s7 EXCEPT ![p] = pool]
  BY DEF Lending!RepayLendingPoolLoan
<1>5. pool \in Lending(c)!LendingPool /\ Lending(c)!Liquidity(pool) >= 0
  <2>1. d \in Int /\ b \in Int /\ d - b >= 0
    BY <1>2, <1>3
  <2> HIDE DEF d, b
  <2> QED BY <2>1, PoolOf
<1> HIDE DEF pool
<1>6. LentTyped(c)' /\ Lending(c)!PoolCoversLoans'
  <2>1. s8' \in [c.Pools \X c.Users -> Nat]
    BY <1>1, <1>2
  <2> QED BY <1>4, <1>5, <2>1, PoolChanged
<1>7. /\ Lending(c)!MarkRepaid(i) /\ s2[i].borrower = u
      /\ s5' = [s5 EXCEPT ![s2[i].borrower] = Lending(c)!Minus(@, 1)]
      /\ s6' = [s6 EXCEPT ![s2[i].lender] = Lending(c)!Minus(@, 1)]
  BY DEF Lending!RepayLendingPoolLoan, Lending!Closed
<1>8. s1' \in [c.Nfts -> Lending(c)!Parties]
  BY <1>1 DEF LendingInv, LoansTyped
<1>9. LoansTyped(c)' /\ Len(s2') \in Nat /\ Len(s2') >= Len(s2)
  BY <1>1, <1>7, <1>8, ClosedLoan
<1>s. SaleTyped(c)' /\ WorldTyped(c)'
  <2>1. SaleTyped(c)'
    BY <1>1, <1>6, <1>9, SalesKept
  <2>2. WorldTyped(c)'
    BY <1>1, <1>6, <1>9, WorldKept
  <2> QED BY <2>1, <2>2
<1> QED BY <1>1, <1>6, <1>9, <1>s DEF LendingInv

LEMMA LiquidateShortGoesOn ==
    ASSUME NEW c, Lending(c)!LendingAssumption,
           LendingInv(c), NEW u \in c.Users, NEW i \in DOMAIN s2,
           Lending(c)!LiquidateUndercollateralizedLoan(u, i)
    PROVE  LendingInv(c)'
<1>1. UNCHANGED <<s3, s6, s8, s9, s10, s11, s12, s13>>
  BY DEF Lending!LiquidateUndercollateralizedLoan, Lending!saleVars
<1>2. s2[i].amount \in Nat
  BY ALoan, DebtFields
<1>3. s7' = [p \in DOMAIN s7 |->
            IF p = s2[i].lender
            THEN [s7[p] EXCEPT !.borrowed = @ - s2[i].amount] ELSE s7[p]]
  BY DEF Lending!LiquidateUndercollateralizedLoan
<1>4. ASSUME NEW p \in DOMAIN s7
      PROVE  /\ s7'[p] \in Lending(c)!LendingPool /\ Lending(c)!Liquidity(s7'[p]) >= 0
  <2>1. /\ s7[p] \in [deposited : Int, borrowed : Int]
        /\ s7[p].deposited \in Int /\ s7[p].borrowed \in Int
        /\ s7[p].deposited - s7[p].borrowed >= 0
    BY APool DEF Lending!LendingPool
  <2>2. CASE p = s2[i].lender
    <3> DEFINE pool == [deposited |-> s7[p].deposited, borrowed |-> s7[p].borrowed - s2[i].amount]
    <3>1. s7'[p] = pool
      BY <1>3, <2>1, <2>2
    <3>2. /\ s7[p].borrowed - s2[i].amount \in Int
          /\ s7[p].deposited - (s7[p].borrowed - s2[i].amount) >= 0
      BY <1>2, <2>1
    <3>3. pool \in Lending(c)!LendingPool /\ Lending(c)!Liquidity(pool) >= 0
      BY <2>1, <3>2, PoolOf
    <3> QED BY <3>1, <3>3
  <2>3. CASE p # s2[i].lender
    <3>1. s7'[p] = s7[p]
      BY <1>3, <2>3
    <3> QED BY <2>1, <3>1 DEF Lending!LendingPool, Lending!Liquidity
  <2> QED BY <2>2, <2>3
<1>5. LentTyped(c)' /\ Lending(c)!PoolCoversLoans'
  <2>1. DOMAIN s7' = DOMAIN s7
    BY <1>3
  <2> QED BY <1>1, <1>4, <2>1 DEF LendingInv, LentTyped, Lending!PoolCoversLoans
<1>6. /\ Lending(c)!MarkLiquidated(i)
      /\ s5' = [s5 EXCEPT ![s2[i].borrower] = Lending(c)!Minus(@, 1)]
  BY DEF Lending!LiquidateUndercollateralizedLoan
<1>7. s1' \in [c.Nfts -> Lending(c)!Parties]
  <2>1. s1' = [s1 EXCEPT ![s2[i].nft] = u] /\ u \in Lending(c)!Parties
    BY DEF Lending!LiquidateUndercollateralizedLoan, Lending!Parties
  <2> QED BY <2>1 DEF LendingInv, LoansTyped
<1>8. LoansTyped(c)' /\ Len(s2') \in Nat /\ Len(s2') >= Len(s2)
  BY <1>1, <1>6, <1>7, ClosedLoan
<1>s. SaleTyped(c)' /\ WorldTyped(c)'
  <2>1. SaleTyped(c)'
    BY <1>1, <1>5, <1>8, SalesKept
  <2>2. WorldTyped(c)'
    BY <1>1, <1>5, <1>8, WorldKept
  <2> QED BY <2>1, <2>2
<1> QED BY <1>1, <1>5, <1>8, <1>s DEF LendingInv

\* The queue grows by one loan that is not in it, or stays.
LEMMA EnqueueGoesOn ==
    ASSUME NEW c, Lending(c)!LendingAssumption,
           LendingInv(c), NEW i \in DOMAIN s2, Lending(c)!EnqueueLiquidation(i)
    PROVE  LendingInv(c)'
<1>1. UNCHANGED <<s1, s2, s3, s4, s5, s6, s7, s8, s9, s11, s12, s13>>
  BY DEF Lending!EnqueueLiquidation, Lending!loanVars, Lending!poolVars
<1>2. s10 \in Seq(1..Len(s2)) /\ i \in 1..Len(s2)
  BY ALoan DEF LendingInv, SaleTyped
<1>3. s10' = s10 \/ s10' = Append(s10, i)
  BY DEF Lending!EnqueueLiquidation
<1>4. s10' \in Seq(1..Len(s2))
  <2> DEFINE S == 1..Len(s2)
  <2>1. s10 \in Seq(S) /\ i \in S
    BY <1>2
  <2> HIDE DEF S
  <2>2. s10' \in Seq(S)
    BY <1>3, <2>1, AppendProperties
  <2> QED BY <2>2 DEF S
<1>5. SaleTyped(c)'
  BY <1>1, <1>4 DEF LendingInv, SaleTyped
<1>6. LoansTyped(c)'
  BY <1>1, LoansKept
<1>7. LentTyped(c)' /\ Lending(c)!PoolCoversLoans'
  BY <1>1, PoolsKept
<1>8. WorldTyped(c)'
  BY <1>1, WorldKept
<1> QED BY <1>5, <1>6, <1>7, <1>8 DEF LendingInv


\* The loans found short go to the end of the queue.
LEMMA MonitorGoesOn ==
    ASSUME NEW c, Lending(c)!LendingAssumption,
           LendingInv(c), Lending(c)!MonitorAndQueueLiquidations
    PROVE  LendingInv(c)'
<1> DEFINE n == Len(s2)
           Ids == 1..n
           Grow(k, q) ==
               IF /\ Lending(c)!Undercollateralized(s2[k]) /\ k \notin Lending(c)!Range(s10)
                  /\ Len(q) < c.QueueSize
               THEN Append(q, k) ELSE q
           IsFound(g) == g = [k \in 0..n |-> IF k = 0 THEN <<>> ELSE Grow(k, g[k - 1])]
           found == CHOOSE g : IsFound(g)
<1>1. UNCHANGED <<s1, s2, s3, s4, s5, s6, s7, s8, s9, s11, s12, s13>>
  BY DEF Lending!MonitorAndQueueLiquidations, Lending!loanVars, Lending!poolVars
<1>2. s10' = s10 \o found[n]
  BY DEF Lending!MonitorAndQueueLiquidations
<1>3. n \in Nat /\ s10 \in Seq(Ids)
  BY DEF LendingInv, SaleTyped, LoansTyped
<1> HIDE DEF n
<1>4. \A k \in 1..n, q \in Seq(Ids) : Grow(k, q) \in Seq(Ids)
  BY AppendProperties
<1>5. \E g : IsFound(g)
  <2> DEFINE f == [x \in Nat \X Seq(Ids) |-> IF x[1] \in 1..n THEN Grow(x[1], x[2]) ELSE x[2]]
  <2> HIDE DEF Grow, Ids
  <2>1. f \in [Nat \X Seq(Ids) -> Seq(Ids)] /\ <<>> \in Seq(Ids)
    BY <1>4
  <2>2. \A k \in 1..n, q \in Seq(Ids) : f[<<k, q>>] = Grow(k, q)
    BY <1>3
  <2> HIDE DEF f
  <2>3. PICK g : Recursion(g, Seq(Ids), <<>>, f, n)
    BY <1>3, <2>1, RecursionExists
  <2>4. ASSUME NEW k \in 0..n
        PROVE  g[k] = IF k = 0 THEN <<>> ELSE Grow(k, g[k - 1])
    <3>1. CASE k = 0
      BY <2>3, <3>1 DEF Recursion
    <3>2. CASE k # 0
      <4>1. k \in 1..n /\ k - 1 \in 0..n
        BY <1>3, <3>2
      <4> QED BY <2>2, <2>3, <3>2, <4>1 DEF Recursion
    <3> QED BY <3>1, <3>2
  <2>5. g = [k \in 0..n |-> IF k = 0 THEN <<>> ELSE Grow(k, g[k - 1])]
    BY <2>3, <2>4 DEF Recursion
  <2> QED BY <2>5
<1>6. IsFound(found)
  BY <1>5
<1> HIDE DEF found, Grow, Ids
<1>7. found[0] = <<>> /\ \A k \in 1..n : found[k] = Grow(k, found[k - 1])
  <2>1. 0 \in 0..n /\ \A k \in 1..n : k \in 0..n /\ k # 0
    BY <1>3
  <2> QED BY <1>6, <2>1
<1> HIDE DEF IsFound
<1>8. found[n] \in Seq(Ids)
  <2> DEFINE X == Seq(Ids)
  <2>1. found[0] \in X /\ \A k \in 1..n : found[k - 1] \in X => found[k] \in X
    BY <1>4, <1>7
  <2> HIDE DEF X
  <2>2. found[n] \in X
    BY <1>3, <2>1, RecursionStays
  <2> QED BY <2>2 DEF X
<1>9. s10' \in Seq(Ids)
  BY <1>2, <1>3, <1>8, ConcatProperties
<1>10. SaleTyped(c)'
  BY <1>1, <1>9 DEF LendingInv, SaleTyped, Ids, n
<1>11. LoansTyped(c)'
  BY <1>1, LoansKept
<1>12. LentTyped(c)' /\ Lending(c)!PoolCoversLoans'
  BY <1>1, PoolsKept
<1>13. WorldTyped(c)'
  BY <1>1, WorldKept
<1> QED BY <1>10, <1>11, <1>12, <1>13 DEF LendingInv

LEMMA BidGoesOn ==
    ASSUME NEW c, Lending(c)!LendingAssumption,
           LendingInv(c), NEW u \in c.Users, NEW i \in DOMAIN s2, NEW bid \in c.Bids,
           Lending(c)!PlaceLiquidationBid(u, i, bid)
    PROVE  LendingInv(c)'
<1>1. UNCHANGED <<s1, s2, s3, s4, s5, s6, s7, s8, s9, s10, s12, s13>>
  BY DEF Lending!PlaceLiquidationBid, Lending!loanVars, Lending!poolVars
<1>2. <<u, bid>> \in c.Users \X Nat
  BY LendingNumbers
<1>3. s11' = [s11 EXCEPT ![i] = <<u, bid>>]
  BY DEF Lending!PlaceLiquidationBid
<1>4. s11' \in [1..c.MaxLoans -> {<<>>} \cup (c.Users \X Nat)]
  <2> DEFINE B == {<<>>} \cup (c.Users \X Nat)
             e == <<u, bid>>
  <2>1. e \in B /\ s11 \in [1..c.MaxLoans -> B] /\ s11' = [s11 EXCEPT ![i] = e]
    BY <1>2, <1>3 DEF LendingInv, SaleTyped
  <2> HIDE DEF B, e
  <2>2. s11' \in [1..c.MaxLoans -> B]
    BY <2>1
  <2> QED BY <2>2 DEF B
<1>5. SaleTyped(c)'
  BY <1>1, <1>4 DEF LendingInv, SaleTyped
<1>6. LoansTyped(c)'
  BY <1>1, LoansKept
<1>7. LentTyped(c)' /\ Lending(c)!PoolCoversLoans'
  BY <1>1, PoolsKept
<1>8. WorldTyped(c)'
  BY <1>1, WorldKept
<1> QED BY <1>5, <1>6, <1>7, <1>8 DEF LendingInv

\* What a liquidation of the auction works on, with as many loans as there are.
Offers(c) == [1..c.MaxLoans -> {<<>>} \cup (c.Users \X Nat)]
Books(c) == [owner : [c.Nfts -> Lending(c)!Parties], loans : [1..Len(s2) -> Debt(c)],
          taken : [Lending(c)!Parties -> Nat], given : [Lending(c)!Parties -> Nat], bids : Offers(c)]

\* A liquidation leaves the books of their types.
LEMMA LiquidatedBooks ==
    ASSUME NEW c, Lending(c)!LendingAssumption,
           LendingInv(c), NEW s \in Books(c), NEW i \in 1..Len(s2)
    PROVE  Lending(c)!Liquidated(s, i) \in Books(c)
<1> DEFINE loan == s.loans[i]
           due == Lending(c)!TotalDue(loan)
           new == IF s.bids[i] # <<>> THEN s.bids[i][1] ELSE loan.lender
<1>1. /\ s.owner \in [c.Nfts -> Lending(c)!Parties] /\ s.loans \in [1..Len(s2) -> Debt(c)]
      /\ s.taken \in [Lending(c)!Parties -> Nat] /\ s.given \in [Lending(c)!Parties -> Nat]
      /\ s.bids \in Offers(c)
  BY DEF Books
<1>2. loan \in Debt(c)
  BY <1>1
<1>3. new \in Lending(c)!Parties
  <2>1. i \in 1..c.MaxLoans
    BY LendingNumbers DEF LendingInv, LoansTyped
  <2>2. s.bids[i] \in {<<>>} \cup (c.Users \X Nat)
    BY <1>1, <2>1 DEF Offers
  <2>3. loan.lender \in Lending(c)!Parties
    BY <1>2, DebtFields
  <2> QED BY <2>2, <2>3 DEF Lending!Parties
<1>4. CASE s9[loan.nft] # 0 /\ Lending(c)!Ltv(loan) <= c.PartialLtv
  <2> DEFINE left == due - due \div 2
             e == [loan EXCEPT !.repayment = left]
             q == [s.loans EXCEPT ![i] = e]
  <2>1. due \in Nat
    BY <1>2, DueIsNat
  <2> HIDE DEF due
  <2>2. left \in Nat
    BY <2>1
  <2> HIDE DEF left
  <2>3. e \in Debt(c)
    BY <1>2, <2>2 DEF Debt, Lending!NFTLoan
  <2>4. Lending(c)!Liquidated(s, i) = [s EXCEPT !.loans = q]
    BY <1>4 DEF Lending!Liquidated, left, due
  <2> HIDE DEF e
  <2>5. q \in [1..Len(s2) -> Debt(c)]
    BY <1>1, <2>3
  <2> HIDE DEF q
  <2> QED BY <2>4, <2>5 DEF Books
<1>5. CASE ~(s9[loan.nft] # 0 /\ Lending(c)!Ltv(loan) <= c.PartialLtv)
  <2> DEFINE e == [loan EXCEPT !.liquidated = TRUE, !.active = FALSE]
             own == [s.owner EXCEPT ![loan.nft] = new]
             q == [s.loans EXCEPT ![i].liquidated = TRUE, ![i].active = FALSE]
             tk == [s.taken EXCEPT ![loan.borrower] = Lending(c)!Minus(@, 1)]
             gv == [s.given EXCEPT ![loan.lender] = Lending(c)!Minus(@, 1)]
             bd == [s.bids EXCEPT ![i] = <<>>]
  <2>1. Lending(c)!Liquidated(s, i) =
            [owner |-> own, loans |-> q, taken |-> tk, given |-> gv, bids |-> bd]
    BY <1>5 DEF Lending!Liquidated
  <2>2. own \in [c.Nfts -> Lending(c)!Parties]
    BY <1>1, <1>3
  <2>3. q \in [1..Len(s2) -> Debt(c)]
    <3>1. e \in Debt(c)
      BY <1>2 DEF Debt, Lending!NFTLoan
    <3>2. q = [s.loans EXCEPT ![i] = e]
      BY <1>1
    <3> HIDE DEF e, q
    <3> QED BY <1>1, <3>1, <3>2
  <2>4. tk \in [Lending(c)!Parties -> Nat] /\ gv \in [Lending(c)!Parties -> Nat]
    BY <1>1, CountedDown
  <2>5. bd \in Offers(c)
    BY <1>1 DEF Offers
  <2> HIDE DEF own, q, tk, gv, bd
  <2> QED BY <2>1, <2>2, <2>3, <2>4, <2>5 DEF Books
<1> QED BY <1>4, <1>5

\* The books are in order, and they become others that are.
LEMMA TheBooks ==
    ASSUME NEW c, Lending(c)!LendingAssumption,
           LendingInv(c)
    PROVE  Lending(c)!Ledger \in Books(c) /\ Len(s2) \in Nat
BY DEF LendingInv, LoansTyped, SaleTyped, Lending!Ledger, Books, Offers


LEMMA BooksGoOn ==
    ASSUME NEW c, Lending(c)!LendingAssumption,
           LendingInv(c), NEW s \in Books(c), Lending(c)!Becomes(s), s10' \in Seq(1..Len(s2))
    PROVE  LendingInv(c)'
<1>1. UNCHANGED <<s3, s4, s7, s8, s9, s12, s13>>
  BY DEF Lending!Becomes, Lending!poolVars
<1>2. /\ s1' \in [c.Nfts -> Lending(c)!Parties] /\ s2' \in [1..Len(s2) -> Debt(c)]
      /\ s5' \in [Lending(c)!Parties -> Nat] /\ s6' \in [Lending(c)!Parties -> Nat]
      /\ s11' \in Offers(c)
  BY DEF Lending!Becomes, Books
<1>3. Len(s2) \in Nat /\ Len(s2) <= c.MaxLoans
  BY DEF LendingInv, LoansTyped
<1>4. s2' \in Seq(Debt(c)) /\ Len(s2') = Len(s2)
  <2> HIDE DEF Debt
  <2> QED BY <1>2, <1>3, FunctionIsSequence
<1>5. LoansTyped(c)'
  BY <1>1, <1>2, <1>3, <1>4 DEF LendingInv, LoansTyped
<1>6. SaleTyped(c)'
  BY <1>2, <1>4 DEF SaleTyped, Offers
<1>7. LentTyped(c)' /\ Lending(c)!PoolCoversLoans'
  BY <1>1, PoolsKept
<1>8. WorldTyped(c)'
  BY <1>1, WorldKept
<1> QED BY <1>5, <1>6, <1>7, <1>8 DEF LendingInv

LEMMA ExecuteLiquidationGoesOn ==
    ASSUME NEW c, Lending(c)!LendingAssumption,
           LendingInv(c), NEW i \in DOMAIN s2, Lending(c)!ExecuteLiquidation(i)
    PROVE  LendingInv(c)'
<1> DEFINE s == Lending(c)!Liquidated(Lending(c)!Ledger, i)
<1>1. s \in Books(c)
  BY ALoan, TheBooks, LiquidatedBooks
<1>2. Lending(c)!Becomes(s) /\ s10' = s10
  BY DEF Lending!ExecuteLiquidation
<1>3. s10' \in Seq(1..Len(s2))
  BY <1>2 DEF LendingInv, SaleTyped
<1> HIDE DEF s
<1> QED BY <1>1, <1>2, <1>3, BooksGoOn

\* What no liquidation of a loan that is short leads out of.
LiquidationsKeep(c, T) ==
    /\ T \subseteq Books(c) /\ Lending(c)!Ledger \in T
    /\ \A s \in T, i \in 1..Len(s2) :
           Lending(c)!Undercollateralized(s.loans[i]) => Lending(c)!Liquidated(s, i) \in T

\* The loans of the queue are liquidated one after the other, or keep their places.
LEMMA ProcessRuns ==
    ASSUME NEW c, Lending(c)!LendingAssumption,
           LendingInv(c), NEW most \in Nat, Lending(c)!ProcessLiquidationQueue(most),
           NEW T, LiquidationsKeep(c, T)
    PROVE  \E s \in T : Lending(c)!Becomes(s) /\ s10' \in Seq(1..Len(s2))
<1> DEFINE Ids == 1..Len(s2)
           n == Len(s10)
           X == [s : T, done : Nat, left : Seq(Ids)]
           a == [s |-> Lending(c)!Ledger, done |-> 0, left |-> <<>>]
           Move(acc, i) ==
               IF Lending(c)!Undercollateralized(acc.s.loans[i]) /\ acc.done < most
               THEN [s |-> Lending(c)!Liquidated(acc.s, i), done |-> acc.done + 1, left |-> acc.left]
               ELSE [acc EXCEPT !.left = Append(@, i)]
           IsRun(g) == g = [k \in 0..n |-> IF k = 0 THEN a ELSE Move(g[k - 1], s10[k])]
           after == CHOOSE g : IsRun(g)
<1>1. Lending(c)!Becomes(after[n].s) /\ s10' = after[n].left
  BY DEF Lending!ProcessLiquidationQueue
<1>2. n \in Nat /\ \A k \in 1..n : s10[k] \in Ids
  BY DEF LendingInv, SaleTyped
<1>3. a \in X
  <2>1. Lending(c)!Ledger \in T
    BY DEF LiquidationsKeep
  <2> QED BY <2>1
<1>4. ASSUME NEW acc \in X, NEW i \in Ids PROVE Move(acc, i) \in X
  <2>1. acc.s \in T /\ acc.done \in Nat /\ acc.left \in Seq(Ids)
    BY <1>4
  <2>2. Lending(c)!Undercollateralized(acc.s.loans[i]) => Lending(c)!Liquidated(acc.s, i) \in T
    BY <1>4, <2>1 DEF LiquidationsKeep
  <2>3. Append(acc.left, i) \in Seq(Ids)
    <3> HIDE DEF Ids
    <3> QED BY <1>4, <2>1, AppendProperties
  <2> HIDE DEF Ids
  <2>4. Lending(c)!Undercollateralized(acc.s.loans[i])
            => [s |-> Lending(c)!Liquidated(acc.s, i), done |-> acc.done + 1, left |-> acc.left] \in X
    BY <1>4, <2>1, <2>2
  <2>5. [acc EXCEPT !.left = Append(@, i)] \in X
    BY <1>4, <2>1, <2>3
  <2> HIDE DEF X
  <2> QED BY <2>4, <2>5
<1> HIDE DEF n, X, a, Ids, Move
<1>5. \E g : IsRun(g)
  <2> DEFINE f == [x \in Nat \X X |-> IF x[1] \in 1..n THEN Move(x[2], s10[x[1]]) ELSE x[2]]
  <2>1. f \in [Nat \X X -> X]
    BY <1>2, <1>4
  <2>2. \A k \in 1..n, q \in X : f[<<k, q>>] = Move(q, s10[k])
    BY <1>2
  <2> HIDE DEF f
  <2>3. PICK g : Recursion(g, X, a, f, n)
    BY <1>2, <1>3, <2>1, RecursionExists
  <2>4. ASSUME NEW k \in 0..n
        PROVE  g[k] = IF k = 0 THEN a ELSE Move(g[k - 1], s10[k])
    <3>1. CASE k = 0
      BY <2>3, <3>1 DEF Recursion
    <3>2. CASE k # 0
      <4>1. k \in 1..n /\ k - 1 \in 0..n
        BY <1>2, <3>2
      <4> QED BY <2>2, <2>3, <3>2, <4>1 DEF Recursion
    <3> QED BY <3>1, <3>2
  <2>5. g = [k \in 0..n |-> IF k = 0 THEN a ELSE Move(g[k - 1], s10[k])]
    BY <2>3, <2>4 DEF Recursion
  <2> QED BY <2>5
<1>6. IsRun(after)
  BY <1>5
<1> HIDE DEF after
<1>7. after[0] = a /\ \A k \in 1..n : after[k] = Move(after[k - 1], s10[k])
  <2>1. 0 \in 0..n /\ \A k \in 1..n : k \in 0..n /\ k # 0
    BY <1>2
  <2> QED BY <1>6, <2>1
<1> HIDE DEF IsRun
<1>8. after[n] \in X
  <2>1. after[0] \in X /\ \A k \in 1..n : after[k - 1] \in X => after[k] \in X
    BY <1>2, <1>3, <1>4, <1>7
  <2> QED BY <1>2, <2>1, RecursionStays
<1>9. after[n].s \in T /\ after[n].left \in Seq(1..Len(s2))
  BY <1>8 DEF X, Ids
<1> QED BY <1>1, <1>9

LEMMA ProcessGoesOn ==
    ASSUME NEW c, Lending(c)!LendingAssumption,
           LendingInv(c), NEW most \in Nat, Lending(c)!ProcessLiquidationQueue(most)
    PROVE  LendingInv(c)'
<1>1. LiquidationsKeep(c, Books(c))
  BY TheBooks, LiquidatedBooks DEF LiquidationsKeep
<1>2. PICK s \in Books(c) : Lending(c)!Becomes(s) /\ s10' \in Seq(1..Len(s2))
  BY <1>1, ProcessRuns
<1> QED BY <1>2, BooksGoOn

\* The value of an NFT, the pause of the marketplace, and the time.
LEMMA WorldGoesOn ==
    ASSUME NEW c, Lending(c)!LendingAssumption,
           LendingInv(c),
           \/ \E n \in c.Nfts, v \in c.Values : Lending(c)!SetValue(n, v)
           \/ \E flag \in BOOLEAN : Lending(c)!SetPaused(flag)
           \/ Lending(c)!Tick
    PROVE  LendingInv(c)'
<1>1. UNCHANGED <<s1, s2, s3, s4, s5, s6, s7, s8, s10, s11>>
  BY DEF Lending!SetValue, Lending!SetPaused, Lending!Tick, Lending!loanVars,
         Lending!poolVars, Lending!saleVars
<1>2. s9 \in [c.Nfts -> Nat] /\ s12 \in BOOLEAN /\ s13 \in 0..c.MaxTime
  BY DEF LendingInv, WorldTyped
<1>3. WorldTyped(c)'
  <2>1. ASSUME NEW n \in c.Nfts, NEW v \in c.Values, Lending(c)!SetValue(n, v)
        PROVE  WorldTyped(c)'
    <3>1. s9' = [s9 EXCEPT ![n] = v] /\ s12' = s12 /\ s13' = s13 /\ v \in Nat
      BY <2>1, LendingNumbers DEF Lending!SetValue
    <3> QED BY <1>2, <3>1 DEF WorldTyped
  <2>2. ASSUME NEW flag \in BOOLEAN, Lending(c)!SetPaused(flag)
        PROVE  WorldTyped(c)'
    <3>1. s12' = flag /\ s9' = s9 /\ s13' = s13
      BY <2>2 DEF Lending!SetPaused
    <3> QED BY <1>2, <3>1 DEF WorldTyped
  <2>3. CASE Lending(c)!Tick
    <3>1. s9' = s9 /\ s12' = s12 /\ s13' = s13 + 1 /\ s13 < c.MaxTime
      BY <2>3 DEF Lending!Tick
    <3>2. s13' \in 0..c.MaxTime
      BY <1>2, <3>1, LendingNumbers
    <3> QED BY <1>2, <3>1, <3>2 DEF WorldTyped
  <2> QED BY <2>1, <2>2, <2>3
<1>4. SaleTyped(c)'
  BY <1>1, LengthKept, SalesKept
<1>5. LoansTyped(c)'
  BY <1>1, LoansKept
<1>6. LentTyped(c)' /\ Lending(c)!PoolCoversLoans'
  BY <1>1, PoolsKept
<1> QED BY <1>3, <1>4, <1>5, <1>6 DEF LendingInv

LEMMA PeerGoesOn ==
    ASSUME NEW c, Lending(c)!LendingAssumption,
           LendingInv(c), Lending(c)!PeerNext
    PROVE  LendingInv(c)'
<1>1. ASSUME NEW u \in c.Users, NEW i \in DOMAIN s2, Lending(c)!CancelLoanRequest(u, i)
      PROVE  LendingInv(c)'
  <2>1. UNCHANGED <<s1, s2, s3, s4, s5, s6, s7, s8, s9, s10, s11, s12, s13>>
    BY <1>1 DEF Lending!CancelLoanRequest, Lending!vars, Lending!loanVars, Lending!poolVars,
                Lending!saleVars
  <2> QED BY <2>1 DEF LendingInv, LoansTyped, LentTyped, SaleTyped, WorldTyped,
                      Lending!PoolCoversLoans
<1> QED BY <1>1, RequestLoanGoesOn, FundLoanGoesOn, RepayLoanGoesOn, LiquidateLoanGoesOn
        DEF Lending!PeerNext

LEMMA PoolGoesOn ==
    ASSUME NEW c, Lending(c)!LendingAssumption,
           LendingInv(c), Lending(c)!PoolNext
    PROVE  LendingInv(c)'
<1>1. ASSUME NEW p \in DOMAIN s7, NEW u \in c.Users, NEW i \in DOMAIN s2,
             Lending(c)!RepayLendingPoolLoan(u, p, i, Lending(c)!TotalDue(s2[i]))
      PROVE  LendingInv(c)'
  <2>1. Lending(c)!TotalDue(s2[i]) \in Nat
    BY ALoan, DueIsNat
  <2> QED BY <1>1, <2>1, RepayPoolGoesOn
<1> QED BY <1>1, CreatePoolGoesOn, DepositGoesOn, BorrowGoesOn DEF Lending!PoolNext

LEMMA SaleGoesOn ==
    ASSUME NEW c, Lending(c)!LendingAssumption,
           LendingInv(c), Lending(c)!SaleNext
    PROVE  LendingInv(c)'
<1>1. \A most \in 1..c.QueueSize : most \in Nat
  BY LendingNumbers
<1> QED BY <1>1, EnqueueGoesOn, ExecuteLiquidationGoesOn, LiquidateShortGoesOn, BidGoesOn,
           MonitorGoesOn, ProcessGoesOn DEF Lending!SaleNext

LEMMA LendingGoesOn ==
    ASSUME NEW c, Lending(c)!LendingAssumption,
           LendingInv(c), Lending(c)!Next
    PROVE  LendingInv(c)'
BY PeerGoesOn, PoolGoesOn, SaleGoesOn, WorldGoesOn DEF Lending!Next

\* PoolCoversLoans, for every set of users, NFTs and pools, and every rate, price and
\* amount: no order of deposits, loans, repayments into any pool, withdrawals and
\* liquidations lets a pool lend or pay out more than it holds.
THEOREM PoolCoversLoansAlways == CoreSpec => []PoolCoversLoans
<1> DEFINE Inv == part = "lending" => LendingInv(lending)
<1>a. Lending(lending)!LendingAssumption
  BY CoreAssumption
<1>1. CoreInit => Inv
  BY <1>a, PartBegins, LendingBegins DEF InLending
<1>2. Inv /\ [CoreNext]_vars => Inv'
  <2>1. ASSUME Inv, CoreNext PROVE Inv'
    BY <1>a, <2>1, PartGoesOn, LendingGoesOn DEF LendingStep
  <2>2. ASSUME Inv, UNCHANGED vars PROVE Inv'
    BY <2>2, NothingMoves DEF LendingInv, LoansTyped, LentTyped, SaleTyped, WorldTyped,
                              Lending!PoolCoversLoans
  <2> QED BY <2>1, <2>2
<1>3. Inv => PoolCoversLoans
  BY DEF LendingInv, PoolCoversLoans
<1> QED BY <1>1, <1>2, <1>3, PTL DEF CoreSpec

-----------------------------------------------------------------------------
(* The registry of pools.                                                  *)

\* What PoolsAssumption says of the constants of the pools.
LEMMA ExchangeConstants ==
    /\ IsFiniteSet(exchange.Users) /\ exchange.Verified \subseteq exchange.Users
    /\ exchange.Tokens \subseteq Nat /\ exchange.Admin \in exchange.Users
    /\ exchange.FeeUnit \in Nat \ {0} /\ exchange.FeeTiers \subseteq 0..exchange.FeeUnit
    /\ exchange.MinLpTokens \in Nat /\ exchange.Amounts \subseteq Nat
    /\ exchange.Seeds \subseteq [tokens : exchange.Tokens \X exchange.Tokens,
                                 amounts : Nat \X Nat, tier : exchange.FeeTiers]
    /\ exchange.HopLimits \subseteq Nat
    /\ exchange.MaxPools \in Nat /\ exchange.MaxReserve \in Nat /\ exchange.MaxFees \in Nat
<1>1. Registry!PoolAssumption
  BY CoreAssumption
<1>2. Registry!IsFiniteSet(exchange.Users)
  BY <1>1 DEF Registry!PoolAssumption
<1>3. IsFiniteSet(exchange.Users)
  BY <1>2 DEF Registry!IsFiniteSet, IsFiniteSet
<1> QED BY <1>1, <1>3 DEF Registry!PoolAssumption

LEMMA RegistrySum ==
    ASSUME NEW f, NEW S
    PROVE  Registry!SetTotal(f, S) = SetTotal(f, S)
<1>1. Registry!Cardinality(S) = Cardinality(S)
  BY DEF Registry!Cardinality, Cardinality
<1>2. Registry!Enumeration(S) = Enumeration(S)
  BY <1>1 DEF Registry!Enumeration, Enumeration
<1> QED BY <1>1, <1>2 DEF Registry!SetTotal, SetTotal, Registry!Total, Total, Registry!PartialSums, PartialSums

\* The loop of the square root, over n rounds.
SqrtRun(g, y) ==
    g = [n \in 0..y |->
            IF n = 0 THEN [z |-> y, x |-> y \div 2 + 1]
            ELSE IF g[n - 1].x < g[n - 1].z
                 THEN [z |-> g[n - 1].x, x |-> (y \div g[n - 1].x + g[n - 1].x) \div 2]
                 ELSE g[n - 1]]

Positive == Nat \ {0}
Guess == [z : Positive, x : Positive]

\* A round of the loop keeps both guesses positive.
LEMMA SqrtRound ==
    ASSUME NEW y \in Nat, y >= 4, NEW last \in Guess
    PROVE  [z |-> last.x, x |-> (y \div last.x + last.x) \div 2] \in Guess
<1>1. last.x \in Positive /\ last.z \in Positive
  BY DEF Guess
<1>2. y \div last.x \in Nat
  BY <1>1, RoundedDown DEF Positive
<1>3. y \div last.x + last.x >= 2
  <2>1. CASE last.x = 1
    <3>1. 1 * 1 <= y /\ last.x \in Nat \ {0}
      BY <2>1
    <3>2. 1 <= y \div 1
      BY <3>1, QuotientOrder
    <3> QED BY <2>1, <3>2, <1>2
  <2>2. CASE last.x # 1
    BY <1>1, <1>2, <2>2 DEF Positive
  <2> QED BY <2>1, <2>2
<1>4. (y \div last.x + last.x) \div 2 \in Positive
  <2>1. (y \div last.x + last.x) \in Nat
    BY <1>1, <1>2 DEF Positive
  <2> HIDE DEF Positive
  <2>2. 1 <= (y \div last.x + last.x) \div 2
    <3>1. 1 * 2 <= y \div last.x + last.x
      BY <1>3
    <3> QED BY <2>1, <3>1, QuotientOrder
  <2>3. (y \div last.x + last.x) \div 2 \in Nat
    BY <2>1, RoundedDown
  <2> QED BY <2>2, <2>3 DEF Positive
<1> QED BY <1>1, <1>4 DEF Guess

\* The square root of a positive number is positive.
LEMMA SqrtPositive ==
    ASSUME NEW y \in Nat, y > 0
    PROVE  Registry!Sqrt(y) \in Nat /\ Registry!Sqrt(y) > 0
<1>1. CASE y < 4
  <2>1. Registry!Sqrt(y) = Registry!Lesser(y, 1)
    BY <1>1 DEF Registry!Sqrt
  <2> QED BY <2>1 DEF Registry!Lesser
<1>2. CASE y >= 4
  <2> DEFINE r == CHOOSE g : SqrtRun(g, y)
             f == [p \in Nat \X Guess |->
                     IF p[2].x < p[2].z
                     THEN [z |-> p[2].x, x |-> (y \div p[2].x + p[2].x) \div 2]
                     ELSE p[2]]
             a == [z |-> y, x |-> y \div 2 + 1]
  <2>1. Registry!Sqrt(y) = r[y].z
    BY <1>2 DEF Registry!Sqrt, SqrtRun
  <2>2. a \in Guess
    <3>1. y \div 2 \in Nat
      BY RoundedDown
    <3> QED BY <1>2, <3>1 DEF Guess, Positive
  <2>3. f \in [Nat \X Guess -> Guess]
    <3>1. \A p \in Nat \X Guess : p[2] \in Guess
      OBVIOUS
    <3>2. \A p \in Nat \X Guess : [z |-> p[2].x, x |-> (y \div p[2].x + p[2].x) \div 2] \in Guess
      BY <1>2, <3>1, SqrtRound
    <3> QED BY <3>1, <3>2
  <2>4. \E g : SqrtRun(g, y)
    <3> HIDE DEF f, a
    <3>1. PICK g : Recursion(g, Guess, a, f, y)
      BY <2>2, <2>3, RecursionExists
    <3>2. g \in [0..y -> Guess] /\ g[0] = a /\ \A n \in 1..y : g[n] = f[<<n, g[n - 1]>>]
      BY <3>1 DEF Recursion
    <3>3. \A n \in 1..y : n - 1 \in 0..y /\ g[n - 1] \in Guess /\ <<n, g[n - 1]>> \in Nat \X Guess
      BY <3>2
    <3>4. \A n \in 1..y : g[n] = IF g[n - 1].x < g[n - 1].z
                     THEN [z |-> g[n - 1].x, x |-> (y \div g[n - 1].x + g[n - 1].x) \div 2]
                     ELSE g[n - 1]
      BY <3>2, <3>3 DEF f
    <3>5. \A n \in 0..y : n # 0 => n \in 1..y
      OBVIOUS
    <3>6. SqrtRun(g, y)
      BY <3>2, <3>4, <3>5 DEF SqrtRun, a
    <3> QED BY <3>6
  <2> HIDE DEF f, a, r
  <2>5. SqrtRun(r, y)
    BY <2>4 DEF r
  <2>6. r[0] = a
    BY <2>5 DEF SqrtRun, a
  <2>7. ASSUME NEW k \in 1..y, r[k - 1] \in Guess PROVE r[k] \in Guess
    <3>1. k \in 0..y /\ k # 0
      OBVIOUS
    <3>2. r[k] = IF r[k - 1].x < r[k - 1].z
                 THEN [z |-> r[k - 1].x, x |-> (y \div r[k - 1].x + r[k - 1].x) \div 2]
                 ELSE r[k - 1]
      BY <2>5, <3>1 DEF SqrtRun
    <3>3. [z |-> r[k - 1].x, x |-> (y \div r[k - 1].x + r[k - 1].x) \div 2] \in Guess
      BY <1>2, <2>7, SqrtRound
    <3> QED BY <2>7, <3>2, <3>3
  <2>8. r[y] \in Guess
    <3>1. r[0] \in Guess
      BY <2>2, <2>6
    <3> QED BY <2>7, <3>1, RecursionStays
  <2> QED BY <2>1, <2>8 DEF Guess, Positive
<1> QED BY <1>1, <1>2

Holdings == [(1..exchange.MaxPools) \X exchange.Users -> Nat]

\* The shares of pool i that providers hold.
Held(holdings, i) ==
    SetTotal([user \in exchange.Users |-> holdings[<<i, user>>]], exchange.Users)

\* A pool whose seed stays.
Sound(pool, held) ==
    /\ pool \in Registry!Pool /\ pool.tokens[1] # pool.tokens[2]
    /\ held < pool.total /\ pool.reserves[1] > 0 /\ pool.reserves[2] > 0

RegistryTyped ==
    /\ s1 \in Seq(Registry!Pool) /\ Len(s1) <= exchange.MaxPools
    /\ s2 \in Holdings
    /\ s3 \in Nat /\ s4 \in exchange.Users /\ s5 \in BOOLEAN

PoolsSound == \A i \in DOMAIN s1 : Sound(s1[i], Held(s2, i))

\* Nobody holds shares of a pool to come.
NoSharesAhead ==
    \A i \in 1..exchange.MaxPools, u \in exchange.Users : i > Len(s1) => s2[<<i, u>>] = 0

RegistryInv == RegistryTyped /\ PoolsSound /\ NoSharesAhead

\* What SharesKeepTheirWorth says of one pool.
Worthy(old, new) ==
    new.reserves[1] * new.reserves[2] * old.total * old.total
      >= old.reserves[1] * old.reserves[2] * new.total * new.total

\* What a step does: it keeps the invariant and the worth of every share.
RegistryGoes == RegistryInv' /\ Registry!SharesKeepTheirWorth

\* The shares held are counted, and no provider holds more.
LEMMA HeldCounts ==
    ASSUME NEW b \in Holdings, NEW i \in 1..exchange.MaxPools
    PROVE  Held(b, i) \in Nat /\ \A u \in exchange.Users : b[<<i, u>>] \in Nat /\ b[<<i, u>>] <= Held(b, i)
<1> DEFINE f == [user \in exchange.Users |-> b[<<i, user>>]]
<1>1. \A u \in exchange.Users : f[u] = b[<<i, u>>] /\ f[u] \in Nat
  BY DEF Holdings
<1>2. Held(b, i) = SetTotal(f, exchange.Users)
  BY DEF Held
<1> HIDE DEF f
<1>3. SetTotal(f, exchange.Users) \in Nat /\ \A u \in exchange.Users : f[u] <= SetTotal(f, exchange.Users)
  BY <1>1, ExchangeConstants, SetTotalDominates
<1> QED BY <1>1, <1>2, <1>3

\* The shares held follow the balance of one provider.
LEMMA HeldMoves ==
    ASSUME NEW b \in Holdings, NEW i \in 1..exchange.MaxPools, NEW u \in exchange.Users, NEW v \in Nat
    PROVE  LET c == [b EXCEPT ![<<i, u>>] = v]
           IN  /\ c \in Holdings /\ Held(c, i) = Held(b, i) + v - b[<<i, u>>]
               /\ \A j \in 1..exchange.MaxPools, w \in exchange.Users : j # i => c[<<j, w>>] = b[<<j, w>>]
<1> DEFINE c == [b EXCEPT ![<<i, u>>] = v]
           f == [user \in exchange.Users |-> b[<<i, user>>]]
           h == [user \in exchange.Users |-> c[<<i, user>>]]
<1>1. c \in Holdings
  BY DEF Holdings
<1>2. c[<<i, u>>] = v /\ \A w \in exchange.Users : w # u => c[<<i, w>>] = b[<<i, w>>]
  BY DEF Holdings
<1>3. \A j \in 1..exchange.MaxPools, w \in exchange.Users : j # i => c[<<j, w>>] = b[<<j, w>>]
  BY DEF Holdings
<1> HIDE DEF c
<1>4. \A x \in exchange.Users : f[x] \in Int /\ h[x] \in Int /\ (u # x => h[x] = f[x])
  BY <1>1, <1>2 DEF Holdings
<1>5. h[u] = v /\ f[u] = b[<<i, u>>]
  BY <1>2
<1>6. Held(b, i) = SetTotal(f, exchange.Users) /\ Held(c, i) = SetTotal(h, exchange.Users)
  BY DEF Held
<1> HIDE DEF f, h
<1>7. SetTotal(h, exchange.Users) = SetTotal(f, exchange.Users) + h[u] - f[u]
  BY <1>4, ExchangeConstants, SetTotalUpdate
<1> QED BY <1>1, <1>3, <1>5, <1>6, <1>7 DEF c

\* Equal balances, equal shares.
LEMMA HeldSame ==
    ASSUME NEW b \in Holdings, NEW c \in Holdings, NEW i \in 1..exchange.MaxPools,
           \A u \in exchange.Users : c[<<i, u>>] = b[<<i, u>>]
    PROVE  Held(c, i) = Held(b, i)
<1>1. [user \in exchange.Users |-> c[<<i, user>>]] = [user \in exchange.Users |-> b[<<i, user>>]]
  OBVIOUS
<1> QED BY <1>1 DEF Held

\* The ids of the pools.
LEMMA PoolIds ==
    ASSUME RegistryTyped, NEW i \in DOMAIN s1
    PROVE  i \in 1..exchange.MaxPools /\ i \in 1..Len(s1) /\ s1[i] \in Registry!Pool
BY ExchangeConstants, ItsEntries DEF RegistryTyped

\* A pool in its own type, number by number.
LEMMA PoolNumbers ==
    ASSUME NEW p \in Registry!Pool
    PROVE  /\ p.tokens \in exchange.Tokens \X exchange.Tokens /\ p.tier \in exchange.FeeTiers
           /\ p.total \in Nat
           /\ p.reserves \in [{1, 2} -> Nat] /\ p.reserves[1] \in Nat /\ p.reserves[2] \in Nat
           /\ p.fees \in [{1, 2} -> Nat] /\ p.fees[1] \in Nat /\ p.fees[2] \in Nat
BY DEF Registry!Pool, Registry!Sides

\* The reserves and shares that stay keep their worth.
LEMMA SameWorth ==
    ASSUME NEW p \in Registry!Pool, NEW q \in Registry!Pool,
           p.reserves = q.reserves, p.total = q.total
    PROVE  Worthy(p, q)
<1> DEFINE n == p.reserves[1] * p.reserves[2] * p.total * p.total
<1>1. n \in Nat
  BY PoolNumbers, ProductNat
<1>2. q.reserves[1] * q.reserves[2] * p.total * p.total = n
      /\ p.reserves[1] * p.reserves[2] * q.total * q.total = n
  OBVIOUS
<1> HIDE DEF n
<1> QED BY <1>1, <1>2 DEF Worthy

\* A step that puts p in the place of pool i.
LEMMA PoolChanges ==
    ASSUME RegistryInv, NEW i \in DOMAIN s1, NEW p,
           s1' = [s1 EXCEPT ![i] = p], s2' \in Holdings,
           \A j \in 1..exchange.MaxPools, u \in exchange.Users : j # i => s2'[<<j, u>>] = s2[<<j, u>>],
           Sound(p, Held(s2', i)), Worthy(s1[i], p), UNCHANGED <<s3, s4, s5>>
    PROVE  RegistryGoes
<1>1. RegistryTyped /\ PoolsSound /\ NoSharesAhead
  BY DEF RegistryInv
<1>2. i \in 1..exchange.MaxPools /\ i \in 1..Len(s1)
  BY <1>1, PoolIds
<1>3. s1' \in Seq(Registry!Pool) /\ Len(s1') = Len(s1) /\ DOMAIN s1' = DOMAIN s1
  <2>1. s1 \in Seq(Registry!Pool) /\ p \in Registry!Pool
    BY <1>1 DEF RegistryTyped, Sound
  <2> QED BY <1>2, <2>1, ExceptSeq
<1>4. s1'[i] = p /\ \A j \in DOMAIN s1 : j # i => s1'[j] = s1[j]
  BY <1>1 DEF RegistryTyped
<1>5. RegistryTyped'
  BY <1>1, <1>3 DEF RegistryTyped
<1>6. PoolsSound'
  <2> SUFFICES ASSUME NEW j \in DOMAIN s1 PROVE Sound(s1'[j], Held(s2', j))
    BY <1>3 DEF PoolsSound
  <2>1. CASE j = i
    BY <1>4, <2>1
  <2>2. CASE j # i
    <3>1. j \in 1..exchange.MaxPools /\ s2 \in Holdings
      BY <1>1, PoolIds DEF RegistryTyped
    <3>2. \A u \in exchange.Users : s2'[<<j, u>>] = s2[<<j, u>>]
      BY <2>2, <3>1
    <3>3. Held(s2', j) = Held(s2, j)
      BY <3>1, <3>2, HeldSame
    <3> QED BY <1>1, <1>4, <2>2, <3>3 DEF PoolsSound
  <2> QED BY <2>1, <2>2
<1>7. NoSharesAhead'
  <2> SUFFICES ASSUME NEW j \in 1..exchange.MaxPools, NEW u \in exchange.Users, j > Len(s1')
               PROVE  s2'[<<j, u>>] = 0
    BY DEF NoSharesAhead
  <2>1. j # i /\ j > Len(s1)
    BY <1>2, <1>3
  <2> QED BY <1>1, <2>1 DEF NoSharesAhead
<1>8. Registry!SharesKeepTheirWorth
  <2> SUFFICES ASSUME NEW j \in DOMAIN s1 PROVE Worthy(s1[j], s1'[j])
    BY DEF Registry!SharesKeepTheirWorth, Worthy
  <2>1. CASE j = i
    BY <1>4, <2>1
  <2>2. CASE j # i
    <3>1. s1'[j] = s1[j] /\ s1[j] \in Registry!Pool
      BY <1>1, <1>4, <2>2, PoolIds
    <3> QED BY <3>1, SameWorth
  <2> QED BY <2>1, <2>2
<1> QED BY <1>5, <1>6, <1>7, <1>8 DEF RegistryGoes, RegistryInv

LEMMA RegistryBegins ==
    ASSUME Registry!Init
    PROVE  RegistryInv
<1>1. s1 = <<>> /\ s2 = [entry \in (1..exchange.MaxPools) \X exchange.Users |-> 0]
      /\ s3 = 2 /\ s4 = exchange.Admin /\ s5 = FALSE
  BY DEF Registry!Init
<1>2. RegistryTyped
  <2>1. s1 \in Seq(Registry!Pool) /\ Len(s1) = 0
    BY <1>1
  <2>2. s2 \in Holdings
    BY <1>1 DEF Holdings
  <2>3. Len(s1) <= exchange.MaxPools
    BY <2>1, ExchangeConstants
  <2>4. s3 \in Nat /\ s4 \in exchange.Users
    BY <1>1, ExchangeConstants
  <2>5. s5 \in BOOLEAN
    BY <1>1
  <2> QED BY <2>1, <2>2, <2>3, <2>4, <2>5 DEF RegistryTyped
<1>3. PoolsSound /\ NoSharesAhead
  BY <1>1 DEF PoolsSound, NoSharesAhead
<1> QED BY <1>2, <1>3 DEF RegistryInv

\* A new pool has shares that nobody holds.
LEMMA RegisterPoolGoesOn ==
    ASSUME RegistryInv, NEW seed \in exchange.Seeds, Registry!RegisterPool(seed)
    PROVE  RegistryGoes
<1> DEFINE pair == Registry!Normalize(seed.tokens[1], seed.tokens[2])
           p == [tokens |-> pair,
                 reserves |-> [s \in {1, 2} |->
                    IF pair = seed.tokens THEN seed.amounts[s]
                    ELSE seed.amounts[Registry!Across(s)]],
                 total |-> Registry!SeedShares(seed.amounts),
                 tier |-> seed.tier, fees |-> [s \in {1, 2} |-> 0]]
<1>1. RegistryTyped /\ PoolsSound /\ NoSharesAhead
  BY DEF RegistryInv
<1>2. /\ Len(s1) < exchange.MaxPools /\ pair[1] # pair[2]
      /\ \A s \in {1, 2} : seed.amounts[s] > 0
      /\ s1' = Append(s1, p) /\ UNCHANGED <<s2, s3, s4, s5>>
  BY DEF Registry!RegisterPool, Registry!Sides
<1>3. /\ seed.tokens \in exchange.Tokens \X exchange.Tokens /\ seed.amounts \in Nat \X Nat
      /\ seed.tier \in exchange.FeeTiers
  BY ExchangeConstants
<1>4. pair \in exchange.Tokens \X exchange.Tokens
  BY <1>3 DEF Registry!Normalize
<1>5. seed.amounts[1] \in Nat /\ seed.amounts[2] \in Nat /\ seed.amounts[1] > 0 /\ seed.amounts[2] > 0
  BY <1>2, <1>3
<1> HIDE DEF pair
<1>6. p.reserves \in [{1, 2} -> Nat] /\ p.reserves[1] > 0 /\ p.reserves[2] > 0
  <2>1. Registry!Across(1) = 2 /\ Registry!Across(2) = 1
    BY DEF Registry!Across
  <2> QED BY <1>5, <2>1
<1>7. p.total \in Nat /\ p.total > 0
  <2>1. seed.amounts[1] * seed.amounts[2] \in Nat /\ seed.amounts[1] * seed.amounts[2] > 0
    BY <1>5, ProductNat
  <2> QED BY <2>1, SqrtPositive DEF Registry!SeedShares
<1>8. p \in Registry!Pool /\ p.tokens = pair
  BY <1>3, <1>4, <1>6, <1>7 DEF Registry!Pool, Registry!Sides
<1> HIDE DEF p
<1>9. s1 \in Seq(Registry!Pool)
  BY <1>1 DEF RegistryTyped
<1>10. /\ s1' \in Seq(Registry!Pool) /\ Len(s1') = Len(s1) + 1 /\ s1'[Len(s1) + 1] = p
       /\ \A i \in 1..Len(s1) : s1'[i] = s1[i]
  BY <1>2, <1>8, <1>9, AppendProperties
<1>11. RegistryTyped'
  BY <1>1, <1>2, <1>10, ExchangeConstants DEF RegistryTyped
<1>12. DOMAIN s1' = 1..(Len(s1) + 1) /\ DOMAIN s1 = 1..Len(s1) /\ Len(s1) \in Nat
  BY <1>9, <1>10
<1>13. PoolsSound'
  <2> SUFFICES ASSUME NEW i \in 1..(Len(s1) + 1) PROVE Sound(s1'[i], Held(s2', i))
    BY <1>12 DEF PoolsSound
  <2>1. CASE i = Len(s1) + 1
    <3> DEFINE f == [user \in exchange.Users |-> s2[<<i, user>>]]
    <3>1. i \in 1..exchange.MaxPools /\ i > Len(s1)
      BY <1>2, <1>12, <2>1, ExchangeConstants
    <3>2. \A u \in exchange.Users : f[u] = 0
      BY <1>1, <3>1 DEF NoSharesAhead
    <3>3. Held(s2, i) = SetTotal(f, exchange.Users)
      BY DEF Held
    <3> HIDE DEF f
    <3>4. SetTotal(f, exchange.Users) = 0
      BY <3>2, ExchangeConstants, SetTotalZero
    <3>5. Held(s2', i) = 0
      BY <1>2, <3>3, <3>4
    <3>6. p.reserves[1] > 0 /\ p.reserves[2] > 0 /\ p.total > 0 /\ p.tokens[1] # p.tokens[2]
      BY <1>2, <1>6, <1>7, <1>8
    <3>7. s1'[i] = p
      BY <1>10, <2>1
    <3> QED BY <1>8, <3>5, <3>6, <3>7 DEF Sound
  <2>2. CASE i # Len(s1) + 1
    <3>1. i \in 1..Len(s1)
      BY <1>12, <2>2
    <3> QED BY <1>1, <1>2, <1>10, <1>12, <3>1 DEF PoolsSound
  <2> QED BY <2>1, <2>2
<1>14. NoSharesAhead'
  BY <1>1, <1>2, <1>10, <1>12 DEF NoSharesAhead
<1>15. Registry!SharesKeepTheirWorth
  <2> SUFFICES ASSUME NEW i \in DOMAIN s1 PROVE Worthy(s1[i], s1'[i])
    BY DEF Registry!SharesKeepTheirWorth, Worthy
  <2>1. s1'[i] = s1[i] /\ s1[i] \in Registry!Pool
    BY <1>1, <1>10, <1>12, PoolIds
  <2> QED BY <2>1, SameWorth
<1> QED BY <1>11, <1>13, <1>14, <1>15 DEF RegistryGoes, RegistryInv

\* The pool that an operation changes, as it was.
LEMMA PoolBefore ==
    ASSUME RegistryInv, NEW i \in DOMAIN s1
    PROVE  /\ i \in 1..exchange.MaxPools /\ s1[i] \in Registry!Pool /\ Sound(s1[i], Held(s2, i))
           /\ s1[i].total \in Nat \ {0} /\ Held(s2, i) \in Nat /\ s2 \in Holdings
<1>1. RegistryTyped /\ PoolsSound /\ s2 \in Holdings
  BY DEF RegistryInv, RegistryTyped
<1>2. i \in 1..exchange.MaxPools /\ s1[i] \in Registry!Pool
  BY <1>1, PoolIds
<1>3. Held(s2, i) \in Nat
  BY <1>1, <1>2, HeldCounts
<1>4. Sound(s1[i], Held(s2, i))
  BY <1>1 DEF PoolsSound
<1>5. s1[i].total \in Nat \ {0}
  BY <1>2, <1>3, <1>4, PoolNumbers DEF Sound
<1> QED BY <1>1, <1>2, <1>3, <1>4, <1>5

IsChanged(q, p, r, t, f) ==
    /\ q \in Registry!Pool /\ q.tokens = p.tokens /\ q.reserves = r /\ q.total = t
    /\ q.fees = f /\ q.tier = p.tier

\* A changed pool in its own type.
LEMMA ChangedPool ==
    ASSUME NEW p \in Registry!Pool, NEW r \in [{1, 2} -> Nat], NEW t \in Nat, NEW f \in [{1, 2} -> Nat]
    PROVE  IsChanged(Registry!Changed(p, r, t, f), p, r, t, f)
BY DEF IsChanged, Registry!Changed, Registry!Pool, Registry!Sides

LEMMA AddLiquidityGoesOn ==
    ASSUME RegistryInv, NEW i \in DOMAIN s1, NEW u \in exchange.Users,
           NEW amounts \in exchange.Amounts \X exchange.Amounts,
           Registry!AddLiquidity(i, amounts, u)
    PROVE  RegistryGoes
<1> DEFINE pool == s1[i]
           t == pool.total
           h == Registry!DepositShares(pool, amounts)
           r == [s \in {1, 2} |-> pool.reserves[s] + amounts[s]]
           p == Registry!Changed(pool, r, t + h, pool.fees)
           old == s2[<<i, u>>]
           b == [s2 EXCEPT ![<<i, u>>] = old + h]
<1>1. h > 0 /\ s1' = [s1 EXCEPT ![i] = p] /\ s2' = b /\ UNCHANGED <<s3, s4, s5>>
  BY DEF Registry!AddLiquidity, Registry!Sides
<1>2. /\ i \in 1..exchange.MaxPools /\ pool \in Registry!Pool /\ Sound(pool, Held(s2, i))
      /\ t \in Nat \ {0} /\ Held(s2, i) \in Nat /\ s2 \in Holdings
  BY PoolBefore
<1>3. amounts[1] \in Nat /\ amounts[2] \in Nat
  BY ExchangeConstants
<1>4. /\ pool.reserves[1] \in Nat \ {0} /\ pool.reserves[2] \in Nat \ {0}
      /\ pool.reserves \in [{1, 2} -> Nat] /\ pool.fees \in [{1, 2} -> Nat]
  BY <1>2, PoolNumbers DEF Sound
<1>5. old \in Nat
  BY <1>2, HeldCounts
<1> HIDE DEF old
<1>6. /\ h = Registry!Lesser((amounts[1] * t) \div pool.reserves[1],
                             (amounts[2] * t) \div pool.reserves[2])
  BY <1>2 DEF Registry!DepositShares
<1>7. /\ (amounts[1] * t) \div pool.reserves[1] \in Nat
      /\ (amounts[2] * t) \div pool.reserves[2] \in Nat
  <2>1. amounts[1] * t \in Nat /\ amounts[2] * t \in Nat
    BY <1>2, <1>3, ProductNat
  <2> QED BY <1>4, <2>1, RoundedDown
<1>8. /\ h \in Nat /\ h <= (amounts[1] * t) \div pool.reserves[1]
      /\ h <= (amounts[2] * t) \div pool.reserves[2]
  <2> DEFINE x == (amounts[1] * t) \div pool.reserves[1]
             y == (amounts[2] * t) \div pool.reserves[2]
  <2>1. h = Registry!Lesser(x, y) /\ x \in Nat /\ y \in Nat
    BY <1>6, <1>7
  <2> HIDE DEF x, y, h
  <2>2. h \in Nat /\ h <= x /\ h <= y
    BY <2>1 DEF Registry!Lesser
  <2> QED BY <2>2 DEF x, y
<1> HIDE DEF h
<1>9. r \in [{1, 2} -> Nat] /\ r[1] = pool.reserves[1] + amounts[1] /\ r[2] = pool.reserves[2] + amounts[2]
  BY <1>3, <1>4
<1>10. /\ p \in Registry!Pool /\ p.tokens = pool.tokens /\ p.reserves = r /\ p.total = t + h
  <2>1. t + h \in Nat
    BY <1>2, <1>8
  <2>2. pool \in Registry!Pool /\ pool.fees \in [{1, 2} -> Nat] /\ r \in [{1, 2} -> Nat]
    BY <1>2, <1>4, <1>9
  <2> HIDE DEF r, pool, t
  <2>3. IsChanged(Registry!Changed(pool, r, t + h, pool.fees), pool, r, t + h, pool.fees)
    BY ONLY <2>1, <2>2, ChangedPool
  <2> QED BY <2>3 DEF p, IsChanged
<1> HIDE DEF r, p
<1>11. /\ b \in Holdings /\ Held(b, i) = Held(s2, i) + h
       /\ \A j \in 1..exchange.MaxPools, w \in exchange.Users : j # i => b[<<j, w>>] = s2[<<j, w>>]
  <2>1. old + h \in Nat
    BY <1>5, <1>8
  <2>2. /\ b \in Holdings /\ Held(b, i) = Held(s2, i) + (old + h) - s2[<<i, u>>]
        /\ \A j \in 1..exchange.MaxPools, w \in exchange.Users : j # i => b[<<j, w>>] = s2[<<j, w>>]
    BY <1>2, <2>1, HeldMoves
  <2> HIDE DEF b
  <2> QED BY <1>2, <1>5, <1>8, <2>2 DEF old
<1> HIDE DEF b
<1>12. Sound(p, Held(b, i))
  <2>1. Held(b, i) < t + h
    BY <1>2, <1>8, <1>11 DEF Sound
  <2>2. r[1] > 0 /\ r[2] > 0
    BY <1>3, <1>4, <1>9
  <2>3. pool.tokens[1] # pool.tokens[2]
    BY <1>2 DEF Sound
  <2> QED BY <1>10, <2>1, <2>2, <2>3 DEF Sound
<1>13. Worthy(pool, p)
  <2>1. pool.reserves[1] * (t + h) <= r[1] * t
    BY <1>2, <1>3, <1>4, <1>8, <1>9, DepositKeepsSide
  <2>2. pool.reserves[2] * (t + h) <= r[2] * t
    BY <1>2, <1>3, <1>4, <1>8, <1>9, DepositKeepsSide
  <2>3. r[1] \in Nat /\ r[2] \in Nat /\ t \in Nat /\ t + h \in Nat
    BY <1>2, <1>8, <1>9
  <2>4. r[1] * r[2] * t * t >= pool.reserves[1] * pool.reserves[2] * (t + h) * (t + h)
    <3> HIDE DEF t, pool
    <3> QED BY <1>4, <2>1, <2>2, <2>3, BothSides
  <2> QED BY <1>10, <2>4 DEF Worthy
<1>14. s2' \in Holdings /\ Sound(p, Held(s2', i))
       /\ \A j \in 1..exchange.MaxPools, w \in exchange.Users : j # i => s2'[<<j, w>>] = s2[<<j, w>>]
  BY <1>1, <1>11, <1>12
<1> QED BY <1>1, <1>13, <1>14, PoolChanges

\* A provider never holds a whole multiple of a pool's shares: a claim leaves the fees.
LEMMA ClaimLeavesFees ==
    ASSUME RegistryInv, NEW i \in DOMAIN s1, NEW u \in exchange.Users
    PROVE  Registry!FeesLeft(i, u) \in [{1, 2} -> Nat]
<1>1. /\ i \in 1..exchange.MaxPools /\ s1[i] \in Registry!Pool /\ Sound(s1[i], Held(s2, i))
      /\ s1[i].total \in Nat \ {0} /\ Held(s2, i) \in Nat /\ s2 \in Holdings
  BY PoolBefore
<1>2. s2[<<i, u>>] \in Nat /\ s2[<<i, u>>] < s1[i].total
  BY <1>1, HeldCounts DEF Sound
<1>3. s2[<<i, u>>] \div s1[i].total = 0
  <2> DEFINE x == s2[<<i, u>>]
             t == s1[i].total
  <2>1. x \in Nat /\ t \in Nat \ {0} /\ x < 1 * t
    BY <1>1, <1>2
  <2> HIDE DEF x, t
  <2>2. x \div t < 1 /\ x \div t \in Nat
    BY <2>1, QuotientOrder, RoundedDown
  <2> QED BY <2>2 DEF x, t
<1>4. \A s \in {1, 2} : s1[i].fees[s] \in Nat
  BY <1>1, PoolNumbers
<1> QED BY <1>3, <1>4 DEF Registry!FeesLeft, Registry!Sides

\* A step that leaves the shares alone, and the seed in the pool.
LEMMA PoolTraded ==
    ASSUME RegistryInv, NEW i \in DOMAIN s1, NEW p \in Registry!Pool,
           s1' = [s1 EXCEPT ![i] = p], p.tokens = s1[i].tokens, p.total = s1[i].total,
           p.reserves[1] > 0, p.reserves[2] > 0, Worthy(s1[i], p), UNCHANGED <<s2, s3, s4, s5>>
    PROVE  RegistryGoes
<1>1. Sound(s1[i], Held(s2, i)) /\ s2 \in Holdings
  BY PoolBefore
<1>2. Sound(p, Held(s2, i))
  BY <1>1 DEF Sound
<1>3. s2' \in Holdings /\ Sound(p, Held(s2', i))
      /\ \A j \in 1..exchange.MaxPools, w \in exchange.Users : j # i => s2'[<<j, w>>] = s2[<<j, w>>]
  BY <1>1, <1>2
<1> QED BY <1>3, PoolChanges

\* So does one that changes neither reserves nor shares.
LEMMA PoolTouched ==
    ASSUME RegistryInv, NEW i \in DOMAIN s1, NEW p \in Registry!Pool,
           s1' = [s1 EXCEPT ![i] = p], p.tokens = s1[i].tokens, p.total = s1[i].total,
           p.reserves = s1[i].reserves, UNCHANGED <<s2, s3, s4, s5>>
    PROVE  RegistryGoes
<1>1. Sound(s1[i], Held(s2, i)) /\ s1[i] \in Registry!Pool
  BY PoolBefore
<1>2. p.reserves[1] > 0 /\ p.reserves[2] > 0
  BY <1>1 DEF Sound
<1>3. Worthy(s1[i], p)
  BY <1>1, SameWorth
<1> QED BY <1>2, <1>3, PoolTraded

LEMMA ClaimFeesGoesOn ==
    ASSUME RegistryInv, NEW i \in DOMAIN s1, NEW u \in exchange.Users, Registry!ClaimFees(i, u)
    PROVE  RegistryGoes
<1> DEFINE pool == s1[i]
           f == Registry!FeesLeft(i, u)
           p == Registry!Changed(pool, pool.reserves, pool.total, f)
<1>1. s1' = [s1 EXCEPT ![i] = p] /\ UNCHANGED <<s2, s3, s4, s5>>
  BY DEF Registry!ClaimFees
<1>2. pool \in Registry!Pool /\ f \in [{1, 2} -> Nat]
  BY PoolBefore, ClaimLeavesFees
<1>3. pool.reserves \in [{1, 2} -> Nat] /\ pool.total \in Nat
  BY <1>2, PoolNumbers
<1> HIDE DEF f
<1>4. IsChanged(p, pool, pool.reserves, pool.total, f)
  BY <1>2, <1>3, ChangedPool
<1> HIDE DEF p
<1>5. p \in Registry!Pool /\ p.tokens = pool.tokens /\ p.reserves = pool.reserves /\ p.total = pool.total
  BY <1>4 DEF IsChanged
<1> QED BY <1>1, <1>5, PoolTouched

LEMMA WithdrawTreasuryFeesGoesOn ==
    ASSUME RegistryInv, NEW i \in DOMAIN s1, NEW u \in exchange.Users,
           Registry!WithdrawTreasuryFees(i, u)
    PROVE  RegistryGoes
<1> DEFINE pool == s1[i]
           f == [s \in {1, 2} |-> 0]
           p == Registry!Changed(pool, pool.reserves, pool.total, f)
<1>1. s1' = [s1 EXCEPT ![i] = p] /\ UNCHANGED <<s2, s3, s4, s5>>
  BY DEF Registry!WithdrawTreasuryFees, Registry!Sides
<1>2. pool \in Registry!Pool /\ f \in [{1, 2} -> Nat]
  BY PoolBefore
<1>3. pool.reserves \in [{1, 2} -> Nat] /\ pool.total \in Nat
  BY <1>2, PoolNumbers
<1> HIDE DEF f
<1>4. IsChanged(p, pool, pool.reserves, pool.total, f)
  BY <1>2, <1>3, ChangedPool
<1> HIDE DEF p
<1>5. p \in Registry!Pool /\ p.tokens = pool.tokens /\ p.reserves = pool.reserves /\ p.total = pool.total
  BY <1>4 DEF IsChanged
<1> QED BY <1>1, <1>5, PoolTouched

LEMMA UpdateFeeTierGoesOn ==
    ASSUME RegistryInv, NEW i \in DOMAIN s1, NEW u \in exchange.Users, NEW tier \in exchange.FeeTiers,
           Registry!UpdateFeeTier(i, tier, u)
    PROVE  RegistryGoes
<1> DEFINE pool == s1[i]
           p == [pool EXCEPT !.tier = tier]
<1>1. s1' = [s1 EXCEPT ![i] = p] /\ UNCHANGED <<s2, s3, s4, s5>>
  BY DEF Registry!UpdateFeeTier
<1>2. pool \in Registry!Pool
  BY PoolBefore
<1>3. p \in Registry!Pool /\ p.tokens = pool.tokens /\ p.reserves = pool.reserves /\ p.total = pool.total
  BY <1>2 DEF Registry!Pool
<1> HIDE DEF p
<1> QED BY <1>1, <1>3, PoolTouched

LEMMA RemoveLiquidityGoesOn ==
    ASSUME RegistryInv, NEW i \in DOMAIN s1, NEW u \in exchange.Users,
           NEW h \in exchange.Amounts \union {0}, Registry!RemoveLiquidity(i, h, u)
    PROVE  RegistryGoes
<1> DEFINE pool == s1[i]
           t == pool.total
           f == Registry!FeesLeft(i, u)
           r == [s \in {1, 2} |-> pool.reserves[s] - (h * pool.reserves[s]) \div t]
           p == Registry!Changed(pool, r, t - h, f)
           old == s2[<<i, u>>]
           b == [s2 EXCEPT ![<<i, u>>] = old - h]
<1>1. old >= h /\ s1' = [s1 EXCEPT ![i] = p] /\ s2' = b /\ UNCHANGED <<s3, s4, s5>>
  BY DEF Registry!RemoveLiquidity, Registry!Withdrawal, Registry!Sides
<1>2. /\ i \in 1..exchange.MaxPools /\ pool \in Registry!Pool /\ Sound(pool, Held(s2, i))
      /\ t \in Nat \ {0} /\ Held(s2, i) \in Nat /\ s2 \in Holdings
  BY PoolBefore
<1>3. h \in Nat
  BY ExchangeConstants
<1>4. /\ pool.reserves[1] \in Nat \ {0} /\ pool.reserves[2] \in Nat \ {0}
      /\ pool.reserves \in [{1, 2} -> Nat] /\ f \in [{1, 2} -> Nat]
  BY <1>2, PoolNumbers, ClaimLeavesFees DEF Sound
<1> HIDE DEF f
<1>5. old \in Nat /\ old <= Held(s2, i)
  BY <1>2, HeldCounts
<1> HIDE DEF old
<1>6. h < t /\ h \in 0..t
  BY <1>1, <1>2, <1>3, <1>5 DEF Sound
<1>7. ASSUME NEW s \in {1, 2}
      PROVE  /\ r[s] \in Nat \ {0} /\ pool.reserves[s] * (t - h) <= r[s] * t
  <2> DEFINE x == pool.reserves[s]
             w == (h * x) \div t
  <2>1. x \in Nat \ {0} /\ r[s] = x - w
    BY <1>4
  <2> HIDE DEF x, t, r
  <2>2. w \in 0..x /\ x * (t - h) <= (x - w) * t /\ w < x
    <3>1. x \in Nat /\ x > 0 /\ t \in Nat \ {0} /\ h \in 0..t /\ h < t
      BY <1>2, <1>6, <2>1
    <3> QED BY ONLY <3>1, BurnKeepsSide
  <2> HIDE DEF w
  <2>3. x - w \in Nat \ {0}
    BY <2>1, <2>2
  <2> QED BY <2>1, <2>2, <2>3 DEF x
<1>8. r \in [{1, 2} -> Nat]
  <2>1. DOMAIN r = {1, 2} /\ r = [s \in {1, 2} |-> r[s]]
    OBVIOUS
  <2> HIDE DEF r
  <2> QED BY <1>7, <2>1
<1>9. t - h \in Nat
  BY <1>2, <1>3, <1>6
<1>10. /\ p \in Registry!Pool /\ p.tokens = pool.tokens /\ p.reserves = r /\ p.total = t - h
  <2> HIDE DEF r, pool, t
  <2>1. IsChanged(Registry!Changed(pool, r, t - h, f), pool, r, t - h, f)
    BY ONLY <1>2, <1>4, <1>8, <1>9, ChangedPool
  <2> QED BY <2>1 DEF p, IsChanged
<1> HIDE DEF r, p
<1>11. /\ b \in Holdings /\ Held(b, i) = Held(s2, i) - h
       /\ \A j \in 1..exchange.MaxPools, w \in exchange.Users : j # i => b[<<j, w>>] = s2[<<j, w>>]
  <2>1. old - h \in Nat
    BY <1>1, <1>3, <1>5
  <2>2. /\ b \in Holdings /\ Held(b, i) = Held(s2, i) + (old - h) - s2[<<i, u>>]
        /\ \A j \in 1..exchange.MaxPools, w \in exchange.Users : j # i => b[<<j, w>>] = s2[<<j, w>>]
    BY <1>2, <2>1, HeldMoves
  <2> HIDE DEF b
  <2> QED BY <1>2, <1>3, <1>5, <2>2 DEF old
<1> HIDE DEF b
<1>12. Sound(p, Held(b, i))
  <2>1. Held(b, i) < t - h
    BY <1>2, <1>3, <1>11 DEF Sound
  <2>2. r[1] > 0 /\ r[2] > 0
    BY <1>7
  <2>3. pool.tokens[1] # pool.tokens[2]
    BY <1>2 DEF Sound
  <2> QED BY <1>10, <2>1, <2>2, <2>3 DEF Sound
<1>13. Worthy(pool, p)
  <2>1. pool.reserves[1] * (t - h) <= r[1] * t /\ pool.reserves[2] * (t - h) <= r[2] * t
    BY <1>7
  <2>2. r[1] \in Nat /\ r[2] \in Nat /\ t \in Nat
    BY <1>2, <1>7
  <2>3. r[1] * r[2] * t * t >= pool.reserves[1] * pool.reserves[2] * (t - h) * (t - h)
    <3> HIDE DEF t, pool
    <3> QED BY <1>4, <1>9, <2>1, <2>2, BothSides
  <2> QED BY <1>10, <2>3 DEF Worthy
<1>14. s2' \in Holdings /\ Sound(p, Held(s2', i))
       /\ \A j \in 1..exchange.MaxPools, w \in exchange.Users : j # i => s2'[<<j, w>>] = s2[<<j, w>>]
  BY <1>1, <1>11, <1>12
<1> QED BY <1>1, <1>13, <1>14, PoolChanges

\* The other side of a pool.
LEMMA AcrossSides ==
    /\ Registry!Across(1) = 2 /\ Registry!Across(2) = 1
    /\ \A s \in {1, 2} : Registry!Across(s) \in {1, 2} /\ Registry!Across(s) # s
BY DEF Registry!Across

\* Both reserves of a pool are positive.
Filled(p) == p \in Registry!Pool /\ p.reserves[1] > 0 /\ p.reserves[2] > 0

\* The numbers of a swap: the fee, the rest, what comes out, and what a quote takes for
\* the rest.
LEMMA SwapNumbers ==
    ASSUME NEW p, Filled(p), NEW s \in {1, 2}, NEW a \in Nat
    PROVE  LET net == a - Registry!Fee(p, a)
               less == (a * (exchange.FeeUnit - p.tier)) \div exchange.FeeUnit
               o == Registry!Across(s)
           IN  /\ p.reserves[s] \in Nat \ {0} /\ p.reserves[o] \in Nat \ {0}
               /\ Registry!Fee(p, a) \in Nat /\ net \in Nat /\ less \in Nat /\ less <= net
               /\ Registry!SwapOut(p, s, a)
                    = (p.reserves[o] * net) \div (p.reserves[s] + net)
               /\ Registry!CalculateOutput(p, s, a)
                    = (p.reserves[o] * less) \div (p.reserves[s] + less)
<1> DEFINE net == a - Registry!Fee(p, a)
           less == (a * (exchange.FeeUnit - p.tier)) \div exchange.FeeUnit
           o == Registry!Across(s)
<1>1. o \in {1, 2}
  BY AcrossSides
<1>2. p.reserves[s] \in Nat \ {0} /\ p.reserves[o] \in Nat \ {0} /\ p.tier \in exchange.FeeTiers
  BY <1>1, PoolNumbers DEF Filled
<1>3. p.tier \in 0..exchange.FeeUnit /\ exchange.FeeUnit \in Nat \ {0}
  BY <1>2, ExchangeConstants
<1>4. Registry!Fee(p, a) \in 0..a /\ less \in Nat /\ less <= net
  <2> DEFINE unit == exchange.FeeUnit
             tier == p.tier
  <2>1. unit \in Nat \ {0} /\ tier \in 0..unit
    BY <1>3
  <2> HIDE DEF unit, tier
  <2>2. /\ (a * tier) \div unit \in 0..a
        /\ (a * (unit - tier)) \div unit \in Nat
        /\ (a * (unit - tier)) \div unit <= a - ((a * tier) \div unit)
    BY <2>1, FeeAndRest
  <2> QED BY <2>2 DEF Registry!Fee, unit, tier
<1>5. Registry!Fee(p, a) \in Nat /\ net \in Nat
  BY <1>4
<1>6. Registry!SwapOut(p, s, a) = (p.reserves[o] * net) \div (p.reserves[s] + net)
  BY DEF Registry!SwapOut, Registry!CurveOut
<1>7. Registry!CalculateOutput(p, s, a) = (p.reserves[o] * less) \div (p.reserves[s] + less)
  BY DEF Registry!CalculateOutput, Registry!CurveOut
<1> QED BY <1>2, <1>4, <1>5, <1>6, <1>7

\* A pool after a swap.
SwappedWell(q, p, s, a) ==
    /\ Filled(q) /\ q.tokens = p.tokens /\ q.total = p.total /\ q.tier = p.tier
    /\ q.reserves[s] >= p.reserves[s]
    /\ q.reserves[Registry!Across(s)] = p.reserves[Registry!Across(s)] - Registry!SwapOut(p, s, a)
    /\ Registry!SwapOut(p, s, a) \in Nat
    /\ Worthy(p, q)

LEMMA SwapGoesWell ==
    ASSUME NEW p, Filled(p), NEW s \in {1, 2}, NEW a \in Nat
    PROVE  SwappedWell(Registry!Swapped(p, s, a), p, s, a)
<1> DEFINE o == Registry!Across(s)
           fee == Registry!Fee(p, a)
           net == a - fee
           out == Registry!SwapOut(p, s, a)
           r == [x \in {1, 2} |-> IF x = s THEN p.reserves[x] + a - fee ELSE p.reserves[x] - out]
           f == [x \in {1, 2} |-> IF x = s THEN p.fees[x] + fee ELSE p.fees[x]]
           q == Registry!Changed(p, r, p.total, f)
<1>1. Registry!Swapped(p, s, a) = q
  BY DEF Registry!Swapped, Registry!Sides
<1>2. /\ p.reserves[s] \in Nat \ {0} /\ p.reserves[o] \in Nat \ {0}
      /\ fee \in Nat /\ net \in Nat
      /\ out = (p.reserves[o] * net) \div (p.reserves[s] + net)
  BY SwapNumbers
<1>3. o \in {1, 2} /\ o # s /\ \A x \in {1, 2} : x = s \/ x = o
  BY AcrossSides DEF Registry!Across
<1>4. p \in Registry!Pool /\ \A x \in {1, 2} : p.fees[x] \in Nat
  BY PoolNumbers DEF Filled
<1>5. p.total \in Nat
  BY <1>4, PoolNumbers
<1> HIDE DEF o, fee, out
<1>6. out \in Nat /\ out < p.reserves[o]
      /\ (p.reserves[s] + net) * (p.reserves[o] - out) >= p.reserves[s] * p.reserves[o]
  <2> DEFINE x == p.reserves[o]
             y == p.reserves[s]
  <2>1. x \in Nat /\ x > 0 /\ y \in Nat \ {0} /\ net \in Nat /\ out = (x * net) \div (y + net)
    BY <1>2
  <2> HIDE DEF x, y, net
  <2>2. /\ (x * net) \div (y + net) \in Nat /\ (x * net) \div (y + net) < x
    BY ONLY <2>1, CurveBounds
  <2>3. (y + net) * (x - (x * net) \div (y + net)) >= y * x
    BY ONLY <2>1, SwapKeepsProduct
  <2> QED BY <2>1, <2>2, <2>3 DEF x, y
<1>7. r[s] = p.reserves[s] + net /\ r[o] = p.reserves[o] - out /\ r[s] \in Nat \ {0} /\ r[o] \in Nat \ {0}
  BY <1>2, <1>3, <1>6
<1>8. r \in [{1, 2} -> Nat] /\ f \in [{1, 2} -> Nat]
  BY <1>2, <1>3, <1>4, <1>6
<1>9. IsChanged(q, p, r, p.total, f)
  <2> HIDE DEF r, f
  <2> QED BY ONLY <1>4, <1>5, <1>8, ChangedPool DEF q
<1> HIDE DEF q, r, f
<1>10. q \in Registry!Pool /\ q.tokens = p.tokens /\ q.reserves = r /\ q.total = p.total /\ q.tier = p.tier
  BY <1>9 DEF IsChanged
<1>11. Filled(q)
  BY <1>3, <1>7, <1>10 DEF Filled
<1>12. r[s] * r[o] >= p.reserves[s] * p.reserves[o]
  BY <1>6, <1>7
<1>13. r[1] * r[2] >= p.reserves[1] * p.reserves[2]
  <2>1. CASE s = 1
    BY <1>12, <2>1, AcrossSides DEF o
  <2>2. CASE s = 2
    <3>1. o = 1
      BY <2>2, AcrossSides DEF o
    <3>2. r[2] * r[1] >= p.reserves[2] * p.reserves[1]
      BY <1>12, <2>2, <3>1
    <3>3. r[2] * r[1] = r[1] * r[2] /\ p.reserves[2] * p.reserves[1] = p.reserves[1] * p.reserves[2]
      BY <1>2, <1>7, <2>2, <3>1, ProductNat
    <3> QED BY <3>2, <3>3
  <2> QED BY <2>1, <2>2
<1>14. Worthy(p, q)
  <2> DEFINE x == p.reserves[1] * p.reserves[2]
             y == r[1] * r[2]
             t == p.total
  <2>1. x \in Nat /\ y \in Nat /\ t \in Nat /\ x <= y
    BY <1>4, <1>5, <1>8, <1>13, PoolNumbers, ProductNat
  <2> HIDE DEF x, y, t
  <2>2. x * t <= y * t /\ x * t \in Nat /\ y * t \in Nat
    BY <2>1, ProductOrder, ProductNat
  <2>3. x * t * t <= y * t * t
    BY <2>1, <2>2, ProductOrder
  <2>4. x * t * t \in Nat /\ y * t * t \in Nat
    BY <2>1, <2>2, ProductNat
  <2>5. y * t * t >= x * t * t
    BY <2>3, <2>4
  <2> QED BY <1>10, <2>5 DEF Worthy, x, y, t
<1>15. q.reserves[s] >= p.reserves[s] /\ q.reserves[o] = p.reserves[o] - out
  BY <1>2, <1>7, <1>10
<1> QED BY <1>1, <1>6, <1>10, <1>11, <1>14, <1>15 DEF SwappedWell, o, out

\* The side of a token that a pool has.
LEMMA TokenHasSide ==
    ASSUME NEW p, NEW token, \E s \in {1, 2} : p.tokens[s] = token
    PROVE  Registry!Side(p, token) \in {1, 2}
BY DEF Registry!Side, Registry!Sides

LEMMA SwapGoesOn ==
    ASSUME RegistryInv, NEW i \in DOMAIN s1, NEW u \in exchange.Users, NEW token \in exchange.Tokens,
           NEW amount \in exchange.Amounts, Registry!Swap(i, token, amount, 0, u)
    PROVE  RegistryGoes
<1> DEFINE pool == s1[i]
           s == Registry!Side(pool, token)
           p == Registry!Swapped(pool, s, amount)
<1>1. s1' = [s1 EXCEPT ![i] = p] /\ UNCHANGED <<s2, s3, s4, s5>>
  BY DEF Registry!Swap
<1>2. s \in {1, 2}
  <2>1. \E x \in {1, 2} : pool.tokens[x] = token
    BY DEF Registry!Swap, Registry!Sides
  <2> QED BY <2>1, TokenHasSide
<1>3. Filled(pool)
  BY PoolBefore DEF Sound, Filled
<1> HIDE DEF s
<1>4. SwappedWell(p, pool, s, amount)
  <2>1. amount \in Nat
    BY ExchangeConstants
  <2> QED BY <1>2, <1>3, <2>1, SwapGoesWell
<1> HIDE DEF p
<1>5. /\ p \in Registry!Pool /\ p.tokens = pool.tokens /\ p.total = pool.total
      /\ p.reserves[1] > 0 /\ p.reserves[2] > 0 /\ Worthy(pool, p)
  BY <1>4 DEF SwappedWell, Filled
<1> QED BY <1>1, <1>5, PoolTraded

\* A step that leaves pools and balances alone.
LEMMA SettingsGoOn ==
    ASSUME RegistryInv, UNCHANGED <<s1, s2>>,
           s3' \in Nat, s4' \in exchange.Users, s5' \in BOOLEAN
    PROVE  RegistryGoes
<1>1. RegistryInv'
  BY DEF RegistryInv, RegistryTyped, PoolsSound, NoSharesAhead
<1>2. Registry!SharesKeepTheirWorth
  <2> SUFFICES ASSUME NEW i \in DOMAIN s1 PROVE Worthy(s1[i], s1'[i])
    BY DEF Registry!SharesKeepTheirWorth, Worthy
  <2>1. s1[i] \in Registry!Pool /\ s1'[i] = s1[i]
    BY PoolBefore
  <2> QED BY <2>1, SameWorth
<1> QED BY <1>1, <1>2 DEF RegistryGoes

LEMMA RegistryGoesOn ==
    ASSUME RegistryInv, Registry!Next
    PROVE  RegistryGoes
<1>0. s3 \in Nat /\ s4 \in exchange.Users /\ s5 \in BOOLEAN
  BY DEF RegistryInv, RegistryTyped
<1>1. CASE \E seed \in exchange.Seeds : Registry!RegisterPool(seed)
  BY <1>1, RegisterPoolGoesOn
<1>2. ASSUME NEW i \in DOMAIN s1, NEW u \in exchange.Users,
             \/ \E amounts \in exchange.Amounts \X exchange.Amounts : Registry!AddLiquidity(i, amounts, u)
             \/ Registry!ClaimFees(i, u)
             \/ \E h \in exchange.Amounts \union {0} : Registry!RemoveLiquidity(i, h, u)
             \/ \E token \in exchange.Tokens, amount \in exchange.Amounts :
                    Registry!Swap(i, token, amount, 0, u)
             \/ \E tier \in exchange.FeeTiers : Registry!UpdateFeeTier(i, tier, u)
             \/ Registry!WithdrawTreasuryFees(i, u)
      PROVE  RegistryGoes
  BY <1>2, AddLiquidityGoesOn, ClaimFeesGoesOn, RemoveLiquidityGoesOn, SwapGoesOn,
     UpdateFeeTierGoesOn, WithdrawTreasuryFeesGoesOn
<1>3. CASE \E caller, u \in exchange.Users : Registry!SetTreasury(caller, u)
  BY <1>0, <1>3, SettingsGoOn DEF Registry!SetTreasury
<1>4. CASE \E caller \in exchange.Users : \E hops \in exchange.HopLimits : Registry!SetMaxHops(caller, hops)
  <2>1. UNCHANGED <<s1, s2, s4, s5>> /\ s3' \in Nat
    BY <1>4, ExchangeConstants DEF Registry!SetMaxHops
  <2> QED BY <1>0, <2>1, SettingsGoOn
<1>5. CASE \E caller \in exchange.Users : \E flag \in BOOLEAN : Registry!SetPaused(caller, flag)
  <2>1. UNCHANGED <<s1, s2, s3, s4>> /\ s5' \in BOOLEAN
    BY <1>5 DEF Registry!SetPaused
  <2> QED BY <1>0, <2>1, SettingsGoOn
<1> QED BY <1>1, <1>2, <1>3, <1>4, <1>5 DEF Registry!Next

\* A swap pays what it was quoted: its fee is rounded down once, the quote once more.
LEMMA SwapPaysQuote ==
    ASSUME NEW p, Filled(p), NEW s \in {1, 2}, NEW a \in Nat
    PROVE  /\ Registry!SwapOut(p, s, a) \in Nat /\ Registry!CalculateOutput(p, s, a) \in Nat
           /\ Registry!CalculateOutput(p, s, a) <= Registry!SwapOut(p, s, a)
<1> DEFINE net == a - Registry!Fee(p, a)
           less == (a * (exchange.FeeUnit - p.tier)) \div exchange.FeeUnit
           x == p.reserves[Registry!Across(s)]
           y == p.reserves[s]
<1>1. /\ y \in Nat \ {0} /\ x \in Nat \ {0} /\ net \in Nat /\ less \in Nat /\ less <= net
      /\ Registry!SwapOut(p, s, a) = (x * net) \div (y + net)
      /\ Registry!CalculateOutput(p, s, a) = (x * less) \div (y + less)
  BY SwapNumbers
<1> HIDE DEF net, less, x, y
<1>2. (x * net) \div (y + net) \in Nat /\ (x * less) \div (y + less) \in Nat
  BY <1>1, CurveBounds
<1>3. (x * less) \div (y + less) <= (x * net) \div (y + net)
  <2>1. x \in Nat /\ y \in Nat /\ y \in Nat \ {0} /\ x <= x /\ y <= y
    BY <1>1
  <2> QED BY ONLY <1>1, <2>1, CurveOrder
<1> QED BY <1>1, <1>2, <1>3

\* A quote grows with the amount, with the reserves it is paid from and as the others
\* shrink.
LEMMA QuoteGrows ==
    ASSUME NEW p, Filled(p), NEW q, Filled(q), q.tier = p.tier, NEW s \in {1, 2},
           p.reserves[Registry!Across(s)] <= q.reserves[Registry!Across(s)],
           q.reserves[s] <= p.reserves[s], NEW a \in Nat, NEW b \in Nat, a <= b
    PROVE  Registry!CalculateOutput(p, s, a) <= Registry!CalculateOutput(q, s, b)
<1> DEFINE k == exchange.FeeUnit - p.tier
           m == (a * k) \div exchange.FeeUnit
           n == (b * k) \div exchange.FeeUnit
           x == p.reserves[Registry!Across(s)]
           x2 == q.reserves[Registry!Across(s)]
           y == p.reserves[s]
           y2 == q.reserves[s]
<1>1. /\ x \in Nat \ {0} /\ y \in Nat \ {0} /\ m \in Nat
      /\ Registry!CalculateOutput(p, s, a) = (x * m) \div (y + m)
  BY SwapNumbers
<1>2. /\ x2 \in Nat \ {0} /\ y2 \in Nat \ {0} /\ n \in Nat
      /\ Registry!CalculateOutput(q, s, b) = (x2 * n) \div (y2 + n)
  <2>1. exchange.FeeUnit - q.tier = k
    OBVIOUS
  <2>2. (b * (exchange.FeeUnit - q.tier)) \div exchange.FeeUnit = n
    BY <2>1
  <2> HIDE DEF k, n
  <2> QED BY <2>2, SwapNumbers
<1>3. m <= n
  <2>1. p.tier \in 0..exchange.FeeUnit /\ exchange.FeeUnit \in Nat \ {0}
    BY PoolNumbers, ExchangeConstants DEF Filled
  <2>2. k \in Nat
    BY <2>1
  <2> HIDE DEF k
  <2>3. a * k <= b * k /\ a * k \in Nat /\ b * k \in Nat
    BY <2>2, ProductOrder, ProductNat
  <2> QED BY <2>1, <2>3, QuotientGrows
<1>4. x <= x2 /\ y2 <= y
  OBVIOUS
<1> HIDE DEF m, n, x, x2, y, y2
<1>5. (x * m) \div (y + m) <= (x2 * n) \div (y2 + n)
  <2>1. x \in Nat /\ x2 \in Nat /\ y \in Nat
    BY <1>1, <1>2
  <2> QED BY ONLY <1>1, <1>2, <1>3, <1>4, <2>1, CurveOrder
<1> QED BY <1>1, <1>2, <1>5

\* Two swaps in a row pay the quote of the two, through two pools or through one.
LEMMA TwoHops ==
    ASSUME NEW p, Filled(p), NEW q, Filled(q), NEW r, Filled(r), r.tier = q.tier,
           NEW s \in {1, 2}, NEW t \in {1, 2}, NEW a \in Nat,
           q.reserves[Registry!Across(t)] <= r.reserves[Registry!Across(t)],
           r.reserves[t] <= q.reserves[t]
    PROVE  Registry!CalculateOutput(q, t, Registry!CalculateOutput(p, s, a))
             <= Registry!SwapOut(r, t, Registry!SwapOut(p, s, a))
<1> DEFINE out == Registry!SwapOut(p, s, a)
           quote == Registry!CalculateOutput(p, s, a)
<1>1. out \in Nat /\ quote \in Nat /\ quote <= out
  BY SwapPaysQuote
<1> HIDE DEF out, quote
<1>2. Registry!CalculateOutput(q, t, quote) <= Registry!CalculateOutput(r, t, out)
  BY <1>1, QuoteGrows
<1>3. /\ Registry!CalculateOutput(r, t, out) <= Registry!SwapOut(r, t, out)
      /\ Registry!CalculateOutput(r, t, out) \in Nat /\ Registry!SwapOut(r, t, out) \in Nat
  BY <1>1, SwapPaysQuote
<1>4. Registry!CalculateOutput(q, t, quote) \in Nat
  BY <1>1, SwapPaysQuote
<1> QED BY <1>2, <1>3, <1>4 DEF out, quote

\* A route that the search returns leads through a pool, or through two by a token in
\* the middle.
IsRoute(route) ==
    \/ \E i \in DOMAIN s1, s \in {1, 2} : route = <<<<i, s>>>>
    \/ \E i, j \in DOMAIN s1, s, t \in {1, 2} :
        /\ route = <<<<i, s>>, <<j, t>>>>
        /\ s1[j].tokens[t] = s1[i].tokens[Registry!Across(s)]

LEMMA DetourIsRoute ==
    ASSUME NEW x, NEW y, NEW r \in Registry!Detours(x, y)
    PROVE  IsRoute(r) /\ r[1][1] \in DOMAIN s1
<1>1. PICK i \in DOMAIN s1, j \in DOMAIN s1, s \in {1, 2}, t \in {1, 2} : r = <<<<i, s>>, <<j, t>>>>
  BY DEF Registry!Detours, Registry!Sides
<1>2. s1[r[2][1]].tokens[r[2][2]] = s1[r[1][1]].tokens[Registry!Across(r[1][2])]
  BY DEF Registry!Detours
<1>3. r[1][1] = i /\ r[1][2] = s /\ r[2][1] = j /\ r[2][2] = t
  BY <1>1
<1>4. s1[j].tokens[t] = s1[i].tokens[Registry!Across(s)]
  BY <1>2, <1>3
<1> QED BY <1>1, <1>3, <1>4 DEF IsRoute

LEMMA FoundIsRoute ==
    ASSUME RegistryInv, NEW x \in exchange.Tokens, NEW y \in exchange.Tokens, NEW a,
           Registry!FindBestRoute(x, y, a) # <<>>
    PROVE  IsRoute(Registry!FindBestRoute(x, y, a))
<1> DEFINE pair == Registry!Normalize(x, y)
           direct == Registry!PoolOf(pair)
           detours == {r \in Registry!Detours(x, y) : Registry!QuoteOf(r, a) > 0}
           best == {r \in detours : \A other \in detours :
                        Registry!QuoteOf(r, a) >= Registry!QuoteOf(other, a)}
           least == CHOOSE r \in best : \A other \in best : r[1][1] <= other[1][1]
           found == Registry!FindBestRoute(x, y, a)
           d == CHOOSE i \in direct : TRUE
<1> SUFFICES IsRoute(found)
  OBVIOUS
<1>1. found = IF direct # {} THEN <<<<d, Registry!Side(s1[d], x)>>>>
              ELSE IF best = {} THEN <<>> ELSE least
  BY DEF Registry!FindBestRoute
<1>2. CASE direct # {}
  <2>1. d \in direct
    BY <1>2
  <2>2. d \in DOMAIN s1 /\ s1[d].tokens = pair
    BY <2>1 DEF Registry!PoolOf
  <2> HIDE DEF d
  <2>3. \E s \in {1, 2} : s1[d].tokens[s] = x
    BY <2>2 DEF Registry!Normalize
  <2>4. Registry!Side(s1[d], x) \in {1, 2}
    BY <2>3, TokenHasSide
  <2>5. found = <<<<d, Registry!Side(s1[d], x)>>>>
    BY <1>1, <1>2
  <2> HIDE DEF found
  <2> QED BY <2>2, <2>4, <2>5 DEF IsRoute
<1>3. CASE direct = {}
  <2>1. best # {} /\ found = least
    BY <1>1, <1>3
  <2>2. \A r \in best : IsRoute(r) /\ r[1][1] \in DOMAIN s1
    BY DetourIsRoute
  <2> HIDE DEF best
  <2>3. \A r \in best : r[1][1] \in Nat
    <3>1. DOMAIN s1 \subseteq Nat
      BY ItsEntries DEF RegistryInv, RegistryTyped
    <3> QED BY <2>2, <3>1
  <2>4. \E r \in best : \A other \in best : r[1][1] <= other[1][1]
    <3> DEFINE T == {r[1][1] : r \in best}
    <3>1. T \subseteq Nat /\ T # {}
      BY <2>1, <2>3
    <3>2. PICK k \in T : \A m \in T : k <= m
      <4> HIDE DEF T
      <4> QED BY <3>1, LeastNatural
    <3>3. PICK r \in best : r[1][1] = k
      OBVIOUS
    <3>4. \A other \in best : k <= other[1][1]
      BY <3>2
    <3> QED BY <3>3, <3>4
  <2>5. least \in best
    BY <2>4
  <2> HIDE DEF least
  <2>6. IsRoute(least)
    BY <2>2, <2>5
  <2> HIDE DEF found
  <2> QED BY <2>1, <2>6
<1> QED BY <1>2, <1>3

LEMMA RoutePaysQuote ==
    ASSUME RegistryInv, NEW route, IsRoute(route), NEW a \in Nat
    PROVE  Registry!PaidAlong(route, a) >= Registry!QuoteOf(route, a)
<1>1. \A i \in DOMAIN s1 : Filled(s1[i]) /\ s1[i].tokens[1] # s1[i].tokens[2]
  BY PoolBefore DEF Sound, Filled
<1>2. ASSUME NEW i \in DOMAIN s1, NEW s \in {1, 2}, route = <<<<i, s>>>>
      PROVE  Registry!PaidAlong(route, a) >= Registry!QuoteOf(route, a)
  <2>1. Len(route) = 1 /\ route[1][1] = i /\ route[1][2] = s
    BY <1>2
  <2>2. Registry!PaidAlong(route, a) = Registry!SwapOut(s1[i], s, a)
    BY <2>1 DEF Registry!PaidAlong
  <2>3. Registry!QuoteOf(route, a) = Registry!CalculateOutput(s1[i], s, a)
    BY <2>1 DEF Registry!QuoteOf
  <2>4. /\ Registry!SwapOut(s1[i], s, a) \in Nat /\ Registry!CalculateOutput(s1[i], s, a) \in Nat
        /\ Registry!CalculateOutput(s1[i], s, a) <= Registry!SwapOut(s1[i], s, a)
    BY <1>1, SwapPaysQuote
  <2> QED BY <2>2, <2>3, <2>4
<1>3. ASSUME NEW i \in DOMAIN s1, NEW j \in DOMAIN s1, NEW s \in {1, 2}, NEW t \in {1, 2},
             route = <<<<i, s>>, <<j, t>>>>,
             s1[j].tokens[t] = s1[i].tokens[Registry!Across(s)]
      PROVE  Registry!PaidAlong(route, a) >= Registry!QuoteOf(route, a)
  <2> DEFINE p == s1[i]
             q == s1[j]
             r == IF j = i THEN Registry!Swapped(p, s, a) ELSE q
             quote == Registry!CalculateOutput(q, t, Registry!CalculateOutput(p, s, a))
             paid == Registry!SwapOut(r, t, Registry!SwapOut(p, s, a))
  <2>1. Len(route) = 2 /\ route[1][1] = i /\ route[1][2] = s /\ route[2][1] = j /\ route[2][2] = t
    BY <1>3
  <2>2. Registry!PaidAlong(route, a) = paid
    BY <2>1 DEF Registry!PaidAlong
  <2>3. Registry!QuoteOf(route, a) = quote
    BY <2>1 DEF Registry!QuoteOf
  <2>4. Filled(p) /\ Filled(q)
    BY <1>1
  <2>5. /\ Filled(r) /\ r.tier = q.tier /\ r.reserves[t] <= q.reserves[t]
        /\ q.reserves[Registry!Across(t)] <= r.reserves[Registry!Across(t)]
    <3>1. CASE j = i
      <4>1. t = Registry!Across(s) /\ Registry!Across(t) = s
        BY <1>1, <1>3, <3>1, AcrossSides
      <4>2. SwappedWell(r, p, s, a)
        BY <2>4, <3>1, SwapGoesWell
      <4>3. /\ Filled(r) /\ r.tier = q.tier /\ r.reserves[s] >= q.reserves[s]
            /\ r.reserves[t] = q.reserves[t] - Registry!SwapOut(p, s, a)
            /\ Registry!SwapOut(p, s, a) \in Nat
        BY <3>1, <4>1, <4>2 DEF SwappedWell
      <4>4. q.reserves[t] \in Nat /\ q.reserves[s] \in Nat /\ r.reserves[s] \in Nat
        BY <2>4, <4>3, PoolNumbers DEF Filled
      <4> HIDE DEF p, q, r
      <4> QED BY <4>1, <4>3, <4>4
    <3>2. CASE j # i
      <4>1. q.reserves[t] \in Nat /\ q.reserves[Registry!Across(t)] \in Nat
        BY <2>4, PoolNumbers, AcrossSides DEF Filled
      <4> QED BY <2>4, <3>2, <4>1
    <3> QED BY <3>1, <3>2
  <2> HIDE DEF p, q, r
  <2>6. quote <= paid
    BY <2>4, <2>5, TwoHops
  <2>7. quote \in Nat /\ paid \in Nat
    <3>1. Registry!CalculateOutput(p, s, a) \in Nat /\ Registry!SwapOut(p, s, a) \in Nat
      BY <2>4, SwapPaysQuote
    <3> QED BY <2>4, <2>5, <3>1, SwapPaysQuote
  <2> QED BY <2>2, <2>3, <2>6, <2>7
<1> QED BY <1>2, <1>3 DEF IsRoute

\* What the invariant says of quotes and seeds.
LEMMA RegistryHolds ==
    ASSUME RegistryInv
    PROVE  Registry!QuoteKept /\ Registry!SeedStays
<1>1. Registry!QuoteKept
  <2> SUFFICES ASSUME NEW x \in exchange.Tokens, NEW y \in exchange.Tokens,
                      NEW a \in exchange.Amounts \ {0}, Registry!FindBestRoute(x, y, a) # <<>>
               PROVE  Registry!PaidAlong(Registry!FindBestRoute(x, y, a), a)
                        >= Registry!QuoteOf(Registry!FindBestRoute(x, y, a), a)
    BY DEF Registry!QuoteKept
  <2>1. a \in Nat
    BY ExchangeConstants
  <2>2. IsRoute(Registry!FindBestRoute(x, y, a))
    BY FoundIsRoute
  <2> QED BY <2>1, <2>2, RoutePaysQuote
<1>2. Registry!SeedStays
  <2> SUFFICES ASSUME NEW i \in DOMAIN s1
               PROVE  /\ Registry!SetTotal([user \in exchange.Users |-> s2[<<i, user>>]], exchange.Users)
                           < s1[i].total
                      /\ \A s \in {1, 2} : s1[i].reserves[s] > 0
    BY DEF Registry!SeedStays, Registry!Sides
  <2>1. Sound(s1[i], Held(s2, i))
    BY PoolBefore
  <2> QED BY <2>1, RegistrySum DEF Sound, Held
<1> QED BY <1>1, <1>2

\* Nobody's route pays less than it was quoted and the seed of a pool is never burned
\* (liquidity_pool.rs find_best_route, remove_liquidity).
THEOREM QuotesAndSeedsStayAlways == CoreSpec => []QuotesAndSeedsStay
<1> DEFINE Inv == part = "pools" => RegistryInv
<1>1. CoreInit => Inv
  BY PartBegins, RegistryBegins DEF InPools
<1>2. Inv /\ [CoreNext]_vars => Inv'
  <2>1. ASSUME Inv, CoreNext PROVE Inv'
    BY <2>1, PartGoesOn, RegistryGoesOn DEF PoolsStep, RegistryGoes
  <2>2. ASSUME Inv, UNCHANGED vars PROVE Inv'
    BY <2>2, NothingMoves DEF RegistryInv, RegistryTyped, PoolsSound, NoSharesAhead
  <2> QED BY <2>1, <2>2
<1>3. Inv => QuotesAndSeedsStay
  BY RegistryHolds DEF QuotesAndSeedsStay
<1> QED BY <1>1, <1>2, <1>3, PTL DEF CoreSpec

-----------------------------------------------------------------------------
(* The portfolio.                                                          *)

\* What TradingAssumption says of the constants of the portfolio.
LEMMA TradingConstants ==
    /\ IsFiniteSet(trading.Users) /\ trading.Verified \subseteq trading.Users
    /\ trading.Price \in [{1, 2} -> Nat]
    /\ trading.Precision \in Nat \ {0} /\ trading.FeeUnit \in Nat \ {0}
    /\ trading.PoolFee \in 0..trading.FeeUnit
    /\ trading.TierFee[1] \in 0..trading.FeeUnit /\ trading.TierFee[2] \in 0..trading.FeeUnit
    /\ trading.Amounts \subseteq Nat
<1>1. Trading!TradingAssumption
  BY CoreAssumption
<1>2. Trading!IsFiniteSet(trading.Users)
  BY <1>1 DEF Trading!TradingAssumption
<1>3. IsFiniteSet(trading.Users)
  BY <1>2 DEF Trading!IsFiniteSet, IsFiniteSet
<1>4. trading.TierFee \in [1..2 -> 0..trading.FeeUnit]
  BY <1>1 DEF Trading!TradingAssumption
<1>5. trading.TierFee[1] \in 0..trading.FeeUnit /\ trading.TierFee[2] \in 0..trading.FeeUnit
  BY <1>4
<1> QED BY <1>1, <1>3, <1>5 DEF Trading!TradingAssumption, Trading!Assets, Trading!XLM, Trading!USDCSIM

\* The caches have a place for every user.
CachesSized ==
    /\ DOMAIN s2 = {"portfolios", "pnls", "tops"}
    /\ DOMAIN s2.portfolios = trading.Users /\ DOMAIN s2.pnls = trading.Users

\* The invariant of the caches.
CacheInv == CachesSized /\ Trading!StaleOnlyByFaucet

\* Empty caches are never stale.
LEMMA EmptyCaches ==
    ASSUME s2 = Trading!NoCache
    PROVE  CacheInv
BY DEF CacheInv, CachesSized, Trading!StaleOnlyByFaucet, Trading!NoCache

LEMMA EmptiedCaches ==
    ASSUME s2' = Trading!NoCache
    PROVE  CacheInv'
BY DEF CacheInv, CachesSized, Trading!StaleOnlyByFaucet, Trading!NoCache

\* A portfolio that is stored empties the caches.
LEMMA StoredEmpties ==
    ASSUME NEW s, Trading!Stored(s)
    PROVE  CacheInv'
BY EmptiedCaches DEF Trading!Stored

\* An answer that is served or filled in is today's, if those before were.
LEMMA FilledAnswer ==
    ASSUME NEW entry, NEW answer, entry # <<>> => entry[1] = answer
    PROVE  Trading!Filled(entry, answer)[1] = answer
BY DEF Trading!Filled, Trading!Fresh

LEMMA CachesGoOn ==
    ASSUME CacheInv, Trading!Next
    PROVE  CacheInv'
<1>1. ASSUME NEW user \in trading.Users, NEW amount \in trading.Amounts, NEW x \in Trading!Assets,
             \/ Trading!MintToken(user, x, amount)
             \/ Trading!SwapTokens(user, x, amount)
             \/ Trading!SafeSwap(user, x, amount)
             \/ \E out \in trading.Amounts : Trading!RecordPnlTrade(user, x, amount, out)
      PROVE  CacheInv'
  BY <1>1, StoredEmpties DEF Trading!MintToken, Trading!SwapTokens, Trading!SafeSwap, Trading!RecordPnlTrade
<1>2. ASSUME NEW user \in trading.Users, NEW amount \in trading.Amounts,
             \/ \E usdc \in trading.Amounts : Trading!AddLiquidity(user, amount, usdc)
             \/ Trading!RemoveLiquidity(user, amount)
      PROVE  CacheInv'
  BY <1>2, StoredEmpties DEF Trading!AddLiquidity, Trading!RemoveLiquidity
<1>3. ASSUME NEW ops, Trading!ExecuteBatchAtomic(ops) \/ Trading!ExecuteBatchBestEffort(ops)
      PROVE  CacheInv'
  BY <1>3, StoredEmpties DEF Trading!ExecuteBatchAtomic, Trading!ExecuteBatchBestEffort
<1>4. ASSUME NEW user, NEW x, Trading!ClaimFaucet(user, x)
      PROVE  CacheInv'
  BY <1>4 DEF Trading!ClaimFaucet, CacheInv, CachesSized, Trading!StaleOnlyByFaucet
<1>5. ASSUME NEW user \in trading.Users, Trading!GetPortfolio(user)
      PROVE  CacheInv'
  <2> DEFINE answer == <<s1.trades[user], s1.pnl[user]>>
             c == [s2 EXCEPT !.portfolios[user] = Trading!Filled(@, answer)]
  <2>1. s2' = c /\ UNCHANGED <<s1, s4>>
    BY <1>5 DEF Trading!GetPortfolio
  <2>2. CachesSized /\ Trading!StaleOnlyByFaucet
    BY DEF CacheInv
  <2>3. /\ c.pnls = s2.pnls /\ c.tops = s2.tops /\ DOMAIN c = DOMAIN s2
        /\ DOMAIN c.portfolios = DOMAIN s2.portfolios
        /\ c.portfolios[user] = Trading!Filled(s2.portfolios[user], answer)
        /\ \A u \in trading.Users : u # user => c.portfolios[u] = s2.portfolios[u]
    BY <2>2 DEF CachesSized
  <2>4. ~s4 /\ s2.portfolios[user] # <<>> => s2.portfolios[user][1] = answer
    BY <2>2 DEF Trading!StaleOnlyByFaucet
  <2>5. ~s4 => c.portfolios[user][1] = answer
    BY <2>3, <2>4, FilledAnswer
  <2> HIDE DEF c
  <2>6. CachesSized'
    BY <2>1, <2>2, <2>3 DEF CachesSized
  <2>7. Trading!StaleOnlyByFaucet'
    BY <2>1, <2>2, <2>3, <2>5 DEF Trading!StaleOnlyByFaucet, Trading!PnlSummary, Trading!XlmValue
  <2> QED BY <2>6, <2>7 DEF CacheInv
<1>6. ASSUME NEW user \in trading.Users, Trading!GetPortfolioPnl(user)
      PROVE  CacheInv'
  <2> DEFINE answer == Trading!PnlSummary(s1, user)
             c == [s2 EXCEPT !.pnls[user] = Trading!Filled(@, answer)]
  <2>1. s2' = c /\ UNCHANGED <<s1, s4>>
    BY <1>6 DEF Trading!GetPortfolioPnl
  <2>2. CachesSized /\ Trading!StaleOnlyByFaucet
    BY DEF CacheInv
  <2>3. /\ c.portfolios = s2.portfolios /\ c.tops = s2.tops /\ DOMAIN c = DOMAIN s2
        /\ DOMAIN c.pnls = DOMAIN s2.pnls
        /\ c.pnls[user] = Trading!Filled(s2.pnls[user], answer)
        /\ \A u \in trading.Users : u # user => c.pnls[u] = s2.pnls[u]
    BY <2>2 DEF CachesSized
  <2>4. ~s4 /\ s2.pnls[user] # <<>> => s2.pnls[user][1] = answer
    BY <2>2 DEF Trading!StaleOnlyByFaucet
  <2>5. ~s4 => c.pnls[user][1] = answer
    BY <2>3, <2>4, FilledAnswer
  <2> HIDE DEF c
  <2>6. CachesSized'
    BY <2>1, <2>2, <2>3 DEF CachesSized
  <2>7. Trading!StaleOnlyByFaucet'
    BY <2>1, <2>2, <2>3, <2>5 DEF Trading!StaleOnlyByFaucet
  <2> QED BY <2>6, <2>7 DEF CacheInv
<1>7. ASSUME Trading!GetTopTraders
      PROVE  CacheInv'
  <2> DEFINE c == [s2 EXCEPT !.tops = Trading!Filled(@, s1.tops)]
  <2>1. s2' = c /\ UNCHANGED <<s1, s4>>
    BY <1>7 DEF Trading!GetTopTraders
  <2>2. CachesSized /\ Trading!StaleOnlyByFaucet
    BY DEF CacheInv
  <2>3. /\ c.portfolios = s2.portfolios /\ c.pnls = s2.pnls /\ DOMAIN c = DOMAIN s2
        /\ c.tops = Trading!Filled(s2.tops, s1.tops)
    BY <2>2 DEF CachesSized
  <2>4. ~s4 => c.tops[1] = s1.tops
    BY <2>2, <2>3, FilledAnswer DEF Trading!StaleOnlyByFaucet
  <2> HIDE DEF c
  <2>6. CachesSized'
    BY <2>1, <2>2, <2>3 DEF CachesSized
  <2>7. Trading!StaleOnlyByFaucet'
    BY <2>1, <2>2, <2>3, <2>4 DEF Trading!StaleOnlyByFaucet
  <2> QED BY <2>6, <2>7 DEF CacheInv
<1>8. ASSUME (\E flag \in BOOLEAN : Trading!SetPaused(flag)) \/ Trading!Tick
      PROVE  CacheInv'
  <2>1. UNCHANGED <<s1, s2, s4>>
    BY <1>8 DEF Trading!SetPaused, Trading!Tick
  <2> QED BY <2>1 DEF CacheInv, CachesSized, Trading!StaleOnlyByFaucet
<1> QED BY <1>1, <1>2, <1>3, <1>4, <1>5, <1>6, <1>7, <1>8 DEF Trading!Next

-----------------------------------------------------------------------------
BookFields == {"balances", "pool", "supply", "positions", "trades", "pnl", "basis", "realized",
               "tops"}

\* The numbers of the pool in a portfolio s.
PoolTyped(s) ==
    /\ DOMAIN s = BookFields
    /\ s.pool \in [{1, 2} -> Nat] /\ s.supply \in Nat
    /\ s.positions \in [trading.Users -> Trading!LPPosition]

\* The tokens the providers of s hold.
TokensHeld(s) == SetTotal([u \in trading.Users |-> s.positions[u].tokens], trading.Users)

\* The invariant of the portfolio: the providers hold the supply.
BookInv(s) == PoolTyped(s) /\ TokensHeld(s) = s.supply

\* t has the pool of s.
SamePool(s, t) ==
    /\ DOMAIN t = DOMAIN s /\ t.pool = s.pool /\ t.supply = s.supply
    /\ t.positions = s.positions

\* t has at least what s has, for the same providers.
NoLess(s, t) ==
    /\ DOMAIN t = DOMAIN s /\ t.supply = s.supply /\ t.positions = s.positions
    /\ t.pool \in [{1, 2} -> Nat]
    /\ s.pool[1] * s.pool[2] <= t.pool[1] * t.pool[2]

\* A token of t is worth at least one of s.
TokenWorth(s, t) ==
    s.supply > 0 /\ t.supply > 0 =>
        t.pool[1] * t.pool[2] * s.supply * s.supply
            >= s.pool[1] * s.pool[2] * t.supply * t.supply

\* What the methods on balances do to the pool: nothing.
LEMMA DebitKeepsPool ==
    ASSUME NEW s, DOMAIN s = BookFields, NEW u, NEW x, NEW n
    PROVE  SamePool(s, Trading!Debit(s, u, x, n)) /\ SamePool(s, Trading!Credit(s, u, x, n))
BY DEF SamePool, Trading!Debit, Trading!Credit, BookFields

LEMMA MintKeepsPool ==
    ASSUME NEW s, DOMAIN s = BookFields, NEW u, NEW x, NEW n
    PROVE  SamePool(s, Trading!Mint(s, u, x, n))
<1> DEFINE paid == [s EXCEPT !.balances[u][x] = @ + n, !.pnl[u] = @ + n]
<1>1. SamePool(s, paid)
  BY DEF SamePool, BookFields
<1> HIDE DEF paid
<1>2. SamePool(paid, Trading!UpdateTopTraders(paid, u))
  <2>1. \A list : SamePool(paid, [paid EXCEPT !.tops = list])
    BY <1>1 DEF SamePool, BookFields
  <2> QED BY <2>1 DEF Trading!UpdateTopTraders
<1> QED BY <1>1, <1>2 DEF SamePool, Trading!Mint, paid

LEMMA RecordKeepsPool ==
    ASSUME NEW s, DOMAIN s = BookFields, NEW u
    PROVE  SamePool(s, Trading!RecordTrade(s, u))
BY DEF SamePool, Trading!RecordTrade, BookFields

\* The same pool is no less a pool, and no less than no less is no less.
LEMMA SameIsNoLess ==
    ASSUME NEW s, NEW t, PoolTyped(s), SamePool(s, t)
    PROVE  NoLess(s, t) /\ PoolTyped(t)
<1>1. s.pool[1] \in Nat /\ s.pool[2] \in Nat
  BY DEF PoolTyped
<1>2. s.pool[1] * s.pool[2] \in Nat
  BY <1>1, ProductNat
<1> QED BY <1>2 DEF NoLess, PoolTyped, SamePool

LEMMA NoLessTyped ==
    ASSUME NEW s, NEW t, PoolTyped(s), NoLess(s, t)
    PROVE  PoolTyped(t)
BY DEF NoLess, PoolTyped

LEMMA NoLessThanNoLess ==
    ASSUME NEW s, NEW t, NEW r, PoolTyped(s), NoLess(s, t), NoLess(t, r)
    PROVE  NoLess(s, r)
<1>1. /\ s.pool[1] \in Nat /\ s.pool[2] \in Nat /\ t.pool[1] \in Nat /\ t.pool[2] \in Nat
      /\ r.pool[1] \in Nat /\ r.pool[2] \in Nat
  BY DEF NoLess, PoolTyped
<1>2. /\ s.pool[1] * s.pool[2] \in Nat /\ t.pool[1] * t.pool[2] \in Nat
      /\ r.pool[1] * r.pool[2] \in Nat
  BY <1>1, ProductNat
<1> DEFINE a == s.pool[1] * s.pool[2]
           b == t.pool[1] * t.pool[2]
           c == r.pool[1] * r.pool[2]
<1>3. a <= b /\ b <= c /\ a \in Nat /\ b \in Nat /\ c \in Nat
  BY <1>2 DEF NoLess
<1> HIDE DEF a, b, c
<1>4. a <= c
  BY <1>3
<1> QED BY <1>4 DEF NoLess, a, c

\* Where the pool is no less for the same providers, the invariant and the worth stay.
LEMMA NoLessHolds ==
    ASSUME NEW s, NEW t, BookInv(s), NoLess(s, t)
    PROVE  BookInv(t) /\ TokenWorth(s, t)
<1>1. PoolTyped(s) /\ TokensHeld(s) = s.supply
  BY DEF BookInv
<1>2. BookInv(t)
  BY <1>1, NoLessTyped DEF BookInv, TokensHeld, NoLess
<1>3. TokenWorth(s, t)
  <2> DEFINE a == s.pool[1] * s.pool[2]
             b == t.pool[1] * t.pool[2]
             n == s.supply
  <2>1. a \in Nat /\ b \in Nat /\ n \in Nat /\ a <= b
    <3>1. /\ s.pool[1] \in Nat /\ s.pool[2] \in Nat /\ t.pool[1] \in Nat /\ t.pool[2] \in Nat
          /\ s.supply \in Nat
      BY <1>1 DEF NoLess, PoolTyped
    <3> QED BY <3>1, ProductNat DEF NoLess
  <2> HIDE DEF a, b, n
  <2>2. a * n <= b * n /\ a * n \in Nat /\ b * n \in Nat
    BY <2>1, ProductOrder, ProductNat
  <2>3. a * n * n <= b * n * n /\ a * n * n \in Nat /\ b * n * n \in Nat
    BY <2>1, <2>2, ProductOrder, ProductNat
  <2>4. b * n * n >= a * n * n
    BY <2>3
  <2>5. t.supply = n
    BY DEF NoLess, n
  <2> QED BY <2>4, <2>5 DEF TokenWorth, a, b, n
<1> QED BY <1>2, <1>3

-----------------------------------------------------------------------------
(* Swaps.                                                                  *)

LEMMA SwapTakesNoWorth ==
    ASSUME NEW s, PoolTyped(s), NEW u, NEW x \in {1, 2}, NEW n \in Nat
    PROVE  NoLess(s, Trading!Swapped(s, u, x, n))
<1> DEFINE o == Trading!Other(x)
           out == Trading!Output(s, x, n)
           first == Trading!Debit(s, u, x, n)
           second == Trading!Debit(first, u, x, n)
           paid == Trading!Credit(second, u, o, n + out)
           fee == Trading!Fee(n)
           t == [paid EXCEPT !.pool[x] = @ + n - fee, !.pool[o] = Trading!Minus(@, out)]
<1>1. o \in {1, 2} /\ o # x /\ \A y \in {1, 2} : y = x \/ y = o
  BY DEF Trading!Other
<1>2. SamePool(s, paid)
  <2>1. SamePool(s, first)
    BY DebitKeepsPool DEF PoolTyped
  <2>2. SamePool(first, second)
    BY <2>1, DebitKeepsPool DEF PoolTyped, SamePool
  <2>3. SamePool(second, paid)
    BY <2>1, <2>2, DebitKeepsPool DEF PoolTyped, SamePool
  <2> QED BY <2>1, <2>2, <2>3 DEF SamePool
<1>3. Trading!Swapped(s, u, x, n) = IF Trading!Pooled(s) THEN t ELSE paid
  BY DEF Trading!Swapped
<1> HIDE DEF first, second, paid, o
<1>4. CASE ~Trading!Pooled(s)
  BY <1>2, <1>3, <1>4, SameIsNoLess
<1>5. CASE Trading!Pooled(s)
  <2> DEFINE p == s.pool[x]
             r == s.pool[o]
             unit == trading.FeeUnit
             rest == (n * (unit - trading.PoolFee)) \div unit
  <2>1. p \in Nat \ {0} /\ r \in Nat \ {0}
    BY <1>1, <1>5 DEF Trading!Pooled, PoolTyped, Trading!XLM, Trading!USDCSIM
  <2>2. fee \in 0..n /\ rest \in Nat /\ rest <= n - fee
    <3>1. unit \in Nat \ {0} /\ trading.PoolFee \in 0..unit
      BY TradingConstants
    <3> HIDE DEF unit
    <3>2. /\ (n * trading.PoolFee) \div unit \in 0..n
          /\ (n * (unit - trading.PoolFee)) \div unit \in Nat
          /\ (n * (unit - trading.PoolFee)) \div unit <= n - ((n * trading.PoolFee) \div unit)
      BY <3>1, FeeAndRest
    <3> QED BY <3>2 DEF Trading!Fee, unit
  <2>3. out = (r * rest) \div (p + rest)
    BY <1>5 DEF Trading!Output, o
  <2> HIDE DEF out, rest, fee, p, r
  <2>4. out \in 0..r /\ (p + rest) * (r - out) >= p * r
    BY <2>1, <2>2, <2>3, SwapKeepsProduct
  <2>5. Trading!Minus(r, out) = r - out
    BY <2>1, <2>4 DEF Trading!Minus
  <2>6. t.pool[x] = p + n - fee /\ t.pool[o] = r - out
        /\ t.pool = [y \in {1, 2} |-> t.pool[y]] /\ DOMAIN t = DOMAIN s
        /\ t.supply = s.supply /\ t.positions = s.positions
    <3>1. paid.pool \in [{1, 2} -> Nat] /\ paid.pool[x] = p /\ paid.pool[o] = r
          /\ DOMAIN paid = BookFields
      BY <1>2 DEF SamePool, PoolTyped, p, r
    <3>2. t.pool = [paid.pool EXCEPT ![x] = @ + n - fee, ![o] = Trading!Minus(@, out)]
          /\ DOMAIN t = DOMAIN paid /\ t.supply = paid.supply /\ t.positions = paid.positions
      BY <3>1 DEF BookFields
    <3> HIDE DEF t
    <3>3. t.pool[x] = p + n - fee /\ t.pool[o] = r - out
          /\ t.pool = [y \in {1, 2} |-> t.pool[y]]
      BY <1>1, <2>5, <3>1, <3>2
    <3> QED BY <1>2, <3>2, <3>3 DEF SamePool
  <2> HIDE DEF t
  <2>7. p + n - fee \in Nat /\ r - out \in Nat
    BY <2>1, <2>2, <2>4
  <2>8. t.pool \in [{1, 2} -> Nat]
    <3>1. \A y \in {1, 2} : t.pool[y] \in Nat
      BY <1>1, <2>6, <2>7
    <3> QED BY <2>6, <3>1
  <2>9. p * r <= (p + n - fee) * (r - out)
    <3>1. p + rest <= p + n - fee /\ p + rest \in Nat /\ p + n - fee \in Int /\ r - out \in Nat
      BY <2>1, <2>2, <2>7
    <3>2. (p + rest) * (r - out) <= (p + n - fee) * (r - out)
      BY <3>1, ProductOrder
    <3>3. /\ (p + rest) * (r - out) \in Nat /\ (p + n - fee) * (r - out) \in Nat
          /\ p * r \in Nat
      BY <2>1, <2>7, <3>1, ProductNat
    <3> QED BY <2>4, <3>2, <3>3
  <2>10. s.pool[1] * s.pool[2] <= t.pool[1] * t.pool[2]
    <3>1. CASE x = 1
      BY <1>1, <2>6, <2>9, <3>1 DEF p, r
    <3>2. CASE x = 2
      <4>1. o = 1
        BY <1>1, <3>2
      <4>2. s.pool[2] * s.pool[1] <= t.pool[2] * t.pool[1]
        BY <2>6, <2>9, <3>2, <4>1 DEF p, r
      <4>3. s.pool[2] \in Nat /\ s.pool[1] \in Nat /\ t.pool[2] \in Nat /\ t.pool[1] \in Nat
        BY <2>8 DEF PoolTyped
      <4>4. s.pool[2] * s.pool[1] = s.pool[1] * s.pool[2]
            /\ t.pool[2] * t.pool[1] = t.pool[1] * t.pool[2]
        BY <4>3, ProductNat
      <4> QED BY <4>2, <4>4
    <3> QED BY <3>1, <3>2
  <2>11. NoLess(s, t)
    BY <2>6, <2>8, <2>10 DEF NoLess
  <2> QED BY <1>3, <1>5, <2>11
<1> QED BY <1>4, <1>5

-----------------------------------------------------------------------------
(* Batches.                                                                *)

LEMMA PerformedTakesNoWorth ==
    ASSUME NEW s, PoolTyped(s), NEW op \in Trading!Operations
    PROVE  NoLess(s, Trading!Performed(s, op).s)
<1> DEFINE x == op.x
           n == op.amount
           t == [s EXCEPT !.pool = [y \in Trading!Assets |-> @[y] + n]]
           traded == Trading!Swapped(s, op.user, x, n)
           once == Trading!Mint(s, op.user, Trading!XLM, n)
           twice == Trading!Mint(once, op.user, Trading!USDCSIM, n)
<1>1. /\ x \in {1, 2} /\ n \in Nat
      /\ op.kind \in {"Swap", "AddLiquidity", "RemoveLiquidity", "Mint"}
  BY TradingConstants DEF Trading!Operations, Trading!Assets, Trading!XLM, Trading!USDCSIM
<1>2. NoLess(s, s)
  <2>1. SamePool(s, s)
    BY DEF SamePool
  <2> QED BY <2>1, SameIsNoLess
<1>3. NoLess(s, Trading!RecordTrade(traded, op.user))
  <2>1. NoLess(s, traded)
    BY <1>1, SwapTakesNoWorth
  <2> HIDE DEF traded
  <2>2. PoolTyped(traded)
    BY <2>1, NoLessTyped
  <2>3. SamePool(traded, Trading!RecordTrade(traded, op.user))
    BY <2>2, RecordKeepsPool DEF PoolTyped
  <2>4. NoLess(traded, Trading!RecordTrade(traded, op.user))
    BY <2>2, <2>3, SameIsNoLess
  <2> QED BY <2>1, <2>4, NoLessThanNoLess
<1>4. NoLess(s, t)
  <2>1. /\ DOMAIN t = DOMAIN s /\ t.supply = s.supply /\ t.positions = s.positions
        /\ t.pool = [y \in {1, 2} |-> s.pool[y] + n]
    BY DEF PoolTyped, BookFields, Trading!Assets, Trading!XLM, Trading!USDCSIM
  <2> HIDE DEF t
  <2>2. s.pool[1] \in Nat /\ s.pool[2] \in Nat
    BY DEF PoolTyped
  <2>3. t.pool \in [{1, 2} -> Nat] /\ t.pool[1] = s.pool[1] + n /\ t.pool[2] = s.pool[2] + n
    BY <1>1, <2>1, <2>2
  <2>4. s.pool[1] * s.pool[2] <= t.pool[1] * t.pool[2]
    <3> DEFINE a == s.pool[1]
               b == s.pool[2]
    <3>1. a \in Nat /\ b \in Nat /\ a + n \in Nat /\ b + n \in Nat /\ a <= a + n /\ b <= b + n
      BY <1>1, <2>2
    <3> HIDE DEF a, b
    <3>2. a * b <= (a + n) * b
      BY <3>1, ProductOrder
    <3>3. b * (a + n) <= (b + n) * (a + n)
      BY <3>1, ProductOrder
    <3>4. /\ a * b \in Nat /\ (a + n) * b \in Nat /\ (a + n) * (b + n) \in Nat
          /\ b * (a + n) = (a + n) * b /\ (b + n) * (a + n) = (a + n) * (b + n)
      BY <3>1, ProductNat
    <3>5. a * b <= (a + n) * (b + n)
      BY <3>2, <3>3, <3>4
    <3> QED BY <2>3, <3>5 DEF a, b
  <2> QED BY <2>1, <2>3, <2>4 DEF NoLess
<1>5. NoLess(s, twice)
  <2>1. SamePool(s, once)
    BY MintKeepsPool DEF PoolTyped
  <2> HIDE DEF once
  <2>2. NoLess(s, once) /\ PoolTyped(once)
    BY <2>1, SameIsNoLess
  <2>3. SamePool(once, twice)
    BY <2>2, MintKeepsPool DEF PoolTyped
  <2> HIDE DEF twice
  <2>4. NoLess(once, twice)
    BY <2>2, <2>3, SameIsNoLess
  <2> QED BY <2>2, <2>4, NoLessThanNoLess
<1>6. NoLess(s, Trading!Mint(s, op.user, x, n))
  <2>1. SamePool(s, Trading!Mint(s, op.user, x, n))
    BY MintKeepsPool DEF PoolTyped
  <2> QED BY <2>1, SameIsNoLess
<1>7. Trading!Performed(s, op).s \in {s, Trading!RecordTrade(traded, op.user), t, twice,
                                      Trading!Mint(s, op.user, x, n)}
  BY <1>1 DEF Trading!Performed
<1> HIDE DEF t, traded, once, twice, x, n
<1> QED BY <1>2, <1>3, <1>4, <1>5, <1>6, <1>7

\* One operation of a batch after the ones before it.
RunStep(before, op) ==
    IF before.end = "panic" THEN before
    ELSE [end |-> IF Trading!Performed(before.s, op).end = "ok" THEN before.end
                  ELSE Trading!Performed(before.s, op).end,
          s |-> Trading!Performed(before.s, op).s]

\* g is the recursion of Run over the first n operations.
Runs(g, ops, n) ==
    g = [k \in 0..n |-> IF k = 0 THEN [end |-> "ok", s |-> s1] ELSE RunStep(g[k - 1], ops[k])]

LEMMA RunExists ==
    ASSUME NEW ops, NEW n \in Nat
    PROVE  \E g : Runs(g, ops, n)
<1> DEFINE S == {m \in Nat : \E g : Runs(g, ops, m)}
<1>1. 0 \in S
  <2> DEFINE g == [k \in 0..0 |-> [end |-> "ok", s |-> s1]]
  <2>1. Runs(g, ops, 0)
    BY DEF Runs
  <2> QED BY <2>1
<1>2. ASSUME NEW m \in Nat, m \in S PROVE m + 1 \in S
  <2>1. PICK g : Runs(g, ops, m)
    BY <1>2
  <2> DEFINE h == [k \in 0..(m + 1) |-> IF k = m + 1 THEN RunStep(g[m], ops[m + 1]) ELSE g[k]]
  <2>2. ASSUME NEW k \in 0..(m + 1)
        PROVE  h[k] = IF k = 0 THEN [end |-> "ok", s |-> s1] ELSE RunStep(h[k - 1], ops[k])
    <3>1. CASE k = m + 1
      <4>1. h[k] = RunStep(g[m], ops[m + 1]) /\ h[k - 1] = g[m] /\ k # 0
        BY <3>1
      <4> QED BY <3>1, <4>1
    <3>2. CASE k # m + 1
      <4>1. k \in 0..m /\ h[k] = g[k] /\ (k # 0 => k - 1 \in 0..m /\ h[k - 1] = g[k - 1])
        BY <3>2
      <4> QED BY <2>1, <4>1 DEF Runs
    <3> QED BY <3>1, <3>2
  <2>3. Runs(h, ops, m + 1)
    BY <2>2 DEF Runs
  <2> QED BY <2>3
<1>3. n \in S
  <2> HIDE DEF S
  <2> QED BY <1>1, <1>2, NatSetInduction
<1> QED BY <1>3

\* A batch leaves no less in the pool, however many operations it has.
LEMMA RunTakesNoWorth ==
    ASSUME PoolTyped(s1), NEW n \in Nat, NEW ops \in [1..n -> Trading!Operations]
    PROVE  NoLess(s1, Trading!Run(ops).s)
<1> DEFINE r == CHOOSE g : Runs(g, ops, n)
           S == {k \in Nat : k <= n => NoLess(s1, r[k].s)}
<1>1. Len(ops) = n
  BY FunctionIsSequence
<1>2. Trading!Run(ops) = r[n]
  BY <1>1 DEF Trading!Run, Runs, RunStep
<1>3. Runs(r, ops, n)
  BY RunExists
<1> HIDE DEF r
<1>4. 0 \in S
  <2>1. r[0].s = s1
    BY <1>3 DEF Runs
  <2>2. SamePool(s1, s1)
    BY DEF SamePool
  <2> QED BY <2>1, <2>2, SameIsNoLess
<1>5. ASSUME NEW k \in Nat, k \in S PROVE k + 1 \in S
  <2> SUFFICES ASSUME k + 1 <= n PROVE NoLess(s1, r[k + 1].s)
    OBVIOUS
  <2>1. k + 1 \in 0..n /\ k + 1 \in 1..n /\ (k + 1) - 1 = k /\ k + 1 # 0 /\ k <= n
    OBVIOUS
  <2>2. NoLess(s1, r[k].s)
    BY <1>5, <2>1
  <2>3. r[k + 1] = RunStep(r[k], ops[k + 1])
    BY <1>3, <2>1 DEF Runs
  <2>4. ops[k + 1] \in Trading!Operations
    BY <2>1
  <2>5. PoolTyped(r[k].s)
    BY <2>2, NoLessTyped
  <2>6. NoLess(r[k].s, Trading!Performed(r[k].s, ops[k + 1]).s)
    BY <2>4, <2>5, PerformedTakesNoWorth
  <2>7. r[k + 1].s = r[k].s \/ r[k + 1].s = Trading!Performed(r[k].s, ops[k + 1]).s
    BY <2>3 DEF RunStep
  <2> QED BY <2>2, <2>6, <2>7, NoLessThanNoLess
<1>6. n \in S
  <2> HIDE DEF S
  <2> QED BY <1>4, <1>5, NatSetInduction
<1> QED BY <1>2, <1>6

-----------------------------------------------------------------------------
(* Deposits and withdrawals.                                               *)

\* The loop of the root, over m rounds.
RootRound(y, p) ==
    IF p.guess = p.last THEN p
    ELSE [last |-> p.guess, guess |-> (p.guess + y \div p.guess) \div 2]

RootRun(g, y, m) ==
    g = [n \in 0..m |-> IF n = 0 THEN [last |-> 0, guess |-> y] ELSE RootRound(y, g[n - 1])]

\* The guesses for the root of a positive number are positive.
RootGuesses(y) ==
    IF y = 0 THEN {[last |-> 0, guess |-> 0]} ELSE [last : Nat, guess : Nat \ {0}]

LEMMA NewtonStep ==
    ASSUME NEW y \in Nat \ {0}, NEW g \in Nat \ {0}
    PROVE  (g + y \div g) \div 2 \in Nat \ {0}
<1> DEFINE q == y \div g
<1>1. q \in Nat
  BY RoundedDown
<1>2. g + q >= 2
  <2>1. CASE g = 1
    <3>1. 1 * g <= y
      BY <2>1
    <3>2. 1 <= q
      BY <3>1, QuotientOrder
    <3> QED BY <1>1, <2>1, <3>2
  <2>2. CASE g # 1
    <3> HIDE DEF q
    <3> QED BY <1>1, <2>2
  <2> QED BY <2>1, <2>2
<1> HIDE DEF q
<1>3. g + q \in Nat /\ 1 * 2 <= g + q
  BY <1>1, <1>2
<1>4. 1 <= (g + q) \div 2
  BY <1>3, QuotientOrder
<1>5. (g + q) \div 2 \in Nat
  BY <1>3, RoundedDown
<1>6. (g + q) \div 2 \in Nat \ {0}
  BY <1>4, <1>5
<1> QED BY <1>6 DEF q

LEMMA RootRoundStays ==
    ASSUME NEW y \in Nat, NEW p \in RootGuesses(y)
    PROVE  RootRound(y, p) \in RootGuesses(y)
<1>1. CASE y = 0
  BY <1>1 DEF RootGuesses, RootRound
<1>2. CASE y # 0
  <2>1. p.guess \in Nat \ {0} /\ p.last \in Nat
    BY <1>2 DEF RootGuesses
  <2>2. (p.guess + y \div p.guess) \div 2 \in Nat \ {0}
    BY <1>2, <2>1, NewtonStep
  <2> QED BY <1>2, <2>1, <2>2 DEF RootGuesses, RootRound
<1> QED BY <1>1, <1>2

LEMMA RootRunStays ==
    ASSUME NEW y \in Nat, NEW m \in Nat
    PROVE  /\ \E g : RootRun(g, y, m)
           /\ \A g : RootRun(g, y, m) => g[m] \in RootGuesses(y)
<1> DEFINE X == RootGuesses(y)
           a == [last |-> 0, guess |-> y]
           f == [p \in Nat \X X |-> RootRound(y, p[2])]
<1>1. a \in X
  BY DEF RootGuesses
<1>2. \A p \in X : RootRound(y, p) \in X
  BY RootRoundStays
<1> HIDE DEF X, a
<1>3. f \in [Nat \X X -> X] /\ \A k \in Nat, p \in X : f[<<k, p>>] = RootRound(y, p)
  BY <1>2
<1> HIDE DEF f
<1>4. \E g : RootRun(g, y, m)
  <2>1. PICK g : Recursion(g, X, a, f, m)
    BY <1>1, <1>3, RecursionExists
  <2>2. g \in [0..m -> X] /\ g[0] = a /\ \A k \in 1..m : g[k] = f[<<k, g[k - 1]>>]
    BY <2>1 DEF Recursion
  <2>3. \A k \in 1..m : g[k] = RootRound(y, g[k - 1])
    <3> TAKE k \in 1..m
    <3>1. g[k - 1] \in X /\ k \in Nat
      BY <2>2
    <3> QED BY <1>3, <2>2, <3>1
  <2>4. RootRun(g, y, m)
    BY <2>2, <2>3 DEF RootRun, a
  <2> QED BY <2>4
<1>5. ASSUME NEW g, RootRun(g, y, m) PROVE g[m] \in X
  <2>1. g[0] \in X
    BY <1>1, <1>5 DEF RootRun, a
  <2>2. ASSUME NEW k \in 1..m, g[k - 1] \in X PROVE g[k] \in X
    <3>1. g[k] = RootRound(y, g[k - 1])
      BY <1>5 DEF RootRun
    <3> QED BY <1>2, <2>2, <3>1
  <2> QED BY <2>1, <2>2, RecursionStays
<1> QED BY <1>4, <1>5 DEF X

LEMMA RootIsNat ==
    ASSUME NEW y \in Nat
    PROVE  Trading!Root(y) \in Nat
<1> DEFINE r == CHOOSE g : RootRun(g, y, 100)
<1>1. Trading!Root(y) = r[100].guess
  BY DEF Trading!Root, RootRun, RootRound
<1>2. r[100] \in RootGuesses(y)
  <2>1. 100 \in Nat
    OBVIOUS
  <2> QED BY <2>1, RootRunStays
<1> HIDE DEF r
<1>3. \A p \in RootGuesses(y) : p.guess \in Nat
  BY DEF RootGuesses
<1> HIDE DEF RootGuesses
<1> QED BY <1>1, <1>2, <1>3

\* t has another pool than s, and p as the position of u, who holds what the supply grew.
PositionMoved(s, t, u, p) ==
    /\ DOMAIN t = BookFields /\ t.pool \in [{1, 2} -> Nat] /\ t.supply \in Nat
    /\ t.positions = [s.positions EXCEPT ![u] = p]
    /\ t.supply - s.supply = p.tokens - s.positions[u].tokens

LEMMA PositionMoves ==
    ASSUME NEW s, BookInv(s), NEW t, NEW u \in trading.Users, NEW p \in Trading!LPPosition,
           PositionMoved(s, t, u, p)
    PROVE  BookInv(t)
<1> DEFINE f == [v \in trading.Users |-> s.positions[v].tokens]
           h == [v \in trading.Users |-> t.positions[v].tokens]
<1>1. s.positions \in [trading.Users -> Trading!LPPosition] /\ TokensHeld(s) = s.supply
      /\ s.supply \in Nat
  BY DEF BookInv, PoolTyped
<1>2. t.positions \in [trading.Users -> Trading!LPPosition] /\ t.positions[u] = p
      /\ \A v \in trading.Users : v # u => t.positions[v] = s.positions[v]
  BY <1>1 DEF PositionMoved
<1>3. PoolTyped(t)
  BY <1>2 DEF PoolTyped, PositionMoved
<1>4. \A v \in trading.Users : f[v] \in Int /\ h[v] \in Int /\ (u # v => h[v] = f[v])
  BY <1>1, <1>2 DEF Trading!LPPosition
<1>5. h[u] = p.tokens /\ f[u] = s.positions[u].tokens
  BY <1>2
<1>6. TokensHeld(s) = SetTotal(f, trading.Users) /\ TokensHeld(t) = SetTotal(h, trading.Users)
  BY DEF TokensHeld
<1> HIDE DEF f, h
<1>7. SetTotal(h, trading.Users) = SetTotal(f, trading.Users) + h[u] - f[u]
  BY <1>4, TradingConstants, SetTotalUpdate
<1>8. p.tokens \in Nat /\ s.positions[u].tokens \in Nat
  BY <1>1 DEF Trading!LPPosition
<1>9. TokensHeld(t) = t.supply
  BY <1>1, <1>5, <1>6, <1>7, <1>8 DEF PositionMoved
<1> QED BY <1>3, <1>9 DEF BookInv

\* Nobody holds more tokens than there are.
LEMMA SupplyCovers ==
    ASSUME NEW s, BookInv(s), NEW u \in trading.Users
    PROVE  s.positions[u].tokens \in Nat /\ s.positions[u].tokens <= s.supply
<1> DEFINE f == [v \in trading.Users |-> s.positions[v].tokens]
<1>1. \A v \in trading.Users : f[v] = s.positions[v].tokens /\ f[v] \in Nat
  BY DEF BookInv, PoolTyped, Trading!LPPosition
<1>2. SetTotal(f, trading.Users) = s.supply
  BY DEF BookInv, TokensHeld
<1> HIDE DEF f
<1>3. \A v \in trading.Users : f[v] <= SetTotal(f, trading.Users)
  BY <1>1, TradingConstants, SetTotalDominates
<1> QED BY <1>1, <1>2, <1>3

\* What the pool does in a step that stores s.
BookGoes == BookInv(s1') /\ TokenWorth(s1, s1')

\* Balances that move after the pool did.
LEMMA PaidOut ==
    ASSUME NEW s, NEW t, NEW r, BookInv(t), TokenWorth(s, t), SamePool(t, r)
    PROVE  BookInv(r) /\ TokenWorth(s, r)
BY DEF BookInv, PoolTyped, TokensHeld, TokenWorth, SamePool

LEMMA LpTokensFair ==
    ASSUME NEW s, PoolTyped(s), NEW a \in Nat, NEW b \in Nat
    PROVE  LET n == Trading!LpTokens(s, a, b)
           IN  /\ n \in Nat
               /\ s.supply > 0 /\ n > 0 =>
                    /\ s.pool[1] * (s.supply + n) <= (s.pool[1] + a) * s.supply
                    /\ s.pool[2] * (s.supply + n) <= (s.pool[2] + b) * s.supply
<1> DEFINE t == s.supply
           p == s.pool[1]
           q == s.pool[2]
           x == IF p > 0 THEN (a * t) \div p ELSE 0
           y == IF q > 0 THEN (b * t) \div q ELSE 0
           n == Trading!LpTokens(s, a, b)
<1>1. t \in Nat /\ p \in Nat /\ q \in Nat
  BY DEF PoolTyped
<1>2. n = IF t = 0 THEN Trading!Root(a * b) ELSE Trading!Lesser(x, y)
  BY DEF Trading!LpTokens, Trading!XLM, Trading!USDCSIM
<1>3. a * b \in Nat /\ a * t \in Nat /\ b * t \in Nat
  BY <1>1, ProductNat
<1> SUFFICES n \in Nat /\ (t > 0 /\ n > 0 => p * (t + n) <= (p + a) * t /\ q * (t + n) <= (q + b) * t)
  OBVIOUS
<1> HIDE DEF t, p, q, n
<1>4. x \in Nat /\ y \in Nat
  BY <1>1, <1>3, RoundedDown
<1>5. CASE t = 0
  BY <1>2, <1>3, <1>5, RootIsNat
<1>6. CASE t # 0
  <2>1. n \in Nat /\ n <= x /\ n <= y
    <3> HIDE DEF x, y
    <3> QED BY <1>2, <1>4, <1>6 DEF Trading!Lesser
  <2>2. ASSUME n > 0
        PROVE  p * (t + n) <= (p + a) * t /\ q * (t + n) <= (q + b) * t
    <3>1. p \in Nat \ {0} /\ n <= (a * t) \div p
      BY <1>1, <2>1, <2>2
    <3>2. q \in Nat \ {0} /\ n <= (b * t) \div q
      BY <1>1, <2>1, <2>2
    <3> HIDE DEF x, y
    <3>3. p * (t + n) <= (p + a) * t
      BY <1>1, <2>1, <3>1, DepositKeepsSide
    <3>4. q * (t + n) <= (q + b) * t
      BY <1>1, <2>1, <3>2, DepositKeepsSide
    <3> QED BY <3>3, <3>4
  <2> QED BY <2>1, <2>2
<1> QED BY <1>5, <1>6

LEMMA DepositKeepsWorth ==
    ASSUME BookInv(s1), NEW u \in trading.Users, NEW a \in Nat, NEW b \in Nat,
           Trading!AddLiquidity(u, a, b)
    PROVE  BookGoes
<1> DEFINE n == Trading!LpTokens(s1, a, b)
           once == Trading!Debit(s1, u, Trading!XLM, a)
           paid == Trading!Debit(once, u, Trading!USDCSIM, b)
           old == s1.positions[u]
           new == [xlm |-> old.xlm + a, usdc |-> old.usdc + b, tokens |-> old.tokens + n]
<1>1. PoolTyped(s1)
  BY DEF BookInv
<1>2. n > 0 /\ s1' = [paid EXCEPT !.pool[Trading!XLM] = @ + a, !.pool[Trading!USDCSIM] = @ + b,
                                  !.supply = @ + n,
                                  !.positions[u] = [xlm |-> @.xlm + a, usdc |-> @.usdc + b,
                                                    tokens |-> @.tokens + n]]
  BY DEF Trading!AddLiquidity, Trading!Stored
<1>3. SamePool(s1, paid)
  <2>1. SamePool(s1, once)
    BY <1>1, DebitKeepsPool DEF PoolTyped
  <2> HIDE DEF once
  <2>2. DOMAIN once = BookFields
    BY <1>1, <2>1 DEF SamePool, PoolTyped
  <2>3. SamePool(once, paid)
    BY <2>2, DebitKeepsPool
  <2> HIDE DEF paid
  <2> QED BY <2>1, <2>3 DEF SamePool
<1> HIDE DEF once, paid
<1>4. /\ n \in Nat
      /\ s1.supply > 0 =>
           /\ s1.pool[1] * (s1.supply + n) <= (s1.pool[1] + a) * s1.supply
           /\ s1.pool[2] * (s1.supply + n) <= (s1.pool[2] + b) * s1.supply
  BY <1>1, <1>2, LpTokensFair
<1> HIDE DEF n
<1>5. /\ s1.pool[1] \in Nat /\ s1.pool[2] \in Nat /\ s1.supply \in Nat
      /\ old \in Trading!LPPosition /\ s1.positions \in [trading.Users -> Trading!LPPosition]
      /\ DOMAIN s1 = BookFields
  BY <1>1 DEF PoolTyped
<1>6. /\ DOMAIN s1' = BookFields /\ s1'.supply = s1.supply + n
      /\ s1'.pool = [s1.pool EXCEPT ![1] = @ + a, ![2] = @ + b]
      /\ s1'.positions = [s1.positions EXCEPT ![u] = new]
  <2>1. /\ DOMAIN paid = BookFields /\ paid.pool = s1.pool /\ paid.supply = s1.supply
        /\ paid.positions = s1.positions
    BY <1>3, <1>5 DEF SamePool
  <2>2. /\ DOMAIN s1' = BookFields /\ s1'.supply = paid.supply + n
        /\ s1'.pool = [paid.pool EXCEPT ![1] = @ + a, ![2] = @ + b]
    BY <1>2, <2>1 DEF BookFields, Trading!XLM, Trading!USDCSIM
  <2>3. s1'.positions = [paid.positions EXCEPT
                            ![u] = [xlm |-> @.xlm + a, usdc |-> @.usdc + b, tokens |-> @.tokens + n]]
    BY <1>2, <2>1 DEF BookFields
  <2> QED BY <2>1, <2>2, <2>3
<1>7. /\ s1'.pool \in [{1, 2} -> Nat] /\ s1'.pool[1] = s1.pool[1] + a /\ s1'.pool[2] = s1.pool[2] + b
      /\ s1'.supply \in Nat
  BY <1>1, <1>4, <1>5, <1>6 DEF PoolTyped
<1>8. new \in Trading!LPPosition /\ new.tokens = old.tokens + n
  BY <1>4, <1>5 DEF Trading!LPPosition
<1>9. BookInv(s1')
  <2>1. s1'.supply - s1.supply = new.tokens - s1.positions[u].tokens
    BY <1>4, <1>5, <1>6, <1>8 DEF Trading!LPPosition
  <2>2. PositionMoved(s1, s1', u, new)
    BY <1>6, <1>7, <2>1 DEF PositionMoved
  <2> HIDE DEF new
  <2> QED BY <1>8, <2>2, PositionMoves
<1>10. TokenWorth(s1, s1')
  <2> SUFFICES ASSUME s1.supply > 0
               PROVE  s1'.pool[1] * s1'.pool[2] * s1.supply * s1.supply
                        >= s1.pool[1] * s1.pool[2] * s1'.supply * s1'.supply
    BY DEF TokenWorth
  <2>1. /\ s1.pool[1] * s1'.supply <= s1'.pool[1] * s1.supply
        /\ s1.pool[2] * s1'.supply <= s1'.pool[2] * s1.supply
    BY <1>4, <1>6, <1>7
  <2>2. s1'.pool[1] \in Nat /\ s1'.pool[2] \in Nat
    BY <1>7
  <2> QED BY ONLY <1>5, <1>7, <2>1, <2>2, BothSides
<1> QED BY <1>9, <1>10 DEF BookGoes

LEMMA WithdrawalKeepsWorth ==
    ASSUME BookInv(s1), NEW u \in trading.Users, NEW n \in Nat, Trading!RemoveLiquidity(u, n)
    PROVE  BookGoes
<1> DEFINE t == s1.supply
           a == (n * s1.pool[1]) \div t
           b == (n * s1.pool[2]) \div t
           old == s1.positions[u]
           new == [xlm |-> Trading!Minus(old.xlm, a), usdc |-> Trading!Minus(old.usdc, b),
                   tokens |-> old.tokens - n]
           s == [s1 EXCEPT !.pool[Trading!XLM] = @ - a, !.pool[Trading!USDCSIM] = @ - b,
                           !.supply = Trading!Minus(@, n),
                           !.positions[u] = [xlm |-> Trading!Minus(@.xlm, a),
                                             usdc |-> Trading!Minus(@.usdc, b),
                                             tokens |-> @.tokens - n]]
           once == Trading!Mint(s, u, Trading!XLM, a)
           twice == Trading!Mint(once, u, Trading!USDCSIM, b)
<1>1. PoolTyped(s1)
  BY DEF BookInv
<1>2. n <= old.tokens /\ t > 0 /\ s1' = twice
  BY DEF Trading!RemoveLiquidity, Trading!Stored, Trading!XLM, Trading!USDCSIM
<1>3. /\ s1.pool[1] \in Nat /\ s1.pool[2] \in Nat /\ t \in Nat \ {0}
      /\ old \in Trading!LPPosition /\ s1.positions \in [trading.Users -> Trading!LPPosition]
      /\ DOMAIN s1 = BookFields /\ s1.pool \in [{1, 2} -> Nat]
  BY <1>1, <1>2 DEF PoolTyped
<1>4. old.tokens \in Nat /\ old.tokens <= t
  BY SupplyCovers
<1>5. n \in 0..t /\ n <= t
  BY <1>2, <1>3, <1>4
<1>6. /\ a \in 0..s1.pool[1] /\ s1.pool[1] * (t - n) <= (s1.pool[1] - a) * t
      /\ b \in 0..s1.pool[2] /\ s1.pool[2] * (t - n) <= (s1.pool[2] - b) * t
  <2> HIDE DEF t
  <2> QED BY <1>3, <1>5, BurnKeepsSide
<1> HIDE DEF a, b, once, twice
<1>7. /\ DOMAIN s = BookFields /\ s.supply = t - n
      /\ s.pool = [s1.pool EXCEPT ![1] = @ - a, ![2] = @ - b]
      /\ s.positions = [s1.positions EXCEPT ![u] = new]
  <2>1. Trading!Minus(t, n) = t - n
    BY <1>3, <1>5 DEF Trading!Minus
  <2>2. /\ DOMAIN s = BookFields /\ s.supply = Trading!Minus(t, n)
        /\ s.pool = [s1.pool EXCEPT ![1] = @ - a, ![2] = @ - b]
    BY <1>3 DEF BookFields, Trading!XLM, Trading!USDCSIM
  <2>3. s.positions = [s1.positions EXCEPT ![u] = new]
    BY <1>3 DEF BookFields
  <2> QED BY <2>1, <2>2, <2>3
<1> HIDE DEF s
<1>8. /\ s.pool[1] = s1.pool[1] - a /\ s.pool[2] = s1.pool[2] - b
      /\ s.pool \in [{1, 2} -> Nat] /\ s.supply \in Nat
  <2>1. s1.pool[1] - a \in Nat /\ s1.pool[2] - b \in Nat
    BY <1>3, <1>6
  <2> QED BY <1>3, <1>5, <1>7, <2>1
<1>9. new \in Trading!LPPosition /\ new.tokens = old.tokens - n
  <2>1. old.xlm \in Nat /\ old.usdc \in Nat
    BY <1>3 DEF Trading!LPPosition
  <2>2. Trading!Minus(old.xlm, a) \in Nat /\ Trading!Minus(old.usdc, b) \in Nat
    <3>1. a \in Nat /\ b \in Nat
      BY <1>6
    <3> QED BY <2>1, <3>1 DEF Trading!Minus
  <2>3. old.tokens - n \in Nat
    BY <1>2, <1>4
  <2> QED BY <2>2, <2>3 DEF Trading!LPPosition
<1>10. BookInv(s)
  <2>1. s.supply - s1.supply = new.tokens - s1.positions[u].tokens
    BY <1>3, <1>4, <1>7, <1>9
  <2>2. PositionMoved(s1, s, u, new)
    BY <1>7, <1>8, <2>1 DEF PositionMoved
  <2> HIDE DEF new
  <2> QED BY <1>9, <2>2, PositionMoves
<1>11. TokenWorth(s1, s)
  <2>1. s1.pool[1] * s.supply <= s.pool[1] * t /\ s1.pool[2] * s.supply <= s.pool[2] * t
    BY <1>6, <1>7, <1>8
  <2>2. s.pool[1] \in Nat /\ s.pool[2] \in Nat /\ t \in Nat
    BY <1>3, <1>8
  <2>3. s.pool[1] * s.pool[2] * t * t >= s1.pool[1] * s1.pool[2] * s.supply * s.supply
    <3> HIDE DEF t
    <3> QED BY ONLY <1>3, <1>8, <2>1, <2>2, BothSides
  <2> QED BY <2>3 DEF TokenWorth
<1>12. SamePool(s, twice)
  <2>1. SamePool(s, once)
    BY <1>7, MintKeepsPool DEF once
  <2>2. DOMAIN once = BookFields
    BY <1>7, <2>1 DEF SamePool
  <2>3. SamePool(once, twice)
    BY <2>2, MintKeepsPool DEF twice
  <2> QED BY <2>1, <2>3 DEF SamePool
<1>13. BookInv(twice) /\ TokenWorth(s1, twice)
  BY <1>10, <1>11, <1>12, PaidOut
<1> QED BY <1>2, <1>13 DEF BookGoes

\* A batch of operations, however many.
LEMMA BatchKeepsWorth ==
    ASSUME BookInv(s1), NEW n \in Nat, NEW ops \in [1..n -> Trading!Operations],
           s1' = Trading!Run(ops).s
    PROVE  BookGoes
<1>1. NoLess(s1, Trading!Run(ops).s)
  BY RunTakesNoWorth DEF BookInv
<1> QED BY <1>1, NoLessHolds DEF BookGoes

\* A recorded trade or a mint.
LEMMA TokenMintKeepsWorth ==
    ASSUME BookInv(s1), NEW u, NEW x, NEW n, s1' = Trading!Mint(s1, u, x, n)
    PROVE  BookGoes
<1>1. PoolTyped(s1)
  BY DEF BookInv
<1>2. SamePool(s1, s1')
  BY <1>1, MintKeepsPool DEF PoolTyped
<1>3. NoLess(s1, s1')
  BY <1>1, <1>2, SameIsNoLess
<1> QED BY <1>3, NoLessHolds DEF BookGoes

\* A swap that is recorded, of what a fee has left.
LEMMA TradeKeepsWorth ==
    ASSUME BookInv(s1), NEW s, SamePool(s1, s), NEW u, NEW x \in {1, 2}, NEW n \in Nat,
           s1' = Trading!RecordTrade(Trading!Swapped(s, u, x, n), u)
    PROVE  BookGoes
<1> DEFINE t == Trading!Swapped(s, u, x, n)
<1>1. PoolTyped(s1)
  BY DEF BookInv
<1>2. NoLess(s1, s) /\ PoolTyped(s)
  BY <1>1, SameIsNoLess
<1>3. NoLess(s, t)
  BY <1>2, SwapTakesNoWorth
<1> HIDE DEF t
<1>4. PoolTyped(t)
  BY <1>2, <1>3, NoLessTyped
<1>5. SamePool(t, Trading!RecordTrade(t, u))
  BY <1>4, RecordKeepsPool DEF PoolTyped
<1>6. NoLess(t, Trading!RecordTrade(t, u))
  BY <1>4, <1>5, SameIsNoLess
<1>7. NoLess(s1, t)
  BY <1>1, <1>2, <1>3, NoLessThanNoLess
<1>8. NoLess(s1, Trading!RecordTrade(t, u))
  BY <1>1, <1>6, <1>7, NoLessThanNoLess
<1> QED BY <1>8, NoLessHolds DEF BookGoes, t

LEMMA SwapTokensGoesOn ==
    ASSUME BookInv(s1), NEW u \in trading.Users, NEW x \in {1, 2}, NEW n \in Nat,
           Trading!SwapTokens(u, x, n)
    PROVE  BookGoes
<1> DEFINE tier == Trading!Tier(s1, u)
           fee == (n * trading.TierFee[tier]) \div trading.FeeUnit
           left == IF fee > 0 THEN Trading!Debit(s1, u, x, fee) ELSE s1
<1>1. s1' = Trading!RecordTrade(Trading!Swapped(left, u, x, n - fee), u)
  BY DEF Trading!SwapTokens, Trading!Stored
<1>2. fee \in 0..n
  <2>1. tier \in {1, 2}
    BY DEF Trading!Tier
  <2> HIDE DEF tier
  <2>2. trading.TierFee[tier] \in 0..trading.FeeUnit /\ trading.FeeUnit \in Nat \ {0}
    BY <2>1, TradingConstants
  <2> QED BY <2>2, FeeAndRest
<1>3. SamePool(s1, left)
  <2>1. DOMAIN s1 = BookFields
    BY DEF BookInv, PoolTyped
  <2>2. SamePool(s1, s1)
    BY DEF SamePool
  <2> QED BY <2>1, <2>2, DebitKeepsPool
<1> HIDE DEF fee, left
<1>4. n - fee \in Nat
  BY <1>2
<1> QED BY <1>1, <1>3, <1>4, TradeKeepsWorth

LEMMA SafeSwapGoesOn ==
    ASSUME BookInv(s1), NEW u \in trading.Users, NEW x \in {1, 2}, NEW n \in Nat,
           Trading!SafeSwap(u, x, n)
    PROVE  BookGoes
<1>1. SamePool(s1, s1) /\ PoolTyped(s1)
  BY DEF SamePool, BookInv
<1>2. \/ s1' = Trading!RecordTrade(Trading!Swapped(s1, u, x, n), u)
      \/ s1' = Trading!RecordTrade(s1, u)
  BY DEF Trading!SafeSwap, Trading!Stored
<1>3. ASSUME s1' = Trading!RecordTrade(s1, u) PROVE BookGoes
  <2>1. SamePool(s1, s1')
    BY <1>1, <1>3, RecordKeepsPool DEF PoolTyped
  <2>2. NoLess(s1, s1')
    BY <1>1, <2>1, SameIsNoLess
  <2> QED BY <2>2, NoLessHolds DEF BookGoes
<1> QED BY <1>1, <1>2, <1>3, TradeKeepsWorth

LEMMA RecordPnlTradeGoesOn ==
    ASSUME BookInv(s1), NEW u, NEW x, NEW a, NEW b, Trading!RecordPnlTrade(u, x, a, b)
    PROVE  BookGoes
<1> DEFINE held == s1.balances[u][x]
           cost == s1.basis[u][x]
           released == (cost * a) \div held
           gone == IF cost = 0 THEN s1
                   ELSE [s1 EXCEPT !.basis[u][x] = @ - released,
                           !.realized[u] = @ + Trading!XlmValue(Trading!Other(x), b) - released]
           once == Trading!Debit(gone, u, x, a)
           paid == Trading!Credit(once, u, Trading!Other(x), b)
           noted == [paid EXCEPT !.basis[u][Trading!Other(x)] = @ + Trading!XlmValue(x, a)]
<1>1. s1' = Trading!RecordTrade(noted, u)
  BY DEF Trading!RecordPnlTrade, Trading!Stored
<1>2. PoolTyped(s1) /\ DOMAIN s1 = BookFields
  BY DEF BookInv, PoolTyped
<1>3. SamePool(s1, gone)
  BY <1>2 DEF SamePool, BookFields
<1> HIDE DEF gone
<1>4. SamePool(gone, once)
  BY <1>2, <1>3, DebitKeepsPool DEF SamePool
<1> HIDE DEF once
<1>5. SamePool(once, paid)
  BY <1>2, <1>3, <1>4, DebitKeepsPool DEF SamePool
<1> HIDE DEF paid
<1>6. DOMAIN paid = BookFields
  BY <1>2, <1>3, <1>4, <1>5 DEF SamePool
<1>7. SamePool(paid, noted)
  BY <1>6 DEF SamePool, BookFields
<1> HIDE DEF noted
<1>8. SamePool(noted, Trading!RecordTrade(noted, u))
  BY <1>6, <1>7, RecordKeepsPool DEF SamePool
<1>9. SamePool(s1, s1')
  BY <1>1, <1>3, <1>4, <1>5, <1>7, <1>8 DEF SamePool
<1>10. NoLess(s1, s1')
  BY <1>2, <1>9, SameIsNoLess
<1> QED BY <1>10, NoLessHolds DEF BookGoes

LEMMA BookGoesOn ==
    ASSUME BookInv(s1), Trading!Next
    PROVE  BookGoes
<1>1. trading.Amounts \subseteq Nat /\ Trading!Assets = {1, 2}
  BY TradingConstants DEF Trading!Assets, Trading!XLM, Trading!USDCSIM
<1>2. ASSUME NEW u \in trading.Users, NEW n \in trading.Amounts, NEW x \in {1, 2},
             \/ Trading!MintToken(u, x, n)
             \/ Trading!SwapTokens(u, x, n)
             \/ Trading!SafeSwap(u, x, n)
             \/ \E out \in trading.Amounts : Trading!RecordPnlTrade(u, x, n, out)
      PROVE  BookGoes
  <2>1. CASE Trading!MintToken(u, x, n)
    BY <2>1, TokenMintKeepsWorth DEF Trading!MintToken, Trading!Stored
  <2>2. CASE Trading!SwapTokens(u, x, n)
    BY <1>1, <2>2, SwapTokensGoesOn
  <2>3. CASE Trading!SafeSwap(u, x, n)
    BY <1>1, <2>3, SafeSwapGoesOn
  <2>4. CASE \E out \in trading.Amounts : Trading!RecordPnlTrade(u, x, n, out)
    BY <2>4, RecordPnlTradeGoesOn
  <2> QED BY <1>2, <2>1, <2>2, <2>3, <2>4
<1>3. ASSUME NEW u \in trading.Users, NEW n \in trading.Amounts,
             \/ \E usdc \in trading.Amounts : Trading!AddLiquidity(u, n, usdc)
             \/ Trading!RemoveLiquidity(u, n)
      PROVE  BookGoes
  BY <1>1, <1>3, DepositKeepsWorth, WithdrawalKeepsWorth
<1>4. ASSUME NEW n \in 1..trading.MaxBatch, NEW ops \in [1..n -> Trading!Operations],
             Trading!ExecuteBatchAtomic(ops) \/ Trading!ExecuteBatchBestEffort(ops)
      PROVE  BookGoes
  <2>1. s1' = Trading!Run(ops).s /\ n \in Nat
    BY <1>4 DEF Trading!ExecuteBatchAtomic, Trading!ExecuteBatchBestEffort, Trading!Stored
  <2> QED BY <2>1, BatchKeepsWorth
<1>5. ASSUME NEW u, NEW x, Trading!ClaimFaucet(u, x)
      PROVE  BookGoes
  BY <1>5, TokenMintKeepsWorth DEF Trading!ClaimFaucet
<1>6. ASSUME UNCHANGED s1 PROVE BookGoes
  <2>1. SamePool(s1, s1') /\ PoolTyped(s1)
    BY <1>6 DEF SamePool, BookInv
  <2>2. NoLess(s1, s1')
    BY <2>1, SameIsNoLess
  <2> QED BY <2>2, NoLessHolds DEF BookGoes
<1>7. ASSUME \/ \E u \in trading.Users : Trading!GetPortfolio(u) \/ Trading!GetPortfolioPnl(u)
             \/ Trading!GetTopTraders
             \/ \E flag \in BOOLEAN : Trading!SetPaused(flag)
             \/ Trading!Tick
      PROVE  BookGoes
  BY <1>6, <1>7 DEF Trading!GetPortfolio, Trading!GetPortfolioPnl, Trading!GetTopTraders,
     Trading!SetPaused, Trading!Tick
<1> QED BY <1>1, <1>2, <1>3, <1>4, <1>5, <1>7 DEF Trading!Next

LEMMA BookBegins ==
    ASSUME Trading!Init
    PROVE  BookInv(s1) /\ CacheInv
<1>1. /\ DOMAIN s1 = BookFields /\ s1.supply = 0
      /\ s1.pool = [x \in Trading!Assets |-> 0]
      /\ s1.positions = [u \in trading.Users |-> [xlm |-> 0, usdc |-> 0, tokens |-> 0]]
  BY DEF Trading!Init, BookFields
<1>2. s1.positions \in [trading.Users -> Trading!LPPosition]
  BY <1>1 DEF Trading!LPPosition
<1>3. PoolTyped(s1)
  BY <1>1, <1>2 DEF PoolTyped, Trading!Assets, Trading!XLM, Trading!USDCSIM
<1>4. TokensHeld(s1) = 0
  <2> DEFINE f == [u \in trading.Users |-> s1.positions[u].tokens]
  <2>1. \A u \in trading.Users : f[u] = 0
    BY <1>1
  <2>2. TokensHeld(s1) = SetTotal(f, trading.Users)
    BY DEF TokensHeld
  <2> HIDE DEF f
  <2> QED BY <2>1, <2>2, TradingConstants, SetTotalZero
<1>5. CacheInv
  BY EmptyCaches DEF Trading!Init
<1> QED BY <1>1, <1>3, <1>4, <1>5 DEF BookInv

\* An answer the portfolio has cached is today's, unless a faucet paid since it was
\* stored (lib.rs invalidate_query_cache, faucet.rs).
THEOREM StaleOnlyByFaucetAlways == CoreSpec => []StaleOnlyByFaucet
<1> DEFINE Inv == part = "trading" => CacheInv
<1>1. CoreInit => Inv
  BY PartBegins, BookBegins DEF InTrading
<1>2. Inv /\ [CoreNext]_vars => Inv'
  <2>1. ASSUME Inv, CoreNext PROVE Inv'
    BY <2>1, PartGoesOn, CachesGoOn DEF TradingStep
  <2>2. ASSUME Inv, UNCHANGED vars PROVE Inv'
    BY <2>2, NothingMoves DEF CacheInv, CachesSized, Trading!StaleOnlyByFaucet
  <2> QED BY <2>1, <2>2
<1>3. Inv => StaleOnlyByFaucet
  BY DEF CacheInv, StaleOnlyByFaucet
<1> QED BY <1>1, <1>2, <1>3, PTL DEF CoreSpec

\* No deposit, withdrawal, swap or batch takes worth from a share, in the registered
\* pools (liquidity_pool.rs) and in the pool of the portfolio (lib.rs, trading.rs,
\* batch.rs), however the divisions round.
THEOREM SharesKeepTheirWorthAlways == CoreSpec => SharesKeepTheirWorth
<1> DEFINE Inv == /\ part = "pools" => RegistryInv
                  /\ part = "trading" => BookInv(s1)
           Kept == /\ part = "pools" => Registry!SharesKeepTheirWorth
                   /\ part = "trading" => Trading!LpWorthNeverFalls
<1>1. CoreInit => Inv
  BY PartBegins, RegistryBegins, BookBegins DEF InPools, InTrading
<1>2. ASSUME Inv, CoreNext PROVE Inv' /\ Kept
  <2>1. part = "pools" => RegistryInv' /\ Registry!SharesKeepTheirWorth
    BY <1>2, PartGoesOn, RegistryGoesOn DEF PoolsStep, RegistryGoes
  <2>2. part = "trading" => BookInv(s1') /\ TokenWorth(s1, s1')
    BY <1>2, PartGoesOn, BookGoesOn DEF TradingStep, BookGoes
  <2>3. TokenWorth(s1, s1') => Trading!LpWorthNeverFalls
    BY DEF TokenWorth, Trading!LpWorthNeverFalls, Trading!XLM, Trading!USDCSIM
  <2>4. part' = part
    BY <1>2, PartGoesOn
  <2> QED BY <2>1, <2>2, <2>3, <2>4
<1>3. ASSUME Inv, UNCHANGED vars PROVE Inv'
  <2>1. UNCHANGED <<part, s1, s2, s3, s4, s5>>
    BY <1>3, NothingMoves
  <2>2. part = "pools" => RegistryInv'
    BY <1>3, <2>1 DEF RegistryInv, RegistryTyped, PoolsSound, NoSharesAhead
  <2>3. part = "trading" => BookInv(s1)'
    BY <1>3, <2>1
  <2> QED BY <2>1, <2>2, <2>3
<1>4. SharesKeepTheirWorth <=> [][Kept]_vars
  BY DEF SharesKeepTheirWorth
<1> HIDE DEF Inv, Kept
<1>5. Inv /\ [CoreNext]_vars => Inv' /\ [Kept]_vars
  BY <1>2, <1>3
<1> QED BY <1>1, <1>4, <1>5, PTL DEF CoreSpec

-----------------------------------------------------------------------------
(* Shares of NFTs and vaults.                                              *)

Owned == [splits.Nfts \X splits.Users -> Nat]
Stock == [(1..splits.MaxVaults) \X splits.Users -> [shares : Nat, last : Nat]]

\* What the holders of a vault have.
Minted(f, v) == SetTotal([user \in splits.Users |-> f[<<v, user>>].shares], splits.Users)

SharesTyped ==
    /\ s2 \in Owned /\ s3 \in [splits.Nfts -> SUBSET splits.Users]
    /\ s4 \in Seq(Fractions!Vault) /\ Len(s4) <= splits.MaxVaults
    /\ s5 \in Stock /\ s7 \in Nat

\* The list of an NFT's holders names those who have shares.
Exact(f, h) ==
    /\ f \in Owned /\ h \in [splits.Nfts -> SUBSET splits.Users]
    /\ \A m \in splits.Nfts : h[m] = {user \in splits.Users : f[<<m, user>>] > 0}

\* The supply of a vault is what its holders have, and within its total.
Backed(list, f) ==
    \A v \in 1..Len(list) : Minted(f, v) = list[v].supply /\ list[v].supply <= list[v].total

\* Nobody has shares of a vault to come.
NoVaultAhead(list, f) ==
    \A v \in 1..splits.MaxVaults, u \in splits.Users : v > Len(list) => f[<<v, u>>].shares = 0

\* The lists of holders are exact, and the vaults are backed.
SharesInv == SharesTyped /\ Fractions!HoldersListed /\ Backed(s4, s5) /\ NoVaultAhead(s4, s5)

\* What is assumed of the constants of the shares.
LEMMA SplitsConstants ==
    /\ IsFiniteSet(splits.Users) /\ splits.Amounts \subseteq Nat
    /\ splits.MaxVaults \in Nat /\ splits.MinVaultMint \in Nat /\ splits.MaxTime \in Nat
<1>1. Fractions!FractionsAssumption
  BY CoreAssumption
<1> QED BY <1>1 DEF Fractions!FractionsAssumption, Fractions!IsFiniteSet, IsFiniteSet

\* The sum of the module is the one of the lemmas.
LEMMA SplitsSum ==
    ASSUME NEW f, NEW S
    PROVE  Fractions!SetTotal(f, S) = SetTotal(f, S)
<1>1. Fractions!Cardinality(S) = Cardinality(S)
  BY DEF Fractions!Cardinality, Cardinality
<1>2. Fractions!Enumeration(S) = Enumeration(S)
  BY <1>1 DEF Fractions!Enumeration, Enumeration
<1> QED BY <1>1, <1>2 DEF Fractions!SetTotal, SetTotal, Fractions!Total, Total, Fractions!PartialSums, PartialSums

\* A number of shares is set and the list told whether it is zero.
LEMMA SharesSet ==
    ASSUME NEW f, NEW h, Exact(f, h), NEW n \in splits.Nfts, NEW u \in splits.Users, NEW k \in Nat, NEW j \in Nat,
           k = 0 <=> j = 0,
           NEW g, g = [f EXCEPT ![<<n, u>>] = k]
    PROVE  Exact(g, Fractions!Listed(h, n, u, j))
<1> DEFINE l == Fractions!Listed(h, n, u, j)
<1>0. /\ f \in Owned /\ h \in [splits.Nfts -> SUBSET splits.Users]
      /\ \A m \in splits.Nfts : h[m] = {user \in splits.Users : f[<<m, user>>] > 0}
  BY DEF Exact
<1>1. g \in Owned /\ \A m \in splits.Nfts, x \in splits.Users :
          g[<<m, x>>] = IF m = n /\ x = u THEN k ELSE f[<<m, x>>]
  BY <1>0 DEF Owned
<1>2. l = [h EXCEPT ![n] = IF j = 0 THEN h[n] \ {u} ELSE h[n] \cup {u}]
  BY DEF Fractions!Listed
<1>3. l \in [splits.Nfts -> SUBSET splits.Users]
  BY <1>0, <1>2
<1>4. ASSUME NEW m \in splits.Nfts
      PROVE  l[m] = {user \in splits.Users : g[<<m, user>>] > 0}
  <2>1. CASE m = n
    <3>1. l[m] = IF j = 0 THEN h[n] \ {u} ELSE h[n] \cup {u}
      BY <1>0, <1>2, <2>1
    <3> QED BY <1>0, <1>1, <2>1, <3>1
  <2>2. CASE m # n
    <3>1. l[m] = h[m]
      BY <1>0, <1>2, <2>2
    <3> QED BY <1>0, <1>1, <2>2, <3>1
  <2> QED BY <2>1, <2>2
<1> QED BY <1>1, <1>3, <1>4 DEF Exact

\* What a holder of a vault gets or gives is what the holders together get or give.
LEMMA VaultMoves ==
    ASSUME NEW f \in Stock, NEW g \in Stock, NEW v \in 1..splits.MaxVaults, NEW u \in splits.Users,
           \A w \in 1..splits.MaxVaults, x \in splits.Users :
               w # v \/ x # u => g[<<w, x>>] = f[<<w, x>>]
    PROVE  /\ Minted(g, v) = Minted(f, v) + g[<<v, u>>].shares - f[<<v, u>>].shares
           /\ \A w \in 1..splits.MaxVaults : w # v => Minted(g, w) = Minted(f, w)
           /\ Minted(f, v) \in Nat /\ f[<<v, u>>].shares <= Minted(f, v)
<1> DEFINE S == splits.Users
           F(w) == [user \in splits.Users |-> f[<<w, user>>].shares]
           G(w) == [user \in splits.Users |-> g[<<w, user>>].shares]
<1>1. IsFiniteSet(S) /\ u \in S
  BY SplitsConstants
<1>2. \A w \in 1..splits.MaxVaults, x \in S :
          /\ F(w)[x] = f[<<w, x>>].shares /\ G(w)[x] = g[<<w, x>>].shares
          /\ f[<<w, x>>].shares \in Nat /\ g[<<w, x>>].shares \in Nat
  BY DEF Stock
<1>3. \A w \in 1..splits.MaxVaults : Minted(f, w) = SetTotal(F(w), S) /\ Minted(g, w) = SetTotal(G(w), S)
  BY DEF Minted
<1> HIDE DEF F, G
<1>4. SetTotal(G(v), S) = SetTotal(F(v), S) + G(v)[u] - F(v)[u]
  <2> DEFINE a == F(v)
             b == G(v)
  <2>0. \A x \in S : a[x] \in Nat /\ b[x] \in Nat
    BY <1>2
  <2>3. ASSUME NEW x \in S, x # u
        PROVE  b[x] = a[x]
    <3>1. g[<<v, x>>] = f[<<v, x>>]
      BY <2>3
    <3> QED BY <1>2, <3>1
  <2> HIDE DEF a, b, S
  <2>1. (\A x \in S : a[x] \in Int) /\ b[u] \in Int
    BY <1>1, <2>0
  <2>2. SetTotal(b, S) = SetTotal(a, S) + b[u] - a[u]
    BY ONLY <1>1, <2>1, <2>3, SetTotalUpdate
  <2> QED BY <2>2 DEF a, b
<1>5. SetTotal(F(v), S) \in Nat /\ F(v)[u] <= SetTotal(F(v), S)
  <2> DEFINE a == F(v)
  <2>1. \A x \in S : a[x] \in Nat
    BY <1>2
  <2> HIDE DEF a, S
  <2>2. SetTotal(a, S) \in Nat /\ a[u] <= SetTotal(a, S)
    BY ONLY <1>1, <2>1, SetTotalDominates
  <2> QED BY <2>2 DEF a
<1>6. ASSUME NEW w \in 1..splits.MaxVaults, w # v
      PROVE  SetTotal(G(w), S) = SetTotal(F(w), S)
  <2> DEFINE a == F(w)
             b == G(w)
  <2>0. \A x \in S : a[x] \in Nat
    BY <1>2
  <2>3. ASSUME NEW x \in S
        PROVE  b[x] = a[x]
    <3>1. g[<<w, x>>] = f[<<w, x>>]
      BY <1>6
    <3> QED BY <1>2, <3>1
  <2> HIDE DEF a, b, S
  <2>1. \A x \in S : a[x] \in Int /\ b[x] = a[x]
    BY <2>0, <2>3
  <2>2. SetTotal(b, S) = SetTotal(a, S)
    BY ONLY <1>1, <2>1, SetTotalSame
  <2> QED BY <2>2 DEF a, b
<1> QED BY <1>2, <1>3, <1>4, <1>5, <1>6

LEMMA SharesBegin ==
    ASSUME Fractions!Init
    PROVE  SharesInv
<1>1. /\ s2 = [entry \in splits.Nfts \X splits.Users |-> 0]
      /\ s3 = [n \in splits.Nfts |-> {}] /\ s4 = <<>>
      /\ s5 = [entry \in (1..splits.MaxVaults) \X splits.Users |-> [shares |-> 0, last |-> 0]]
      /\ s7 = 0
  BY DEF Fractions!Init
<1>2. SharesTyped
  <2>1. s5 \in Stock
    BY <1>1 DEF Stock
  <2>2. s2 \in Owned
    BY <1>1 DEF Owned
  <2>3. s3 \in [splits.Nfts -> SUBSET splits.Users] /\ s7 \in Nat
    BY <1>1
  <2>4. s4 \in Seq(Fractions!Vault)
    BY <1>1
  <2>5. Len(s4) = 0
    BY <1>1
  <2>6. Len(s4) <= splits.MaxVaults
    BY <2>5, SplitsConstants
  <2> QED BY <2>1, <2>2, <2>3, <2>4, <2>6 DEF SharesTyped
<1>3. Fractions!HoldersListed
  <2>1. ASSUME NEW n \in splits.Nfts
        PROVE  s3[n] = {user \in splits.Users : s2[<<n, user>>] > 0}
    <3>1. s3[n] = {} /\ \A user \in splits.Users : s2[<<n, user>>] = 0
      BY <1>1
    <3> QED BY <3>1
  <2> QED BY <2>1 DEF Fractions!HoldersListed
<1>4. Backed(s4, s5)
  BY <1>1 DEF Backed
<1>5. NoVaultAhead(s4, s5)
  BY <1>1 DEF NoVaultAhead
<1> QED BY <1>2, <1>3, <1>4, <1>5 DEF SharesInv

\* The vaults stay as they are.
LEMMA VaultsKept ==
    ASSUME SharesInv, UNCHANGED <<s4, s5, s7>>, Exact(s2', s3')
    PROVE  SharesInv'
<1>1. SharesTyped'
  BY DEF SharesInv, SharesTyped, Exact
<1>2. Fractions!HoldersListed'
  BY DEF Fractions!HoldersListed, Exact
<1>3. Backed(s4, s5)'
  BY DEF SharesInv
<1>4. NoVaultAhead(s4, s5)'
  BY DEF SharesInv
<1> QED BY <1>1, <1>2, <1>3, <1>4 DEF SharesInv

\* The shares stay as they are.
LEMMA SharesKept ==
    ASSUME SharesInv, UNCHANGED <<s2, s3>>, s7' \in Nat,
           s4' \in Seq(Fractions!Vault), Len(s4') <= splits.MaxVaults, s5' \in Stock,
           Backed(s4', s5'), NoVaultAhead(s4', s5')
    PROVE  SharesInv'
<1>1. SharesTyped'
  BY DEF SharesInv, SharesTyped
<1>2. Fractions!HoldersListed'
  BY DEF SharesInv, Fractions!HoldersListed
<1>3. Backed(s4, s5)'
  OBVIOUS
<1>4. NoVaultAhead(s4, s5)'
  OBVIOUS
<1> QED BY <1>1, <1>2, <1>3, <1>4 DEF SharesInv

\* What the invariant says of the shares.
LEMMA SharesNow ==
    ASSUME SharesInv
    PROVE  /\ s2 \in Owned /\ s3 \in [splits.Nfts -> SUBSET splits.Users] /\ Exact(s2, s3)
           /\ \A m \in splits.Nfts : s3[m] = {user \in splits.Users : s2[<<m, user>>] > 0}
           /\ \A m \in splits.Nfts, u \in splits.Users : s2[<<m, u>>] \in Nat
           /\ s4 \in Seq(Fractions!Vault) /\ Len(s4) \in Nat /\ Len(s4) <= splits.MaxVaults
           /\ s5 \in Stock /\ s7 \in Nat
           /\ Backed(s4, s5) /\ NoVaultAhead(s4, s5)
<1>1. SharesTyped /\ Fractions!HoldersListed /\ Backed(s4, s5) /\ NoVaultAhead(s4, s5)
  BY DEF SharesInv
<1>2. \A m \in splits.Nfts : s3[m] = {user \in splits.Users : s2[<<m, user>>] > 0}
  BY <1>1 DEF Fractions!HoldersListed
<1>3. \A m \in splits.Nfts, u \in splits.Users : s2[<<m, u>>] \in Nat
  BY <1>1 DEF SharesTyped, Owned
<1>4. Exact(s2, s3)
  BY <1>1, <1>2 DEF SharesTyped, Exact
<1> QED BY <1>1, <1>2, <1>3, <1>4 DEF SharesTyped

\* Splitting, buying and selling set the shares of one user.
LEMMA OneSetsShares ==
    ASSUME SharesInv, NEW u \in splits.Users, NEW n \in splits.Nfts, NEW count \in splits.Amounts,
           \/ Fractions!FractionalizeNft(u, n, count)
           \/ Fractions!BuyFractionalShares(u, n, count)
           \/ Fractions!SellFractionalShares(u, n, count)
    PROVE  SharesInv'
<1>1. count \in Nat /\ s2[<<n, u>>] \in Nat
  BY SplitsConstants, SharesNow
<1>2. UNCHANGED <<s4, s5, s7>>
  BY DEF Fractions!FractionalizeNft, Fractions!BuyFractionalShares, Fractions!SellFractionalShares
<1>3. PICK k \in Nat, j \in Nat : /\ s2' = [s2 EXCEPT ![<<n, u>>] = k]
                                  /\ s3' = Fractions!Listed(s3, n, u, j)
                                  /\ k = 0 <=> j = 0
  <2>1. CASE Fractions!FractionalizeNft(u, n, count)
    BY <1>1, <2>1 DEF Fractions!FractionalizeNft, Fractions!SetShares
  <2>2. CASE Fractions!BuyFractionalShares(u, n, count)
    <3> DEFINE more == s2[<<n, u>>] + count
    <3>1. /\ s2' = [s2 EXCEPT ![<<n, u>>] = more] /\ count > 0
          /\ s3' = Fractions!Listed(s3, n, u, count)
      BY <2>2 DEF Fractions!BuyFractionalShares, Fractions!SetShares
    <3>2. more \in Nat /\ more > 0
      BY <1>1, <3>1
    <3> HIDE DEF more
    <3>3. more = 0 <=> count = 0
      BY <3>1, <3>2
    <3> QED BY <1>1, <3>1, <3>2, <3>3
  <2>3. CASE Fractions!SellFractionalShares(u, n, count)
    <3>1. /\ s2' = [s2 EXCEPT ![<<n, u>>] = s2[<<n, u>>] - count] /\ s2[<<n, u>>] >= count
          /\ s3' = Fractions!Listed(s3, n, u, s2[<<n, u>>] - count)
      BY <2>3 DEF Fractions!SellFractionalShares, Fractions!SetShares
    <3>2. s2[<<n, u>>] - count \in Nat
      BY <1>1, <3>1
    <3> QED BY <3>1, <3>2
  <2> QED BY <2>1, <2>2, <2>3
<1>4. Exact(s2', s3')
  <2> DEFINE g == s2'
             l == Fractions!Listed(s3, n, u, j)
  <2>1. g = [s2 EXCEPT ![<<n, u>>] = k] /\ s3' = l
    BY <1>3
  <2> HIDE DEF g
  <2>2. Exact(g, l)
    BY <1>3, <2>1, SharesNow, SharesSet
  <2> QED BY <2>1, <2>2 DEF g
<1> QED BY <1>2, <1>4, VaultsKept

\* A transfer sets the shares of two.
LEMMA TwoSetShares ==
    ASSUME SharesInv, NEW from \in splits.Users, NEW to \in splits.Users, NEW n \in splits.Nfts,
           NEW count \in splits.Amounts, Fractions!TransferFractionalShares(from, to, n, count)
    PROVE  SharesInv'
<1> DEFINE a == s2[<<n, from>>] - count
           b == s2[<<n, to>>] + count
           g1 == [s2 EXCEPT ![<<n, from>>] = a]
           g2 == [g1 EXCEPT ![<<n, to>>] = b]
           l1 == Fractions!Listed(s3, n, from, a)
           l2 == Fractions!Listed(l1, n, to, count)
<1>1. count \in Nat /\ s2[<<n, from>>] \in Nat /\ s2[<<n, to>>] \in Nat
  BY SplitsConstants, SharesNow
<1>2. /\ UNCHANGED <<s4, s5, s7>> /\ from # to /\ count > 0 /\ s2[<<n, from>>] >= count
      /\ s3' = l2
  BY DEF Fractions!TransferFractionalShares
<1>3. s2' = g2
  <2>1. s2' = [s2 EXCEPT ![<<n, from>>] = @ - count, ![<<n, to>>] = @ + count]
    BY DEF Fractions!TransferFractionalShares
  <2>2. <<n, from>> # <<n, to>>
    BY <1>2
  <2> QED BY <2>1, <2>2, SharesNow DEF Owned
<1>4. a \in Nat /\ b \in Nat /\ b > 0
  BY <1>1, <1>2
<1> HIDE DEF a, b
<1>5. Exact(g1, l1)
  BY <1>4, SharesNow, SharesSet
<1> HIDE DEF g1, l1
<1>6. Exact(g2, l2)
  BY <1>1, <1>2, <1>4, <1>5, SharesSet
<1> HIDE DEF g2, l2
<1> QED BY <1>2, <1>3, <1>6, VaultsKept

\* Joining takes the shares of every listed holder, who are all there are.
LEMMA JoinGoesOn ==
    ASSUME SharesInv, NEW u \in splits.Users, NEW n \in splits.Nfts,
           Fractions!DefractionalizeNft(u, n)
    PROVE  SharesInv'
<1>1. /\ UNCHANGED <<s4, s5, s7>>
      /\ s2' = [entry \in DOMAIN s2 |->
                   IF entry[1] = n /\ entry[2] \in s3[n] THEN 0 ELSE s2[entry]]
      /\ s3' = [s3 EXCEPT ![n] = {}]
  BY DEF Fractions!DefractionalizeNft
<1>2. s2' \in Owned
  BY <1>1, SharesNow DEF Owned
<1>3. s3' \in [splits.Nfts -> SUBSET splits.Users]
  BY <1>1, SharesNow
<1>4. \A m \in splits.Nfts, x \in splits.Users :
          s2'[<<m, x>>] = IF m = n /\ x \in s3[n] THEN 0 ELSE s2[<<m, x>>]
  BY <1>1, SharesNow DEF Owned
<1>5. ASSUME NEW m \in splits.Nfts
      PROVE  s3'[m] = {user \in splits.Users : s2'[<<m, user>>] > 0}
  <2>1. CASE m = n
    <3>1. s3'[m] = {} /\ \A x \in splits.Users : ~(s2'[<<m, x>>] > 0)
      BY <1>1, <1>4, <2>1, SharesNow
    <3> QED BY <3>1
  <2>2. CASE m # n
    <3>1. s3'[m] = s3[m] /\ \A x \in splits.Users : s2'[<<m, x>>] = s2[<<m, x>>]
      BY <1>1, <1>4, <2>2, SharesNow
    <3> QED BY <3>1, SharesNow
  <2> QED BY <2>1, <2>2
<1>6. Exact(s2', s3')
  BY <1>2, <1>3, <1>5 DEF Exact
<1> QED BY <1>1, <1>6, VaultsKept

\* A vault and its numbers.
LEMMA AVault ==
    ASSUME SharesInv, NEW v \in DOMAIN s4
    PROVE  /\ v \in 1..Len(s4) /\ v \in 1..splits.MaxVaults /\ s4[v] \in Fractions!Vault
           /\ s4[v].supply \in Nat /\ s4[v].total \in Nat
           /\ Minted(s5, v) = s4[v].supply /\ s4[v].supply <= s4[v].total
<1>1. v \in 1..Len(s4) /\ s4[v] \in Fractions!Vault
  BY SharesNow, ItsEntries
<1>2. v \in 1..splits.MaxVaults
  BY <1>1, SharesNow, SplitsConstants
<1>3. s4[v].supply \in Nat /\ s4[v].total \in Nat
  BY <1>1 DEF Fractions!Vault
<1> QED BY <1>1, <1>2, <1>3, SharesNow DEF Backed

\* The shares of one holder and the supply of the vault move together.
LEMMA VaultGoesOn ==
    ASSUME SharesInv, NEW u \in splits.Users, NEW v \in DOMAIN s4, NEW e \in Fractions!Vault,
           NEW q \in [shares : Nat, last : Nat],
           UNCHANGED <<s2, s3, s7>>,
           s4' = [s4 EXCEPT ![v] = e], s5' = [s5 EXCEPT ![<<v, u>>] = q],
           e.supply - s4[v].supply = q.shares - s5[<<v, u>>].shares, e.supply <= e.total
    PROVE  SharesInv'
<1>1. s4' \in Seq(Fractions!Vault) /\ Len(s4') = Len(s4)
  <2> DEFINE V == Fractions!Vault
  <2> HIDE DEF V
  <2>1. s4 \in Seq(V) /\ v \in 1..Len(s4) /\ e \in V
    BY SharesNow, AVault DEF V
  <2>2. s4' \in Seq(V) /\ Len(s4') = Len(s4)
    BY <2>1, ExceptSeq
  <2> QED BY <2>2 DEF V
<1>2. /\ s4'[v] = e /\ \A w \in 1..Len(s4) : w # v => s4'[w] = s4[w]
  BY AVault, SharesNow
<1>3. /\ s5' \in Stock /\ s5'[<<v, u>>] = q
      /\ \A w \in 1..splits.MaxVaults, x \in splits.Users :
             w # v \/ x # u => s5'[<<w, x>>] = s5[<<w, x>>]
  BY AVault, SharesNow DEF Stock
<1>4. /\ Minted(s5', v) = Minted(s5, v) + q.shares - s5[<<v, u>>].shares
      /\ \A w \in 1..splits.MaxVaults : w # v => Minted(s5', w) = Minted(s5, w)
      /\ Minted(s5, v) \in Nat
  <2> DEFINE f == s5
             g == s5'
  <2>1. f \in Stock /\ g \in Stock /\ v \in 1..splits.MaxVaults
    BY <1>3, SharesNow, AVault
  <2>2. \A w \in 1..splits.MaxVaults, x \in splits.Users :
             w # v \/ x # u => g[<<w, x>>] = f[<<w, x>>]
    BY <1>3
  <2>3. g[<<v, u>>] = q
    BY <1>3
  <2> HIDE DEF f, g
  <2>4. /\ Minted(g, v) = Minted(f, v) + g[<<v, u>>].shares - f[<<v, u>>].shares
        /\ \A w \in 1..splits.MaxVaults : w # v => Minted(g, w) = Minted(f, w)
        /\ Minted(f, v) \in Nat
    BY <2>1, <2>2, VaultMoves
  <2> QED BY <2>3, <2>4 DEF f, g
<1>5. q.shares \in Nat /\ s5[<<v, u>>].shares \in Nat /\ e.supply \in Nat
  BY AVault, SharesNow DEF Stock, Fractions!Vault
<1>6. Backed(s4', s5')
  <2>1. ASSUME NEW w \in 1..Len(s4')
        PROVE  Minted(s5', w) = s4'[w].supply /\ s4'[w].supply <= s4'[w].total
    <3>1. w \in 1..Len(s4) /\ w \in 1..splits.MaxVaults /\ w \in DOMAIN s4
      BY <1>1, SharesNow, SplitsConstants
    <3>2. CASE w = v
      <4>1. Minted(s5, v) = s4[v].supply /\ s4[v].supply \in Nat
        BY AVault
      <4> QED BY <1>2, <1>4, <1>5, <3>2, <4>1
    <3>3. CASE w # v
      <4>1. Minted(s5, w) = s4[w].supply /\ s4[w].supply <= s4[w].total
        BY <3>1, AVault
      <4> QED BY <1>2, <1>4, <3>1, <3>3, <4>1
    <3> QED BY <3>2, <3>3
  <2> QED BY <2>1 DEF Backed
<1>7. NoVaultAhead(s4', s5')
  <2>1. ASSUME NEW w \in 1..splits.MaxVaults, NEW x \in splits.Users, w > Len(s4')
        PROVE  s5'[<<w, x>>].shares = 0
    <3>1. w > Len(s4) /\ w # v
      BY <1>1, <2>1, AVault, SharesNow
    <3>2. s5[<<w, x>>].shares = 0
      BY <3>1, SharesNow DEF NoVaultAhead
    <3> QED BY <1>3, <3>1, <3>2
  <2> QED BY <2>1 DEF NoVaultAhead
<1>8. s7' \in Nat /\ Len(s4') <= splits.MaxVaults
  BY <1>1, SharesNow
<1> QED BY <1>1, <1>3, <1>6, <1>7, <1>8, SharesKept

LEMMA MintGoesOn ==
    ASSUME SharesInv, NEW u \in splits.Users, NEW v \in DOMAIN s4, NEW count \in splits.Amounts,
           Fractions!MintVaultShares(u, v, count)
    PROVE  SharesInv'
<1> DEFINE e == [s4[v] EXCEPT !.supply = s4[v].supply + count]
           q == [shares |-> s5[<<v, u>>].shares + count, last |-> s7]
<1>1. /\ UNCHANGED <<s2, s3, s7>> /\ s4' = [s4 EXCEPT ![v] = e]
      /\ s5' = [s5 EXCEPT ![<<v, u>>] = q] /\ s4[v].supply + count <= s4[v].total
  BY DEF Fractions!MintVaultShares
<1>2. /\ count \in Nat /\ s7 \in Nat /\ s4[v].supply \in Nat /\ s4[v].total \in Nat
      /\ s5[<<v, u>>].shares \in Nat
  BY AVault, SharesNow, SplitsConstants DEF Stock
<1>3. /\ e \in Fractions!Vault /\ e.supply = s4[v].supply + count /\ e.total = s4[v].total
  <2>1. s4[v] \in Fractions!Vault
    BY AVault
  <2> QED BY <1>2, <2>1 DEF Fractions!Vault
<1>4. q \in [shares : Nat, last : Nat] /\ q.shares = s5[<<v, u>>].shares + count
  BY <1>2
<1> HIDE DEF e, q
<1>5. e.supply - s4[v].supply = q.shares - s5[<<v, u>>].shares /\ e.supply <= e.total
  BY <1>1, <1>2, <1>3, <1>4
<1> QED BY <1>1, <1>3, <1>4, <1>5, VaultGoesOn

LEMMA WithdrawSharesGoesOn ==
    ASSUME SharesInv, NEW u \in splits.Users, NEW v \in DOMAIN s4, NEW count \in splits.Amounts,
           Fractions!WithdrawVaultShares(u, v, count)
    PROVE  SharesInv'
<1> DEFINE emptied == s4[v].supply = count /\ s4[v].owner = u
           q == [s5[<<v, u>>] EXCEPT !.shares = s5[<<v, u>>].shares - count]
<1>a. PICK on \in BOOLEAN : on = (s4[v].active /\ ~emptied)
  <2>1. \E b \in BOOLEAN : b = (s4[v].active /\ ~emptied)
    BY Zenon
  <2> QED BY <2>1
<1> DEFINE e == [s4[v] EXCEPT !.supply = s4[v].supply - count, !.active = on]
<1>1. /\ UNCHANGED <<s2, s3, s7>>
      /\ s5' = [s5 EXCEPT ![<<v, u>>] = q] /\ s5[<<v, u>>].shares >= count
  BY DEF Fractions!WithdrawVaultShares
<1>b. s4' = [s4 EXCEPT ![v] = e]
  <2>1. s4' = [s4 EXCEPT ![v].supply = @ - count, ![v].active = @ /\ ~emptied]
    BY DEF Fractions!WithdrawVaultShares
  <2>2. v \in 1..Len(s4) /\ s4 \in Seq(Fractions!Vault)
    BY AVault, SharesNow
  <2>3. s4' = [s4 EXCEPT ![v] = [s4[v] EXCEPT !.supply = s4[v].supply - count,
                                              !.active = s4[v].active /\ ~emptied]]
    BY <2>1, <2>2
  <2> HIDE DEF emptied
  <2> QED BY <2>3, <1>a, Zenon
<1>2. /\ count \in Nat /\ s7 \in Nat /\ s4[v].supply \in Nat /\ s4[v].total \in Nat
      /\ s5[<<v, u>>] \in [shares : Nat, last : Nat] /\ s5[<<v, u>>].shares \in Nat
  BY AVault, SharesNow, SplitsConstants DEF Stock
<1>c. s5[<<v, u>>].shares <= s4[v].supply /\ s4[v].supply <= s4[v].total
  <2>1. s5[<<v, u>>].shares <= Minted(s5, v)
    BY AVault, SharesNow, VaultMoves
  <2> QED BY <2>1, AVault
<1> HIDE DEF emptied
<1>3. /\ e \in Fractions!Vault /\ e.supply = s4[v].supply - count /\ e.total = s4[v].total
  <2>1. s4[v] \in Fractions!Vault
    BY AVault
  <2>2. s4[v].supply - count \in Nat
    BY <1>1, <1>2, <1>c
  <2> QED BY <1>a, <2>1, <2>2 DEF Fractions!Vault
<1>4. q \in [shares : Nat, last : Nat] /\ q.shares = s5[<<v, u>>].shares - count
  BY <1>1, <1>2
<1> HIDE DEF e, q
<1>5. e.supply - s4[v].supply = q.shares - s5[<<v, u>>].shares /\ e.supply <= e.total
  BY <1>2, <1>c, <1>3, <1>4
<1> QED BY <1>1, <1>b, <1>3, <1>4, <1>5, VaultGoesOn

\* A new vault belongs to its creator.
LEMMA CreateVaultGoesOn ==
    ASSUME SharesInv, NEW u \in splits.Users, NEW n \in splits.Nfts, NEW total \in splits.Amounts,
           Fractions!CreateFractionalVault(u, n, total)
    PROVE  SharesInv'
<1> DEFINE v == Len(s4) + 1
           e == [nft |-> n, owner |-> u, total |-> total, supply |-> total, active |-> TRUE]
           q == [shares |-> s5[<<v, u>>].shares + total, last |-> s7]
<1>1. /\ UNCHANGED <<s2, s3, s7>> /\ s4' = Append(s4, e)
      /\ s5' = [s5 EXCEPT ![<<v, u>>] = q] /\ Len(s4) < splits.MaxVaults
  BY DEF Fractions!CreateFractionalVault
<1>2. total \in Nat /\ v \in 1..splits.MaxVaults /\ v = Len(s4) + 1
  BY <1>1, SplitsConstants, SharesNow
<1> HIDE DEF v
<1>3. s5[<<v, u>>].shares = 0 /\ s5[<<v, u>>] \in [shares : Nat, last : Nat]
  BY <1>2, SharesNow DEF NoVaultAhead, Stock
<1>4. q \in [shares : Nat, last : Nat] /\ q.shares = total
  BY <1>2, <1>3, SharesNow
<1>5. e \in Fractions!Vault /\ e.supply = total /\ e.total = total
  BY <1>2 DEF Fractions!Vault
<1> HIDE DEF e, q
<1>6. /\ s4' \in Seq(Fractions!Vault) /\ Len(s4') = Len(s4) + 1 /\ s4'[v] = e
      /\ \A w \in 1..Len(s4) : s4'[w] = s4[w]
  <2> DEFINE V == Fractions!Vault
  <2>1. s4 \in Seq(V) /\ e \in V
    BY <1>5, SharesNow
  <2> HIDE DEF V
  <2>2. /\ s4' \in Seq(V) /\ Len(s4') = Len(s4) + 1 /\ s4'[Len(s4) + 1] = e
        /\ \A w \in 1..Len(s4) : s4'[w] = s4[w]
    BY <1>1, <2>1, AppendProperties
  <2> QED BY <1>2, <2>2 DEF V
<1>7. /\ s5' \in Stock /\ s5'[<<v, u>>] = q
      /\ \A w \in 1..splits.MaxVaults, x \in splits.Users :
             w # v \/ x # u => s5'[<<w, x>>] = s5[<<w, x>>]
  BY <1>1, <1>2, <1>4, SharesNow DEF Stock
<1>8. /\ Minted(s5', v) = Minted(s5, v) + q.shares - s5[<<v, u>>].shares
      /\ \A w \in 1..splits.MaxVaults : w # v => Minted(s5', w) = Minted(s5, w)
      /\ Minted(s5, v) \in Nat
  <2> DEFINE f == s5
             g == s5'
  <2>1. f \in Stock /\ g \in Stock /\ v \in 1..splits.MaxVaults
    BY <1>2, <1>7, SharesNow
  <2>2. \A w \in 1..splits.MaxVaults, x \in splits.Users :
             w # v \/ x # u => g[<<w, x>>] = f[<<w, x>>]
    BY <1>7
  <2>3. g[<<v, u>>] = q
    BY <1>7
  <2> HIDE DEF f, g
  <2>4. /\ Minted(g, v) = Minted(f, v) + g[<<v, u>>].shares - f[<<v, u>>].shares
        /\ \A w \in 1..splits.MaxVaults : w # v => Minted(g, w) = Minted(f, w)
        /\ Minted(f, v) \in Nat
    BY <2>1, <2>2, VaultMoves
  <2> QED BY <2>3, <2>4 DEF f, g
<1>9. Minted(s5, v) = 0
  <2> DEFINE S == splits.Users
             f == [user \in splits.Users |-> s5[<<v, user>>].shares]
  <2>1. \A x \in S : f[x] = 0
    <3>1. v > Len(s4)
      BY <1>2, SharesNow
    <3> QED BY <1>2, <3>1, SharesNow DEF NoVaultAhead
  <2>2. IsFiniteSet(S) /\ Minted(s5, v) = SetTotal(f, S)
    BY SplitsConstants DEF Minted
  <2> HIDE DEF S, f
  <2>3. SetTotal(f, S) = 0
    BY ONLY <2>1, <2>2, SetTotalZero
  <2> QED BY <2>2, <2>3
<1>10. Backed(s4', s5')
  <2>1. ASSUME NEW w \in 1..Len(s4')
        PROVE  Minted(s5', w) = s4'[w].supply /\ s4'[w].supply <= s4'[w].total
    <3>1. CASE w = v
      BY <1>2, <1>3, <1>4, <1>5, <1>6, <1>8, <1>9, <3>1
    <3>2. CASE w # v
      <4>1. w \in 1..Len(s4) /\ w \in 1..splits.MaxVaults /\ w \in DOMAIN s4
        BY <1>2, <1>6, <3>2, SharesNow, SplitsConstants
      <4>2. Minted(s5, w) = s4[w].supply /\ s4[w].supply <= s4[w].total
        BY <4>1, AVault
      <4> QED BY <1>6, <1>8, <3>2, <4>1, <4>2
    <3> QED BY <3>1, <3>2
  <2> QED BY <2>1 DEF Backed
<1>11. NoVaultAhead(s4', s5')
  <2>1. ASSUME NEW w \in 1..splits.MaxVaults, NEW x \in splits.Users, w > Len(s4')
        PROVE  s5'[<<w, x>>].shares = 0
    <3>1. w > Len(s4) /\ w # v
      BY <1>2, <1>6, <2>1, SharesNow
    <3>2. s5[<<w, x>>].shares = 0
      BY <3>1, SharesNow DEF NoVaultAhead
    <3> QED BY <1>7, <3>1, <3>2
  <2> QED BY <2>1 DEF NoVaultAhead
<1>12. s7' \in Nat /\ Len(s4') <= splits.MaxVaults
  BY <1>1, <1>6, SharesNow, SplitsConstants
<1> QED BY <1>1, <1>6, <1>7, <1>10, <1>11, <1>12, SharesKept

LEMMA SharesGoOn ==
    ASSUME SharesInv, Fractions!Next
    PROVE  SharesInv'
<1>1. ASSUME NEW flag \in BOOLEAN, Fractions!SetPaused(flag)
      PROVE  SharesInv'
  <2>1. UNCHANGED <<s2, s3, s4, s5, s7>>
    BY <1>1 DEF Fractions!SetPaused
  <2> QED BY <2>1, SharesNow, VaultsKept
<1>2. CASE Fractions!Tick
  <2>1. UNCHANGED <<s2, s3, s4, s5>> /\ s7' = s7 + 1
    BY <1>2 DEF Fractions!Tick
  <2>2. s7' \in Nat
    BY <2>1, SharesNow
  <2> QED BY <2>1, <2>2, SharesNow, SharesKept
<1> QED BY <1>1, <1>2, OneSetsShares, TwoSetShares, JoinGoesOn, MintGoesOn, WithdrawSharesGoesOn,
           CreateVaultGoesOn DEF Fractions!Next

LEMMA SharesAgree ==
    ASSUME SharesInv
    PROVE  Fractions!HoldersListed /\ Fractions!VaultSharesBacked
<1>1. ASSUME NEW v \in DOMAIN s4
      PROVE  /\ Fractions!SetTotal([user \in splits.Users |-> s5[<<v, user>>].shares], splits.Users)
                    = s4[v].supply
             /\ s4[v].supply <= s4[v].total
  <2> DEFINE f == [user \in splits.Users |-> s5[<<v, user>>].shares]
  <2>1. Minted(s5, v) = s4[v].supply /\ s4[v].supply <= s4[v].total
    BY AVault
  <2>2. Minted(s5, v) = SetTotal(f, splits.Users)
    BY DEF Minted
  <2> HIDE DEF f
  <2>3. Fractions!SetTotal(f, splits.Users) = SetTotal(f, splits.Users)
    BY SplitsSum
  <2>4. Fractions!SetTotal(f, splits.Users) = s4[v].supply
    BY <2>1, <2>2, <2>3
  <2> QED BY <2>1, <2>4 DEF f
<1>2. Fractions!HoldersListed
  BY DEF SharesInv
<1> QED BY <1>1, <1>2 DEF Fractions!VaultSharesBacked

-----------------------------------------------------------------------------
(* The marketplace.                                                        *)

\* Its loans begin and go on as those of the lending part, on other terms.
LEMMA BazaarTerms ==
    /\ Market!MarketAssumption /\ Lending(bazaar)!LendingAssumption
    /\ bazaar.Prices \subseteq Nat /\ bazaar.Durations \subseteq Nat
<1>1. Market!MarketAssumption
  BY CoreAssumption
<1>2. Market!Loans!LendingAssumption
  BY <1>1 DEF Market!MarketAssumption
<1>3. Lending(bazaar)!LendingAssumption
  BY <1>2 DEF Market!Loans!LendingAssumption, Lending!LendingAssumption
<1>4. bazaar.Prices \subseteq Nat /\ bazaar.Durations \subseteq Nat
  BY <1>1 DEF Market!MarketAssumption
<1> QED BY <1>1, <1>3, <1>4

LEMMA BazaarLoansBegin ==
    ASSUME Market!Loans!Init
    PROVE  Lending(bazaar)!Init
BY DEF Market!Loans!Init, Lending!Init, Market!Loans!Parties, Lending!Parties

LEMMA BazaarPeerSteps ==
    ASSUME Market!Loans!PeerNext
    PROVE  Lending(bazaar)!PeerNext
<1>1. \A u, n, amount, rate, days : Market!Loans!RequestLoan(u, n, amount, rate, days)
          => Lending(bazaar)!RequestLoan(u, n, amount, rate, days)
  BY DEF Market!Loans!RequestLoan, Lending!RequestLoan, Market!Loans!MayPledge, Lending!MayPledge,
         Market!Loans!Recorded, Lending!Recorded, Market!Loans!poolVars, Lending!poolVars,
         Market!Loans!saleVars, Lending!saleVars
<1>2. \A u, i : Market!Loans!FundLoan(u, i) => Lending(bazaar)!FundLoan(u, i)
  BY DEF Market!Loans!FundLoan, Lending!FundLoan, Market!Loans!FundedInterest,
         Lending!FundedInterest, Market!Loans!poolVars, Lending!poolVars,
         Market!Loans!saleVars, Lending!saleVars
<1>3. \A loan : Market!Loans!TotalDue(loan) = Lending(bazaar)!TotalDue(loan)
  BY DEF Market!Loans!TotalDue, Lending!TotalDue, Market!Loans!Live, Lending!Live,
         Market!Loans!DailyInterest, Lending!DailyInterest, Market!Loans!Minus, Lending!Minus
<1>4. \A u, i, paid : Market!Loans!RepayLoan(u, i, paid) => Lending(bazaar)!RepayLoan(u, i, paid)
  BY <1>3 DEF Market!Loans!RepayLoan, Lending!RepayLoan, Market!Loans!Live, Lending!Live,
         Market!Loans!MarkRepaid, Lending!MarkRepaid, Market!Loans!Closed, Lending!Closed,
         Market!Loans!Minus, Lending!Minus, Market!Loans!poolVars, Lending!poolVars,
         Market!Loans!saleVars, Lending!saleVars
<1>5. \A u, i : Market!Loans!CancelLoanRequest(u, i) => Lending(bazaar)!CancelLoanRequest(u, i)
  BY DEF Market!Loans!CancelLoanRequest, Lending!CancelLoanRequest, Market!Loans!vars, Lending!vars,
         Market!Loans!loanVars, Lending!loanVars, Market!Loans!poolVars, Lending!poolVars,
         Market!Loans!saleVars, Lending!saleVars
<1>6. \A i : Market!Loans!LiquidateLoan(i) => Lending(bazaar)!LiquidateLoan(i)
  BY DEF Market!Loans!LiquidateLoan, Lending!LiquidateLoan, Market!Loans!Live, Lending!Live,
         Market!Loans!MarkLiquidated, Lending!MarkLiquidated, Market!Loans!Closed, Lending!Closed,
         Market!Loans!Minus, Lending!Minus, Market!Loans!poolVars, Lending!poolVars,
         Market!Loans!saleVars, Lending!saleVars
<1> QED BY <1>1, <1>2, <1>3, <1>4, <1>5, <1>6 DEF Market!Loans!PeerNext, Lending!PeerNext

LEMMA BazaarPoolSteps ==
    ASSUME Market!Loans!PoolNext
    PROVE  Lending(bazaar)!PoolNext
<1>1. \A p : Market!Loans!CreateLendingPool(p) => Lending(bazaar)!CreateLendingPool(p)
  BY DEF Market!Loans!CreateLendingPool, Lending!CreateLendingPool, Market!Loans!loanVars,
         Lending!loanVars, Market!Loans!saleVars, Lending!saleVars
<1>2. \A u, p, amount : Market!Loans!DepositToLendingPool(u, p, amount)
          => Lending(bazaar)!DepositToLendingPool(u, p, amount)
  BY DEF Market!Loans!DepositToLendingPool, Lending!DepositToLendingPool, Market!Loans!loanVars,
         Lending!loanVars, Market!Loans!saleVars, Lending!saleVars
<1>3. \A u, p, amount : Market!Loans!WithdrawFromLendingPool(u, p, amount)
          => Lending(bazaar)!WithdrawFromLendingPool(u, p, amount)
  BY DEF Market!Loans!WithdrawFromLendingPool, Lending!WithdrawFromLendingPool,
         Market!Loans!Liquidity, Lending!Liquidity, Market!Loans!loanVars,
         Lending!loanVars, Market!Loans!saleVars, Lending!saleVars
<1>4. ASSUME NEW u, NEW p, NEW n, NEW amount, NEW days,
             Market!Loans!BorrowFromLendingPool(u, p, n, amount, days)
      PROVE  Lending(bazaar)!BorrowFromLendingPool(u, p, n, amount, days)
  <2> DEFINE loan(r, d) == [nft |-> n, borrower |-> u, lender |-> p,
                            amount |-> amount, rate |-> r, repayment |-> amount + d * days,
                            days |-> days, due |-> s13 + days,
                            active |-> TRUE, repaid |-> FALSE, liquidated |-> FALSE]
  <2>1. Market!Loans!DynamicRate(s7[p]) = Lending(bazaar)!DynamicRate(s7[p])
    BY DEF Market!Loans!DynamicRate, Lending!DynamicRate
  <2>2. \A r : Market!Loans!DailyInterest(amount, r) = Lending(bazaar)!DailyInterest(amount, r)
    BY DEF Market!Loans!DailyInterest, Lending!DailyInterest
  <2>3. \A l : Market!Loans!Recorded(l) = Lending(bazaar)!Recorded(l)
    BY DEF Market!Loans!Recorded, Lending!Recorded
  <2>4. Market!Loans!Recorded(loan(Market!Loans!DynamicRate(s7[p]),
                Market!Loans!DailyInterest(amount, Market!Loans!DynamicRate(s7[p]))))
    BY <1>4 DEF Market!Loans!BorrowFromLendingPool
  <2>5. Lending(bazaar)!Recorded(loan(Lending(bazaar)!DynamicRate(s7[p]),
                Lending(bazaar)!DailyInterest(amount, Lending(bazaar)!DynamicRate(s7[p]))))
    <3> HIDE DEF loan
    <3> QED BY <2>1, <2>2, <2>3, <2>4
  <2>6. Lending(bazaar)!MayPledge(u, n) /\ amount <= Lending(bazaar)!Liquidity(s7[p])
    BY <1>4 DEF Market!Loans!BorrowFromLendingPool, Market!Loans!MayPledge, Lending!MayPledge,
                Market!Loans!Liquidity, Lending!Liquidity
  <2>7. /\ amount > 0 /\ days >= 1 /\ (s7[p].deposited = 0 \/ s7[p].borrowed >= 0)
        /\ amount <= (s9[n] * bazaar.MaxLtv) \div bazaar.LtvUnit
        /\ s7' = [s7 EXCEPT ![p].borrowed = @ + amount] /\ s5' = [s5 EXCEPT ![u] = @ + 1]
        /\ UNCHANGED <<s1, s6, s8, s9, <<s10, s11>>, s12, s13>>
    BY <1>4 DEF Market!Loans!BorrowFromLendingPool, Market!Loans!saleVars
  <2> QED BY <2>5, <2>6, <2>7 DEF Lending!BorrowFromLendingPool, Lending!saleVars
<1>5. \A loan : Market!Loans!TotalDue(loan) = Lending(bazaar)!TotalDue(loan)
  BY DEF Market!Loans!TotalDue, Lending!TotalDue, Market!Loans!Live, Lending!Live,
         Market!Loans!DailyInterest, Lending!DailyInterest, Market!Loans!Minus, Lending!Minus
<1>6. \A u, p, i, paid : Market!Loans!RepayLendingPoolLoan(u, p, i, paid)
          => Lending(bazaar)!RepayLendingPoolLoan(u, p, i, paid)
  BY <1>5 DEF Market!Loans!RepayLendingPoolLoan, Lending!RepayLendingPoolLoan,
         Market!Loans!Live, Lending!Live, Market!Loans!MarkRepaid, Lending!MarkRepaid,
         Market!Loans!Closed, Lending!Closed, Market!Loans!Minus, Lending!Minus,
         Market!Loans!saleVars, Lending!saleVars
<1> QED BY <1>1, <1>2, <1>3, <1>4, <1>5, <1>6 DEF Market!Loans!PoolNext, Lending!PoolNext

\* A loan is short in the marketplace when it is in the lending part.
LEMMA BazaarShort ==
    /\ \A loan : Market!Loans!TotalDue(loan) = Lending(bazaar)!TotalDue(loan)
    /\ \A loan : Market!Loans!Live(loan) = Lending(bazaar)!Live(loan)
    /\ \A loan : Market!Loans!Ltv(loan) = Lending(bazaar)!Ltv(loan)
    /\ \A loan : Market!Loans!Undercollateralized(loan) = Lending(bazaar)!Undercollateralized(loan)
    /\ \A loan : Market!Loans!CanLiquidate(loan) = Lending(bazaar)!CanLiquidate(loan)
<1>1. \A loan : Market!Loans!Live(loan) = Lending(bazaar)!Live(loan)
  BY DEF Market!Loans!Live, Lending!Live
<1>2. \A loan : Market!Loans!TotalDue(loan) = Lending(bazaar)!TotalDue(loan)
  BY DEF Market!Loans!TotalDue, Lending!TotalDue, Market!Loans!Live, Lending!Live,
         Market!Loans!DailyInterest, Lending!DailyInterest, Market!Loans!Minus, Lending!Minus
<1>3. \A loan : Market!Loans!Ltv(loan) = Lending(bazaar)!Ltv(loan)
  BY <1>2 DEF Market!Loans!Ltv, Lending!Ltv
<1>4. \A loan : Market!Loans!Undercollateralized(loan) = Lending(bazaar)!Undercollateralized(loan)
  BY <1>1, <1>3 DEF Market!Loans!Undercollateralized, Lending!Undercollateralized
<1>5. \A loan : Market!Loans!CanLiquidate(loan) = Lending(bazaar)!CanLiquidate(loan)
  BY <1>1 DEF Market!Loans!CanLiquidate, Lending!CanLiquidate
<1> QED BY <1>1, <1>2, <1>3, <1>4, <1>5

LEMMA BazaarSaleSteps ==
    ASSUME Market!Loans!SaleNext
    PROVE  Lending(bazaar)!SaleNext
<1>1. \A i : Market!Loans!EnqueueLiquidation(i) => Lending(bazaar)!EnqueueLiquidation(i)
  BY BazaarShort DEF Market!Loans!EnqueueLiquidation, Lending!EnqueueLiquidation,
         Market!Loans!Range, Lending!Range, Market!Loans!loanVars, Lending!loanVars,
         Market!Loans!poolVars, Lending!poolVars
<1>2. \A s, i : Market!Loans!Liquidated(s, i) = Lending(bazaar)!Liquidated(s, i)
  BY BazaarShort DEF Market!Loans!Liquidated, Lending!Liquidated, Market!Loans!Minus, Lending!Minus
<1>3. \A s : Market!Loans!Becomes(s) = Lending(bazaar)!Becomes(s)
  BY DEF Market!Loans!Becomes, Lending!Becomes, Market!Loans!poolVars, Lending!poolVars
<1>4. Market!Loans!Ledger = Lending(bazaar)!Ledger
  BY DEF Market!Loans!Ledger, Lending!Ledger
<1>5. \A i : Market!Loans!ExecuteLiquidation(i) => Lending(bazaar)!ExecuteLiquidation(i)
  BY <1>2, <1>3, <1>4, BazaarShort DEF Market!Loans!ExecuteLiquidation, Lending!ExecuteLiquidation
<1>6. \A u, i : Market!Loans!LiquidateUndercollateralizedLoan(u, i)
          => Lending(bazaar)!LiquidateUndercollateralizedLoan(u, i)
  BY BazaarShort DEF Market!Loans!LiquidateUndercollateralizedLoan,
         Lending!LiquidateUndercollateralizedLoan, Market!Loans!MarkLiquidated,
         Lending!MarkLiquidated, Market!Loans!Minus, Lending!Minus,
         Market!Loans!saleVars, Lending!saleVars
<1>7. \A u, i, bid : Market!Loans!PlaceLiquidationBid(u, i, bid)
          => Lending(bazaar)!PlaceLiquidationBid(u, i, bid)
  BY BazaarShort DEF Market!Loans!PlaceLiquidationBid, Lending!PlaceLiquidationBid,
         Market!Loans!loanVars, Lending!loanVars, Market!Loans!poolVars, Lending!poolVars
<1>8. Market!Loans!MonitorAndQueueLiquidations => Lending(bazaar)!MonitorAndQueueLiquidations
  BY BazaarShort DEF Market!Loans!MonitorAndQueueLiquidations, Lending!MonitorAndQueueLiquidations,
         Market!Loans!Range, Lending!Range,
         Market!Loans!loanVars, Lending!loanVars, Market!Loans!poolVars, Lending!poolVars
<1>9. \A most : Market!Loans!ProcessLiquidationQueue(most)
          => Lending(bazaar)!ProcessLiquidationQueue(most)
  BY Zenon DEF Market!Loans!ProcessLiquidationQueue, Lending!ProcessLiquidationQueue,
         Market!Loans!Undercollateralized, Lending!Undercollateralized, Market!Loans!Live,
         Lending!Live, Market!Loans!Ltv, Lending!Ltv, Market!Loans!TotalDue, Lending!TotalDue,
         Market!Loans!DailyInterest, Lending!DailyInterest, Market!Loans!Minus, Lending!Minus,
         Market!Loans!Liquidated, Lending!Liquidated, Market!Loans!Ledger, Lending!Ledger,
         Market!Loans!Becomes, Lending!Becomes, Market!Loans!poolVars, Lending!poolVars
<1> QED BY <1>1, <1>5, <1>6, <1>7, <1>8, <1>9 DEF Market!Loans!SaleNext, Lending!SaleNext

LEMMA BazaarLoanSteps ==
    ASSUME Market!Loans!Next
    PROVE  Lending(bazaar)!Next
<1>1. \A n, v : Market!Loans!SetValue(n, v) => Lending(bazaar)!SetValue(n, v)
  BY DEF Market!Loans!SetValue, Lending!SetValue, Market!Loans!loanVars, Lending!loanVars,
         Market!Loans!poolVars, Lending!poolVars, Market!Loans!saleVars, Lending!saleVars
<1>2. \A flag : Market!Loans!SetPaused(flag) => Lending(bazaar)!SetPaused(flag)
  BY DEF Market!Loans!SetPaused, Lending!SetPaused, Market!Loans!loanVars, Lending!loanVars,
         Market!Loans!poolVars, Lending!poolVars, Market!Loans!saleVars, Lending!saleVars
<1>3. Market!Loans!Tick => Lending(bazaar)!Tick
  BY DEF Market!Loans!Tick, Lending!Tick, Market!Loans!loanVars, Lending!loanVars,
         Market!Loans!poolVars, Lending!poolVars, Market!Loans!saleVars, Lending!saleVars
<1> QED BY <1>1, <1>2, <1>3, BazaarPeerSteps, BazaarPoolSteps, BazaarSaleSteps
        DEF Market!Loans!Next, Lending!Next

\* The open listings of each seller, and the open offers of each buyer.
OpenListings(q) == [u \in bazaar.Users |-> {i \in DOMAIN q : q[i].active /\ q[i].seller = u}]
OpenOffers(q) == [u \in bazaar.Users |-> {i \in DOMAIN q : q[i].active /\ q[i].buyer = u}]

\* The counters are the sizes of the sets.
Counts(f, S) ==
    f \in [bazaar.Users -> Nat] /\ \A u \in bazaar.Users : IsFiniteSet(S[u]) /\ f[u] = Cardinality(S[u])

\* One user's set gains x, or loses it.
Gains(S, R, u, x) ==
    x \notin S[u] /\ \A v \in bazaar.Users : R[v] = IF v = u THEN S[v] \cup {x} ELSE S[v]
Loses(S, R, u, x) ==
    x \in S[u] /\ \A v \in bazaar.Users : R[v] = IF v = u THEN S[v] \ {x} ELSE S[v]

\* What the portfolios count by, saturating.
Adjusted(f, u, delta) == [f EXCEPT ![u] = IF @ + delta < 0 THEN 0 ELSE @ + delta]

LEMMA CountsGain ==
    ASSUME NEW f, NEW S, Counts(f, S), NEW u \in bazaar.Users, NEW R, NEW x, Gains(S, R, u, x)
    PROVE  Counts(Adjusted(f, u, 1), R)
<1>1. f \in [bazaar.Users -> Nat] /\ \A v \in bazaar.Users : f[v] \in Nat
  BY DEF Counts
<1>2. /\ Adjusted(f, u, 1) \in [bazaar.Users -> Nat] /\ Adjusted(f, u, 1)[u] = f[u] + 1
      /\ \A v \in bazaar.Users : v # u => Adjusted(f, u, 1)[v] = f[v]
  BY <1>1 DEF Adjusted
<1>3. ASSUME NEW v \in bazaar.Users
      PROVE  IsFiniteSet(R[v]) /\ Adjusted(f, u, 1)[v] = Cardinality(R[v])
  <2>1. IsFiniteSet(S[v]) /\ f[v] = Cardinality(S[v])
    BY DEF Counts
  <2>2. CASE v = u
    <3>1. R[v] = S[v] \cup {x} /\ x \notin S[v]
      BY <2>2 DEF Gains
    <3>2. IsFiniteSet(S[v] \cup {x}) /\ Cardinality(S[v] \cup {x}) = Cardinality(S[v]) + 1
      BY <2>1, <3>1, FS_AddElement
    <3> QED BY <1>2, <2>1, <2>2, <3>1, <3>2
  <2>3. CASE v # u
    <3>1. R[v] = S[v]
      BY <2>3 DEF Gains
    <3> QED BY <1>2, <2>1, <2>3, <3>1
  <2> QED BY <2>2, <2>3
<1> QED BY <1>2, <1>3 DEF Counts

LEMMA CountsLose ==
    ASSUME NEW f, NEW S, Counts(f, S), NEW u \in bazaar.Users, NEW R, NEW x, Loses(S, R, u, x)
    PROVE  Counts(Adjusted(f, u, -1), R)
<1>1. f \in [bazaar.Users -> Nat] /\ \A v \in bazaar.Users : f[v] \in Nat
  BY DEF Counts
<1>2. IsFiniteSet(S[u] \ {x}) /\ Cardinality(S[u] \ {x}) = f[u] - 1 /\ f[u] - 1 >= 0
  <2>1. IsFiniteSet(S[u]) /\ f[u] = Cardinality(S[u]) /\ x \in S[u]
    BY DEF Counts, Loses
  <2>2. IsFiniteSet(S[u] \ {x}) /\ Cardinality(S[u] \ {x}) = Cardinality(S[u]) - 1
    BY <2>1, FS_RemoveElement
  <2>3. Cardinality(S[u] \ {x}) \in Nat
    BY <2>2, FS_CardinalityType
  <2> QED BY <2>1, <2>2, <2>3
<1>3. /\ Adjusted(f, u, -1) \in [bazaar.Users -> Nat] /\ Adjusted(f, u, -1)[u] = f[u] - 1
      /\ \A v \in bazaar.Users : v # u => Adjusted(f, u, -1)[v] = f[v]
  <2>1. f[u] \in Nat /\ f[u] + (-1) = f[u] - 1 /\ f[u] - 1 \in Nat
    BY <1>1, <1>2
  <2> QED BY <1>1, <1>2, <2>1 DEF Adjusted
<1>4. ASSUME NEW v \in bazaar.Users
      PROVE  IsFiniteSet(R[v]) /\ Adjusted(f, u, -1)[v] = Cardinality(R[v])
  <2>1. IsFiniteSet(S[v]) /\ f[v] = Cardinality(S[v])
    BY DEF Counts
  <2>2. CASE v = u
    <3>1. R[v] = S[v] \ {x}
      BY <2>2 DEF Loses
    <3> QED BY <1>2, <1>3, <2>2, <3>1
  <2>3. CASE v # u
    <3>1. R[v] = S[v]
      BY <2>3 DEF Loses
    <3> QED BY <1>3, <2>1, <2>3, <3>1
  <2> QED BY <2>2, <2>3
<1> QED BY <1>3, <1>4 DEF Counts

\* A new entry opens for its user alone, and one that closes closes for its user alone.
LEMMA ListingOpens ==
    ASSUME NEW q \in Seq(Market!NFTListing), NEW e \in Market!NFTListing, e.active
    PROVE  /\ Append(q, e) \in Seq(Market!NFTListing)
           /\ Gains(OpenListings(q), OpenListings(Append(q, e)), e.seller, Len(q) + 1)
<1> DEFINE V == Market!NFTListing
           r == Append(q, e)
<1> HIDE DEF V
<1>1. q \in Seq(V) /\ e \in V
  BY DEF V
<1>2. /\ r \in Seq(V) /\ Len(r) = Len(q) + 1 /\ r[Len(q) + 1] = e /\ Len(q) \in Nat
      /\ \A i \in 1..Len(q) : r[i] = q[i]
  BY <1>1, AppendProperties
<1>3. DOMAIN q = 1..Len(q) /\ DOMAIN r = 1..(Len(q) + 1)
  BY <1>1, <1>2, ItsEntries
<1> HIDE DEF r
<1>4. ASSUME NEW v \in bazaar.Users
      PROVE  {i \in DOMAIN r : r[i].active /\ r[i].seller = v}
                = IF v = e.seller THEN {i \in DOMAIN q : q[i].active /\ q[i].seller = v} \cup {Len(q) + 1}
                  ELSE {i \in DOMAIN q : q[i].active /\ q[i].seller = v}
  <2>1. \A i \in DOMAIN r : i \in DOMAIN q \/ i = Len(q) + 1
    BY <1>2, <1>3
  <2>2. DOMAIN q \subseteq DOMAIN r /\ Len(q) + 1 \in DOMAIN r /\ Len(q) + 1 \notin DOMAIN q
    BY <1>2, <1>3
  <2>3. \A i \in DOMAIN q : r[i] = q[i]
    BY <1>2, <1>3
  <2> QED BY <1>2, <2>1, <2>2, <2>3
<1>5. Len(q) + 1 \notin DOMAIN q
  BY <1>2, <1>3
<1>6. e.seller \in bazaar.Users
  BY DEF Market!NFTListing
<1>7. Gains(OpenListings(q), OpenListings(r), e.seller, Len(q) + 1)
  BY <1>4, <1>5, <1>6 DEF Gains, OpenListings
<1> QED BY <1>2, <1>7 DEF V, r

LEMMA OfferOpens ==
    ASSUME NEW q \in Seq(Market!NFTOffer), NEW e \in Market!NFTOffer, e.active
    PROVE  /\ Append(q, e) \in Seq(Market!NFTOffer)
           /\ Gains(OpenOffers(q), OpenOffers(Append(q, e)), e.buyer, Len(q) + 1)
<1> DEFINE V == Market!NFTOffer
           r == Append(q, e)
<1> HIDE DEF V
<1>1. q \in Seq(V) /\ e \in V
  BY DEF V
<1>2. /\ r \in Seq(V) /\ Len(r) = Len(q) + 1 /\ r[Len(q) + 1] = e /\ Len(q) \in Nat
      /\ \A i \in 1..Len(q) : r[i] = q[i]
  BY <1>1, AppendProperties
<1>3. DOMAIN q = 1..Len(q) /\ DOMAIN r = 1..(Len(q) + 1)
  BY <1>1, <1>2, ItsEntries
<1> HIDE DEF r
<1>4. ASSUME NEW v \in bazaar.Users
      PROVE  {i \in DOMAIN r : r[i].active /\ r[i].buyer = v}
                = IF v = e.buyer THEN {i \in DOMAIN q : q[i].active /\ q[i].buyer = v} \cup {Len(q) + 1}
                  ELSE {i \in DOMAIN q : q[i].active /\ q[i].buyer = v}
  <2>1. \A i \in DOMAIN r : i \in DOMAIN q \/ i = Len(q) + 1
    BY <1>2, <1>3
  <2>2. DOMAIN q \subseteq DOMAIN r /\ Len(q) + 1 \in DOMAIN r /\ Len(q) + 1 \notin DOMAIN q
    BY <1>2, <1>3
  <2>3. \A i \in DOMAIN q : r[i] = q[i]
    BY <1>2, <1>3
  <2> QED BY <1>2, <2>1, <2>2, <2>3
<1>5. Len(q) + 1 \notin DOMAIN q
  BY <1>2, <1>3
<1>6. e.buyer \in bazaar.Users
  BY DEF Market!NFTOffer
<1>7. Gains(OpenOffers(q), OpenOffers(r), e.buyer, Len(q) + 1)
  BY <1>4, <1>5, <1>6 DEF Gains, OpenOffers
<1> QED BY <1>2, <1>7 DEF V, r

LEMMA ListingCloses ==
    ASSUME NEW q \in Seq(Market!NFTListing), NEW i \in DOMAIN q, q[i].active, NEW r,
           r = [q EXCEPT ![i].active = FALSE]
    PROVE  /\ r \in Seq(Market!NFTListing) /\ i \in DOMAIN r /\ ~r[i].active
           /\ q[i].seller \in bazaar.Users
           /\ Loses(OpenListings(q), OpenListings(r), q[i].seller, i)
<1> DEFINE V == Market!NFTListing
           e == [q[i] EXCEPT !.active = FALSE]
<1>1. q[i] \in V /\ i \in 1..Len(q)
  OBVIOUS
<1>2. e \in V /\ e.active = FALSE /\ e.seller = q[i].seller /\ q[i].seller \in bazaar.Users
  BY <1>1 DEF Market!NFTListing
<1>3. r = [q EXCEPT ![i] = e]
  BY <1>1
<1> HIDE DEF V, e
<1>4. /\ r \in Seq(V) /\ Len(r) = Len(q)
  <2>1. q \in Seq(V)
    BY DEF V
  <2>2. [q EXCEPT ![i] = e] \in Seq(V) /\ Len([q EXCEPT ![i] = e]) = Len(q)
    BY ONLY <1>1, <1>2, <2>1, ExceptSeq
  <2> QED BY <1>3, <2>2
<1>5. DOMAIN r = DOMAIN q /\ r[i] = e /\ \A j \in DOMAIN q : j # i => r[j] = q[j]
  BY <1>3
<1>6. ASSUME NEW v \in bazaar.Users
      PROVE  {j \in DOMAIN r : r[j].active /\ r[j].seller = v}
                = IF v = q[i].seller THEN {j \in DOMAIN q : q[j].active /\ q[j].seller = v} \ {i}
                  ELSE {j \in DOMAIN q : q[j].active /\ q[j].seller = v}
  <2>1. ~r[i].active
    BY <1>2, <1>5
  <2> QED BY <1>5, <2>1
<1>7. Loses(OpenListings(q), OpenListings(r), q[i].seller, i)
  BY <1>2, <1>6 DEF Loses, OpenListings
<1> QED BY <1>2, <1>4, <1>5, <1>7 DEF V

LEMMA OfferCloses ==
    ASSUME NEW q \in Seq(Market!NFTOffer), NEW i \in DOMAIN q, q[i].active, NEW r,
           r = [q EXCEPT ![i].active = FALSE]
    PROVE  /\ r \in Seq(Market!NFTOffer) /\ i \in DOMAIN r /\ ~r[i].active
           /\ q[i].buyer \in bazaar.Users
           /\ Loses(OpenOffers(q), OpenOffers(r), q[i].buyer, i)
<1> DEFINE V == Market!NFTOffer
           e == [q[i] EXCEPT !.active = FALSE]
<1>1. q[i] \in V /\ i \in 1..Len(q)
  OBVIOUS
<1>2. e \in V /\ e.active = FALSE /\ e.buyer = q[i].buyer /\ q[i].buyer \in bazaar.Users
  BY <1>1 DEF Market!NFTOffer
<1>3. r = [q EXCEPT ![i] = e]
  BY <1>1
<1> HIDE DEF V, e
<1>4. /\ r \in Seq(V) /\ Len(r) = Len(q)
  <2>1. q \in Seq(V)
    BY DEF V
  <2>2. [q EXCEPT ![i] = e] \in Seq(V) /\ Len([q EXCEPT ![i] = e]) = Len(q)
    BY ONLY <1>1, <1>2, <2>1, ExceptSeq
  <2> QED BY <1>3, <2>2
<1>5. DOMAIN r = DOMAIN q /\ r[i] = e /\ \A j \in DOMAIN q : j # i => r[j] = q[j]
  BY <1>3
<1>6. ASSUME NEW v \in bazaar.Users
      PROVE  {j \in DOMAIN r : r[j].active /\ r[j].buyer = v}
                = IF v = q[i].buyer THEN {j \in DOMAIN q : q[j].active /\ q[j].buyer = v} \ {i}
                  ELSE {j \in DOMAIN q : q[j].active /\ q[j].buyer = v}
  <2>1. ~r[i].active
    BY <1>2, <1>5
  <2> QED BY <1>5, <2>1
<1>7. Loses(OpenOffers(q), OpenOffers(r), q[i].buyer, i)
  BY <1>2, <1>6 DEF Loses, OpenOffers
<1> QED BY <1>2, <1>4, <1>5, <1>7 DEF V

\* The listings and the offers.
BooksInv ==
    /\ s14 \in Seq(Market!NFTListing) /\ s15 \in Seq(Market!NFTOffer)
    /\ Counts(s16, OpenListings(s14)) /\ Counts(s17, OpenOffers(s15))

\* The loans are in order, and every portfolio counts its open listings and offers.
MarketInv == LendingInv(bazaar) /\ BooksInv

\* The counters are the numbers the property asks for.
LEMMA BooksCounted ==
    ASSUME BooksInv
    PROVE  Market!PortfoliosCountBooks
<1>1. \A S : Market!Cardinality(S) = Cardinality(S)
  BY DEF Market!Cardinality, Cardinality
<1>2. ASSUME NEW u \in bazaar.Users
      PROVE  /\ s16[u] = Market!Cardinality({i \in DOMAIN s14 : s14[i].active /\ s14[i].seller = u})
             /\ s17[u] = Market!Cardinality({i \in DOMAIN s15 : s15[i].active /\ s15[i].buyer = u})
  <2>1. s16[u] = Cardinality(OpenListings(s14)[u]) /\ s17[u] = Cardinality(OpenOffers(s15)[u])
    BY DEF BooksInv, Counts
  <2>2. /\ OpenListings(s14)[u] = {i \in DOMAIN s14 : s14[i].active /\ s14[i].seller = u}
        /\ OpenOffers(s15)[u] = {i \in DOMAIN s15 : s15[i].active /\ s15[i].buyer = u}
    BY DEF OpenListings, OpenOffers
  <2> QED BY <1>1, <2>1, <2>2
<1> QED BY <1>2 DEF Market!PortfoliosCountBooks

LEMMA MarketBegins ==
    ASSUME Market!Init
    PROVE  MarketInv
<1>1. LendingInv(bazaar)
  <2>1. Market!Loans!Init
    BY DEF Market!Init
  <2> QED BY <2>1, BazaarTerms, BazaarLoansBegin, LendingBegins
<1>2. /\ s14 = <<>> /\ s15 = <<>>
      /\ s16 = [u \in bazaar.Users |-> 0] /\ s17 = [u \in bazaar.Users |-> 0]
  BY DEF Market!Init
<1>3. s14 \in Seq(Market!NFTListing) /\ s15 \in Seq(Market!NFTOffer)
  BY <1>2
<1>4. ASSUME NEW u \in bazaar.Users
      PROVE  OpenListings(s14)[u] = {} /\ OpenOffers(s15)[u] = {}
  BY <1>2 DEF OpenListings, OpenOffers
<1>5. Counts(s16, OpenListings(s14)) /\ Counts(s17, OpenOffers(s15))
  BY <1>2, <1>4, FS_EmptySet DEF Counts
<1> QED BY <1>1, <1>3, <1>5 DEF MarketInv, BooksInv

\* A step that changes no loan.
LEMMA BazaarLoansKept ==
    ASSUME LendingInv(bazaar), UNCHANGED <<s2, s3, s4, s5, s6, s7, s8, s9, s10, s11, s12, s13>>,
           s1' \in [bazaar.Nfts -> Lending(bazaar)!Parties]
    PROVE  LendingInv(bazaar)'
<1>1. LoansTyped(bazaar)'
  BY DEF LendingInv, LoansTyped
<1>2. LentTyped(bazaar)' /\ Lending(bazaar)!PoolCoversLoans'
  BY BazaarTerms, PoolsKept
<1>3. SaleTyped(bazaar)'
  BY DEF LendingInv, SaleTyped
<1>4. WorldTyped(bazaar)'
  BY BazaarTerms, WorldKept
<1> QED BY <1>1, <1>2, <1>3, <1>4 DEF LendingInv

LEMMA NothingSold ==
    ASSUME LendingInv(bazaar), UNCHANGED <<s1, Market!loanVars>>
    PROVE  LendingInv(bazaar)' /\ UNCHANGED s1
<1>1. UNCHANGED <<s1, s2, s3, s4, s5, s6, s7, s8, s9, s10, s11, s12, s13>>
  BY DEF Market!loanVars, Market!pledgeVars
<1>2. s1' \in [bazaar.Nfts -> Lending(bazaar)!Parties]
  BY <1>1 DEF LendingInv, LoansTyped
<1> QED BY <1>1, <1>2, BazaarLoansKept

\* A sale gives one NFT of the seller to the buyer.
LEMMA NftSold ==
    ASSUME LendingInv(bazaar), NEW n \in bazaar.Nfts, NEW seller, NEW buyer \in bazaar.Users,
           Market!Trade(n, seller, buyer)
    PROVE  /\ LendingInv(bazaar)' /\ s1[n] = seller /\ s1'[n] = buyer
           /\ \A m \in bazaar.Nfts : s1'[m] # s1[m] => m = n
<1>1. UNCHANGED <<s2, s3, s4, s5, s6, s7, s8, s9, s10, s11, s12, s13>>
  BY DEF Market!Trade, Market!loanVars, Market!pledgeVars
<1>2. s1[n] = seller /\ s1' = [s1 EXCEPT ![n] = buyer]
  BY DEF Market!Trade
<1>3. s1 \in [bazaar.Nfts -> Lending(bazaar)!Parties] /\ buyer \in Lending(bazaar)!Parties
  BY DEF LendingInv, LoansTyped, Lending!Parties
<1>4. s1' \in [bazaar.Nfts -> Lending(bazaar)!Parties]
  BY <1>2, <1>3
<1> QED BY <1>1, <1>2, <1>3, <1>4, BazaarLoansKept

\* A listing, or an offer, that was open is closed and counted out.
LEMMA ListingClosed ==
    ASSUME BooksInv, NEW i \in DOMAIN s14, Market!DeactivateListing(i),
           Market!CountListing(s14[i].seller, -1)
    PROVE  /\ s14' \in Seq(Market!NFTListing) /\ Counts(s16', OpenListings(s14'))
           /\ s14[i].active /\ i \in DOMAIN s14' /\ ~s14'[i].active
<1> DEFINE q == s14
           r == s14'
           u == s14[i].seller
<1>1. q \in Seq(Market!NFTListing) /\ i \in DOMAIN q /\ q[i].active /\ r = [q EXCEPT ![i].active = FALSE]
  BY DEF BooksInv, Market!DeactivateListing
<1>2. s16' = Adjusted(s16, u, -1)
  BY DEF Market!CountListing, Adjusted
<1>3. u = q[i].seller /\ Counts(s16, OpenListings(q))
  BY DEF BooksInv
<1> HIDE DEF q, r, u
<1>4. /\ r \in Seq(Market!NFTListing) /\ i \in DOMAIN r /\ ~r[i].active
      /\ u \in bazaar.Users
      /\ Loses(OpenListings(q), OpenListings(r), u, i)
  BY <1>1, <1>3, ListingCloses
<1>5. Counts(Adjusted(s16, u, -1), OpenListings(r))
  BY <1>3, <1>4, CountsLose
<1> QED BY <1>1, <1>2, <1>4, <1>5 DEF q, r

LEMMA OfferClosed ==
    ASSUME BooksInv, NEW i \in DOMAIN s15, Market!DeactivateOffer(i),
           Market!CountOffer(s15[i].buyer, -1)
    PROVE  /\ s15' \in Seq(Market!NFTOffer) /\ Counts(s17', OpenOffers(s15'))
           /\ s15[i].active /\ i \in DOMAIN s15' /\ ~s15'[i].active
<1> DEFINE q == s15
           r == s15'
           u == s15[i].buyer
<1>1. q \in Seq(Market!NFTOffer) /\ i \in DOMAIN q /\ q[i].active /\ r = [q EXCEPT ![i].active = FALSE]
  BY DEF BooksInv, Market!DeactivateOffer
<1>2. s17' = Adjusted(s17, u, -1)
  BY DEF Market!CountOffer, Adjusted
<1>3. u = q[i].buyer /\ Counts(s17, OpenOffers(q))
  BY DEF BooksInv
<1> HIDE DEF q, r, u
<1>4. /\ r \in Seq(Market!NFTOffer) /\ i \in DOMAIN r /\ ~r[i].active
      /\ u \in bazaar.Users
      /\ Loses(OpenOffers(q), OpenOffers(r), u, i)
  BY <1>1, <1>3, OfferCloses
<1>5. Counts(Adjusted(s17, u, -1), OpenOffers(r))
  BY <1>3, <1>4, CountsLose
<1> QED BY <1>1, <1>2, <1>4, <1>5 DEF q, r

\* What a step of the marketplace is to keep.
Dealt == MarketInv' /\ Market!OneDealPerMove

\* Opening, cancelling and bidding move no NFT.
LEMMA NoDeal ==
    ASSUME MarketInv, UNCHANGED <<s1, Market!loanVars>>, BooksInv'
    PROVE  Dealt
<1>1. LendingInv(bazaar)' /\ UNCHANGED s1
  BY NothingSold DEF MarketInv
<1>2. Market!OneDealPerMove
  BY <1>1 DEF Market!OneDealPerMove
<1> QED BY <1>1, <1>2 DEF Dealt, MarketInv

LEMMA BazaarNumbers ==
    ASSUME MarketInv
    PROVE  s13 \in Nat /\ BooksInv /\ LendingInv(bazaar)
BY BazaarTerms, LendingNumbers DEF MarketInv, LendingInv, WorldTyped

LEMMA CreateListingDeals ==
    ASSUME MarketInv, NEW u \in bazaar.Users, NEW n \in bazaar.Nfts, NEW price \in bazaar.Prices,
           NEW d \in bazaar.Durations, NEW auction \in BOOLEAN,
           Market!CreateListing(u, n, price, d, auction, price)
    PROVE  Dealt
<1> DEFINE least == IF auction THEN price ELSE 0
           e == [nft |-> n, seller |-> u, price |-> price, expires |-> s13 + d,
                 auction |-> auction, minBid |-> least, best |-> 0, bidder |-> u, active |-> TRUE]
           q == s14
<1>1. /\ s14' = Append(q, e) /\ s16' = Adjusted(s16, u, 1)
      /\ UNCHANGED <<s1, Market!loanVars, s15, s17>>
  BY DEF Market!CreateListing, Market!CountListing, Adjusted
<1>2. price \in Nat /\ d \in Nat /\ s13 + d \in Nat /\ least \in Nat
  BY BazaarTerms, BazaarNumbers
<1> HIDE DEF least
<1>3. e \in Market!NFTListing /\ e.active /\ e.seller = u
  BY <1>2 DEF Market!NFTListing
<1>4. q \in Seq(Market!NFTListing) /\ Counts(s16, OpenListings(q))
  BY BazaarNumbers DEF BooksInv
<1> HIDE DEF e, q
<1>5. /\ Append(q, e) \in Seq(Market!NFTListing)
      /\ Gains(OpenListings(q), OpenListings(Append(q, e)), e.seller, Len(q) + 1)
  BY <1>3, <1>4, ListingOpens
<1>6. Counts(Adjusted(s16, u, 1), OpenListings(Append(q, e)))
  BY <1>3, <1>4, <1>5, CountsGain
<1>7. BooksInv'
  BY <1>1, <1>5, <1>6, BazaarNumbers DEF BooksInv
<1> QED BY <1>1, <1>7, NoDeal

LEMMA CreateOfferDeals ==
    ASSUME MarketInv, NEW u \in bazaar.Users, NEW n \in bazaar.Nfts, NEW price \in bazaar.Prices,
           NEW d \in bazaar.Durations, Market!CreateOffer(u, n, price, d)
    PROVE  Dealt
<1> DEFINE e == [nft |-> n, buyer |-> u, amount |-> price, expires |-> s13 + d, active |-> TRUE]
           q == s15
<1>1. /\ s15' = Append(q, e) /\ s17' = Adjusted(s17, u, 1)
      /\ UNCHANGED <<s1, Market!loanVars, s14, s16>>
  BY DEF Market!CreateOffer, Market!CountOffer, Adjusted
<1>2. price \in Nat /\ d \in Nat /\ s13 + d \in Nat
  BY BazaarTerms, BazaarNumbers
<1>3. e \in Market!NFTOffer /\ e.active /\ e.buyer = u
  BY <1>2 DEF Market!NFTOffer
<1>4. q \in Seq(Market!NFTOffer) /\ Counts(s17, OpenOffers(q))
  BY BazaarNumbers DEF BooksInv
<1> HIDE DEF e, q
<1>5. /\ Append(q, e) \in Seq(Market!NFTOffer)
      /\ Gains(OpenOffers(q), OpenOffers(Append(q, e)), e.buyer, Len(q) + 1)
  BY <1>3, <1>4, OfferOpens
<1>6. Counts(Adjusted(s17, u, 1), OpenOffers(Append(q, e)))
  BY <1>3, <1>4, <1>5, CountsGain
<1>7. BooksInv'
  BY <1>1, <1>5, <1>6, BazaarNumbers DEF BooksInv
<1> QED BY <1>1, <1>7, NoDeal

LEMMA PlaceBidDeals ==
    ASSUME MarketInv, NEW u \in bazaar.Users, NEW i \in DOMAIN s14, NEW bid \in bazaar.Prices,
           Market!PlaceBid(u, i, bid)
    PROVE  Dealt
<1> DEFINE V == Market!NFTListing
           e == [s14[i] EXCEPT !.best = bid, !.bidder = u]
           q == s14
<1>1. /\ s14' = [q EXCEPT ![i].best = bid, ![i].bidder = u]
      /\ UNCHANGED <<s1, Market!loanVars, s15, s16, s17>>
  BY DEF Market!PlaceBid
<1>2. q \in Seq(V) /\ i \in 1..Len(q) /\ q[i] \in V /\ bid \in Nat
  BY BazaarTerms, BazaarNumbers DEF BooksInv
<1>3. e \in V /\ e.active = q[i].active /\ e.seller = q[i].seller
  BY <1>2 DEF Market!NFTListing
<1>4. s14' = [q EXCEPT ![i] = e]
  BY <1>1, <1>2
<1> HIDE DEF V, e, q
<1>5. [q EXCEPT ![i] = e] \in Seq(V)
  BY <1>2, <1>3, ExceptSeq
<1>6. OpenListings([q EXCEPT ![i] = e]) = OpenListings(q)
  <2> DEFINE r == [q EXCEPT ![i] = e]
  <2>1. /\ DOMAIN r = DOMAIN q
        /\ \A j \in DOMAIN q : r[j].active = q[j].active /\ r[j].seller = q[j].seller
    BY <1>2, <1>3
  <2> HIDE DEF r
  <2>2. \A u2 \in bazaar.Users : {j \in DOMAIN r : r[j].active /\ r[j].seller = u2}
                               = {j \in DOMAIN q : q[j].active /\ q[j].seller = u2}
    BY <2>1
  <2>3. OpenListings(r) = OpenListings(q)
    BY <2>2 DEF OpenListings
  <2> QED BY <2>3 DEF r
<1>7. BooksInv'
  BY <1>1, <1>4, <1>5, <1>6, BazaarNumbers DEF BooksInv, V, q
<1> QED BY <1>1, <1>7, NoDeal

LEMMA CancelsDeal ==
    ASSUME MarketInv
    PROVE  /\ \A u \in bazaar.Users, i \in DOMAIN s14 : Market!CancelListing(u, i) => Dealt
           /\ \A u \in bazaar.Users, i \in DOMAIN s15 : Market!CancelOffer(u, i) => Dealt
<1>1. ASSUME NEW u \in bazaar.Users, NEW i \in DOMAIN s14, Market!CancelListing(u, i)
      PROVE  Dealt
  <2>1. /\ Market!DeactivateListing(i) /\ Market!CountListing(s14[i].seller, -1)
        /\ UNCHANGED <<s1, Market!loanVars, s15, s17>>
    BY <1>1 DEF Market!CancelListing
  <2>2. s14' \in Seq(Market!NFTListing) /\ Counts(s16', OpenListings(s14'))
    BY <2>1, BazaarNumbers, ListingClosed
  <2>3. BooksInv'
    BY <2>1, <2>2, BazaarNumbers DEF BooksInv
  <2> QED BY <2>1, <2>3, NoDeal
<1>2. ASSUME NEW u \in bazaar.Users, NEW i \in DOMAIN s15, Market!CancelOffer(u, i)
      PROVE  Dealt
  <2>1. /\ Market!DeactivateOffer(i) /\ Market!CountOffer(s15[i].buyer, -1)
        /\ UNCHANGED <<s1, Market!loanVars, s14, s16>>
    BY <1>2 DEF Market!CancelOffer
  <2>2. s15' \in Seq(Market!NFTOffer) /\ Counts(s17', OpenOffers(s15'))
    BY <2>1, BazaarNumbers, OfferClosed
  <2>3. BooksInv'
    BY <2>1, <2>2, BazaarNumbers DEF BooksInv
  <2> QED BY <2>1, <2>3, NoDeal
<1> QED BY <1>1, <1>2

\* A sale by a listing.
LEMMA ListingSells ==
    ASSUME MarketInv, NEW i \in DOMAIN s14, NEW buyer \in bazaar.Users,
           Market!Trade(s14[i].nft, s14[i].seller, buyer), Market!DeactivateListing(i),
           Market!CountListing(s14[i].seller, -1), UNCHANGED <<s15, s17>>
    PROVE  Dealt
<1>1. s14[i].nft \in bazaar.Nfts
  <2>1. s14[i] \in Market!NFTListing
    BY BazaarNumbers DEF BooksInv
  <2> QED BY <2>1 DEF Market!NFTListing
<1>2. /\ s14' \in Seq(Market!NFTListing) /\ Counts(s16', OpenListings(s14'))
      /\ s14[i].active /\ ~s14'[i].active
  BY BazaarNumbers, ListingClosed
<1>3. /\ LendingInv(bazaar)' /\ s1[s14[i].nft] = s14[i].seller
      /\ \A m \in bazaar.Nfts : s1'[m] # s1[m] => m = s14[i].nft
  BY <1>1, BazaarNumbers, NftSold
<1>4. MarketInv'
  BY <1>2, <1>3, BazaarNumbers DEF MarketInv, BooksInv
<1>5. Market!OneDealPerMove
  BY <1>2, <1>3 DEF Market!OneDealPerMove
<1> QED BY <1>4, <1>5 DEF Dealt

LEMMA SalesDeal ==
    ASSUME MarketInv
    PROVE  /\ \A u \in bazaar.Users, i \in DOMAIN s14 : Market!BuyNft(u, i) => Dealt
           /\ \A i \in DOMAIN s14 : Market!FinalizeAuction(i) => Dealt
           /\ \A u \in bazaar.Users, i \in DOMAIN s15 : Market!AcceptOffer(u, i) => Dealt
<1>1. ASSUME NEW u \in bazaar.Users, NEW i \in DOMAIN s14, Market!BuyNft(u, i)
      PROVE  Dealt
  BY <1>1, ListingSells DEF Market!BuyNft
<1>2. ASSUME NEW i \in DOMAIN s14, Market!FinalizeAuction(i)
      PROVE  Dealt
  <2>1. s14[i] \in Market!NFTListing
    BY BazaarNumbers DEF BooksInv
  <2>2. s14[i].bidder \in bazaar.Users
    BY <2>1 DEF Market!NFTListing
  <2> QED BY <1>2, <2>2, ListingSells DEF Market!FinalizeAuction
<1>3. ASSUME NEW u \in bazaar.Users, NEW i \in DOMAIN s15, Market!AcceptOffer(u, i)
      PROVE  Dealt
  <2>1. s15[i] \in Market!NFTOffer
    BY BazaarNumbers DEF BooksInv
  <2>2. s15[i].nft \in bazaar.Nfts /\ s15[i].buyer \in bazaar.Users
    BY <2>1 DEF Market!NFTOffer
  <2>3. /\ Market!Trade(s15[i].nft, u, s15[i].buyer) /\ Market!DeactivateOffer(i)
        /\ Market!CountOffer(s15[i].buyer, -1) /\ UNCHANGED <<s14, s16>>
    BY <1>3 DEF Market!AcceptOffer
  <2>4. /\ s15' \in Seq(Market!NFTOffer) /\ Counts(s17', OpenOffers(s15'))
        /\ s15[i].active /\ ~s15'[i].active
    BY <2>3, BazaarNumbers, OfferClosed
  <2>5. /\ LendingInv(bazaar)' /\ s1'[s15[i].nft] = s15[i].buyer
        /\ \A m \in bazaar.Nfts : s1'[m] # s1[m] => m = s15[i].nft
    BY <2>2, <2>3, BazaarNumbers, NftSold
  <2>6. MarketInv'
    BY <2>3, <2>4, <2>5, BazaarNumbers DEF MarketInv, BooksInv
  <2>7. Market!OneDealPerMove
    BY <2>4, <2>5 DEF Market!OneDealPerMove
  <2> QED BY <2>6, <2>7 DEF Dealt
<1> QED BY <1>1, <1>2, <1>3

\* A loan that is liquidated: everything but its last three fields stays.
LEMMA LoanLiquidated ==
    ASSUME NEW c, Lending(c)!LendingAssumption, LendingInv(c), NEW i \in DOMAIN s2,
           Lending(c)!MarkLiquidated(i)
    PROVE  s2'[i].liquidated
<1>1. s2' = [s2 EXCEPT ![i].liquidated = TRUE, ![i].active = FALSE]
  BY DEF Lending!MarkLiquidated
<1>2. s2[i] \in Debt(c) /\ s2 \in Seq(Debt(c))
  BY ALoan DEF LendingInv, LoansTyped
<1> QED BY <1>1, <1>2 DEF Debt, Lending!NFTLoan

\* Books in which every NFT that moved is that of a loan that was short at the start of
\* the run and is liquidated, and no other loan is short.
SeizedBooks(c) ==
    {s \in Books(c) :
        /\ \A i \in 1..Len(s2) :
               /\ s.loans[i].nft = s2[i].nft
               /\ Lending(c)!Undercollateralized(s.loans[i]) => Lending(c)!Undercollateralized(s2[i])
        /\ \A n \in c.Nfts : s.owner[n] # s1[n] =>
               \E i \in 1..Len(s2) : /\ s2[i].nft = n /\ Lending(c)!Undercollateralized(s2[i])
                                     /\ s.loans[i].liquidated}

\* What a liquidation does to the books: it strikes off debt, or moves the NFT of the loan.
LEMMA LiquidatedLoans ==
    ASSUME NEW c, Lending(c)!LendingAssumption, LendingInv(c), NEW s \in Books(c), NEW i \in 1..Len(s2),
           NEW r, r = Lending(c)!Liquidated(s, i)
    PROVE  /\ \A k \in 1..Len(s2) : k # i => r.loans[k] = s.loans[k]
           /\ r.loans[i].nft = s.loans[i].nft
           /\ s.loans[i].liquidated => r.loans[i].liquidated
           /\ \A n \in c.Nfts : r.owner[n] # s.owner[n] => n = s.loans[i].nft /\ r.loans[i].liquidated
<1> DEFINE loan == s.loans[i]
           due == Lending(c)!TotalDue(loan)
           new == IF s.bids[i] # <<>> THEN s.bids[i][1] ELSE loan.lender
           q == s.loans
           o == s.owner
<1>1. /\ o \in [c.Nfts -> Lending(c)!Parties] /\ q \in [1..Len(s2) -> Debt(c)]
      /\ s = [owner |-> o, loans |-> q, taken |-> s.taken, given |-> s.given, bids |-> s.bids]
  BY DEF Books
<1>2. loan \in Debt(c)
  BY <1>1
<1>3. CASE s9[loan.nft] # 0 /\ Lending(c)!Ltv(loan) <= c.PartialLtv
  <2> DEFINE left == due - due \div 2
             e == [loan EXCEPT !.repayment = left]
  <2>1. r = [s EXCEPT !.loans = [q EXCEPT ![i] = e]]
    BY <1>3 DEF Lending!Liquidated
  <2> HIDE DEF left
  <2>2. e.nft = loan.nft /\ e.liquidated = loan.liquidated
    BY <1>2 DEF Debt, Lending!NFTLoan
  <2> HIDE DEF e, q, o
  <2>3. r.loans = [q EXCEPT ![i] = e] /\ r.owner = o
    BY <1>1, <2>1
  <2>4. r.loans[i] = e /\ \A k \in 1..Len(s2) : k # i => r.loans[k] = q[k]
    BY <1>1, <2>3
  <2> QED BY <2>2, <2>3, <2>4 DEF q, o
<1>4. CASE ~(s9[loan.nft] # 0 /\ Lending(c)!Ltv(loan) <= c.PartialLtv)
  <2> DEFINE e == [loan EXCEPT !.liquidated = TRUE, !.active = FALSE]
  <2>1. /\ r.owner = [o EXCEPT ![loan.nft] = new]
        /\ r.loans = [q EXCEPT ![i].liquidated = TRUE, ![i].active = FALSE]
    BY <1>4 DEF Lending!Liquidated
  <2>2. r.loans = [q EXCEPT ![i] = e]
    BY <1>1, <2>1
  <2>3. e.nft = loan.nft /\ e.liquidated = TRUE
    BY <1>2 DEF Debt, Lending!NFTLoan
  <2> HIDE DEF e, q, o, new
  <2>4. r.loans[i] = e /\ \A k \in 1..Len(s2) : k # i => r.loans[k] = q[k]
    BY <1>1, <2>2
  <2>5. \A n \in c.Nfts : r.owner[n] # o[n] => n = loan.nft
    BY <1>1, <2>1
  <2> QED BY <2>3, <2>4, <2>5 DEF q, o
<1> QED BY <1>3, <1>4

LEMMA LiquidationsSeize ==
    ASSUME NEW c, Lending(c)!LendingAssumption, LendingInv(c)
    PROVE  LiquidationsKeep(c, SeizedBooks(c))
<1>1. Lending(c)!Ledger \in SeizedBooks(c)
  <2>1. Lending(c)!Ledger \in Books(c)
    BY TheBooks
  <2>2. Lending(c)!Ledger.owner = s1 /\ Lending(c)!Ledger.loans = s2
    BY DEF Lending!Ledger
  <2> QED BY <2>1, <2>2 DEF SeizedBooks
<1>2. ASSUME NEW s \in SeizedBooks(c), NEW i \in 1..Len(s2),
             Lending(c)!Undercollateralized(s.loans[i])
      PROVE  Lending(c)!Liquidated(s, i) \in SeizedBooks(c)
  <2>1. PICK r : r = Lending(c)!Liquidated(s, i)
    OBVIOUS
  <2>2. s \in Books(c)
    BY DEF SeizedBooks
  <2>3. r \in Books(c)
    BY <2>1, <2>2, LiquidatedBooks
  <2>4. /\ \A k \in 1..Len(s2) : k # i => r.loans[k] = s.loans[k]
        /\ r.loans[i].nft = s.loans[i].nft
        /\ s.loans[i].liquidated => r.loans[i].liquidated
        /\ \A n \in c.Nfts : r.owner[n] # s.owner[n] => n = s.loans[i].nft /\ r.loans[i].liquidated
    BY <2>1, <2>2, LiquidatedLoans
  <2>5. /\ \A k \in 1..Len(s2) :
               /\ s.loans[k].nft = s2[k].nft
               /\ Lending(c)!Undercollateralized(s.loans[k]) => Lending(c)!Undercollateralized(s2[k])
        /\ \A n \in c.Nfts : s.owner[n] # s1[n] =>
               \E k \in 1..Len(s2) : /\ s2[k].nft = n /\ Lending(c)!Undercollateralized(s2[k])
                                     /\ s.loans[k].liquidated
    BY DEF SeizedBooks
  <2>6. Lending(c)!Undercollateralized(s2[i])
    BY <1>2, <2>5
  <2>7. ASSUME NEW k \in 1..Len(s2)
        PROVE  /\ r.loans[k].nft = s2[k].nft
               /\ Lending(c)!Undercollateralized(r.loans[k]) => Lending(c)!Undercollateralized(s2[k])
    <3>1. CASE k = i
      BY <2>4, <2>5, <2>6, <3>1
    <3>2. CASE k # i
      BY <2>4, <2>5, <3>2
    <3> QED BY <3>1, <3>2
  <2>8. ASSUME NEW n \in c.Nfts, r.owner[n] # s1[n]
        PROVE  \E k \in 1..Len(s2) : /\ s2[k].nft = n /\ Lending(c)!Undercollateralized(s2[k])
                                     /\ r.loans[k].liquidated
    <3>1. CASE r.owner[n] # s.owner[n]
      <4>1. n = s2[i].nft /\ r.loans[i].liquidated
        BY <2>4, <2>5, <3>1
      <4> QED BY <2>6, <4>1
    <3>2. CASE r.owner[n] = s.owner[n]
      <4>1. PICK k \in 1..Len(s2) : /\ s2[k].nft = n /\ Lending(c)!Undercollateralized(s2[k])
                                    /\ s.loans[k].liquidated
        BY <2>5, <2>8, <3>2
      <4>2. r.loans[k].liquidated
        BY <2>4, <4>1
      <4> QED BY <4>1, <4>2
    <3> QED BY <3>1, <3>2
  <2>9. r \in SeizedBooks(c)
    BY <2>3, <2>7, <2>8 DEF SeizedBooks
  <2> QED BY <2>1, <2>9
<1> QED BY <1>1, <1>2 DEF LiquidationsKeep, SeizedBooks

\* An NFT that moves with the books moves by a loan that is short.
LEMMA BooksSeize ==
    ASSUME NEW c, Lending(c)!LendingAssumption, LendingInv(c), NEW s \in SeizedBooks(c),
           Lending(c)!Becomes(s), NEW n \in c.Nfts, s1'[n] # s1[n]
    PROVE  Lending(c)!Seized(n)
<1>1. s1' = s.owner /\ s2' = s.loans
  BY DEF Lending!Becomes
<1>2. PICK i \in 1..Len(s2) : /\ s2[i].nft = n /\ Lending(c)!Undercollateralized(s2[i])
                              /\ s.loans[i].liquidated
  BY <1>1 DEF SeizedBooks
<1>3. i \in DOMAIN s2
  BY DEF LendingInv, LoansTyped
<1>4. Lending(c)!Live(s2[i])
  BY <1>2 DEF Lending!Undercollateralized
<1> QED BY <1>1, <1>2, <1>3, <1>4 DEF Lending!Seized

\* Of the steps of the loans, only a liquidation moves an NFT.
LEMMA LoansSeize ==
    ASSUME NEW c, Lending(c)!LendingAssumption, LendingInv(c), Lending(c)!Next,
           NEW n \in c.Nfts, s1'[n] # s1[n]
    PROVE  Lending(c)!Seized(n)
<1>1. ~(UNCHANGED s1)
  OBVIOUS
<1>2. CASE Lending(c)!PeerNext
  <2>1. PICK i \in DOMAIN s2 : Lending(c)!LiquidateLoan(i)
    <3>1. \A u, m, amount, rate, days : ~Lending(c)!RequestLoan(u, m, amount, rate, days)
      BY <1>1 DEF Lending!RequestLoan
    <3>2. \A u, i : ~Lending(c)!FundLoan(u, i)
      BY <1>1 DEF Lending!FundLoan
    <3>3. \A u, i, paid : ~Lending(c)!RepayLoan(u, i, paid)
      BY <1>1 DEF Lending!RepayLoan
    <3>4. \A u, i : ~Lending(c)!CancelLoanRequest(u, i)
      BY <1>1 DEF Lending!CancelLoanRequest, Lending!vars
    <3> QED BY <1>2, <3>1, <3>2, <3>3, <3>4 DEF Lending!PeerNext
  <2>2. /\ Lending(c)!Live(s2[i]) /\ s13 > s2[i].due + c.Grace
        /\ s1' = [s1 EXCEPT ![s2[i].nft] = s2[i].lender] /\ Lending(c)!MarkLiquidated(i)
    BY <2>1 DEF Lending!LiquidateLoan
  <2>3. n = s2[i].nft
    BY <2>2 DEF LendingInv, LoansTyped
  <2>4. s2'[i].liquidated
    BY <2>2, LoanLiquidated
  <2> QED BY <2>2, <2>3, <2>4 DEF Lending!Seized
<1>3. CASE Lending(c)!PoolNext
  <2>1. \A p : ~Lending(c)!CreateLendingPool(p)
    BY <1>1 DEF Lending!CreateLendingPool
  <2>2. \A u, p, amount : ~Lending(c)!DepositToLendingPool(u, p, amount)
    BY <1>1 DEF Lending!DepositToLendingPool
  <2>3. \A u, p, amount : ~Lending(c)!WithdrawFromLendingPool(u, p, amount)
    BY <1>1 DEF Lending!WithdrawFromLendingPool
  <2>4. \A u, p, m, amount, days : ~Lending(c)!BorrowFromLendingPool(u, p, m, amount, days)
    BY <1>1 DEF Lending!BorrowFromLendingPool
  <2>5. \A u, p, i, paid : ~Lending(c)!RepayLendingPoolLoan(u, p, i, paid)
    BY <1>1 DEF Lending!RepayLendingPoolLoan
  <2> QED BY <1>3, <2>1, <2>2, <2>3, <2>4, <2>5 DEF Lending!PoolNext
<1>4. CASE Lending(c)!SaleNext
  <2>1. ASSUME NEW i \in DOMAIN s2, Lending(c)!ExecuteLiquidation(i)
        PROVE  Lending(c)!Seized(n)
    <3>1. Lending(c)!Becomes(Lending(c)!Liquidated(Lending(c)!Ledger, i))
          /\ Lending(c)!Undercollateralized(Lending(c)!Ledger.loans[i])
      BY <2>1 DEF Lending!ExecuteLiquidation, Lending!Ledger
    <3>2. Lending(c)!Liquidated(Lending(c)!Ledger, i) \in SeizedBooks(c)
      BY <3>1, ALoan, LiquidationsSeize DEF LiquidationsKeep
    <3> QED BY <3>1, <3>2, BooksSeize
  <2>2. ASSUME NEW u \in c.Users, NEW i \in DOMAIN s2, Lending(c)!LiquidateUndercollateralizedLoan(u, i)
        PROVE  Lending(c)!Seized(n)
    <3>1. /\ Lending(c)!CanLiquidate(s2[i]) /\ Lending(c)!MarkLiquidated(i)
          /\ s1' = [s1 EXCEPT ![s2[i].nft] = u]
      BY <2>2 DEF Lending!LiquidateUndercollateralizedLoan
    <3>2. n = s2[i].nft
      BY <3>1 DEF LendingInv, LoansTyped
    <3>3. s2'[i].liquidated
      BY <3>1, LoanLiquidated
    <3>4. Lending(c)!Live(s2[i])
      BY <3>1 DEF Lending!CanLiquidate
    <3> QED BY <3>1, <3>2, <3>3, <3>4 DEF Lending!Seized
  <2>3. ASSUME NEW most \in 1..c.QueueSize, Lending(c)!ProcessLiquidationQueue(most)
        PROVE  Lending(c)!Seized(n)
    <3>1. most \in Nat
      BY LendingNumbers
    <3>2. PICK s \in SeizedBooks(c) : Lending(c)!Becomes(s) /\ s10' \in Seq(1..Len(s2))
      BY <2>3, <3>1, LiquidationsSeize, ProcessRuns
    <3> QED BY <3>2, BooksSeize
  <2>4. \A i : ~Lending(c)!EnqueueLiquidation(i)
    BY <1>1 DEF Lending!EnqueueLiquidation
  <2>5. ~Lending(c)!MonitorAndQueueLiquidations
    BY <1>1 DEF Lending!MonitorAndQueueLiquidations
  <2>6. \A u, i, bid : ~Lending(c)!PlaceLiquidationBid(u, i, bid)
    BY <1>1 DEF Lending!PlaceLiquidationBid
  <2> QED BY <1>4, <2>1, <2>2, <2>3, <2>4, <2>5, <2>6 DEF Lending!SaleNext
<1>5. \A m, v : ~Lending(c)!SetValue(m, v)
  BY <1>1 DEF Lending!SetValue
<1>6. \A flag : ~Lending(c)!SetPaused(flag)
  BY <1>1 DEF Lending!SetPaused
<1>7. ~Lending(c)!Tick
  BY <1>1 DEF Lending!Tick
<1> QED BY <1>2, <1>3, <1>4, <1>5, <1>6, <1>7 DEF Lending!Next

LEMMA MarketGoesOn ==
    ASSUME MarketInv, Market!Next
    PROVE  Dealt
<1>1. CASE Market!Loans!Next /\ UNCHANGED Market!bookVars
  <2>1. Lending(bazaar)!Next
    BY <1>1, BazaarLoanSteps
  <2>2. LendingInv(bazaar)'
    BY <2>1, BazaarTerms, BazaarNumbers, LendingGoesOn
  <2>3. UNCHANGED <<s14, s15, s16, s17>>
    BY <1>1 DEF Market!bookVars
  <2>4. MarketInv'
    BY <2>2, <2>3, BazaarNumbers DEF MarketInv, BooksInv
  <2>5. ASSUME NEW n \in bazaar.Nfts, s1'[n] # s1[n]
        PROVE  Market!Loans!Seized(n)
    <3>1. Lending(bazaar)!Seized(n)
      BY <2>1, <2>5, BazaarTerms, BazaarNumbers, LoansSeize
    <3> QED BY <3>1, BazaarShort DEF Lending!Seized, Market!Loans!Seized
  <2>6. Market!OneDealPerMove
    BY <2>5 DEF Market!OneDealPerMove
  <2> QED BY <2>4, <2>6 DEF Dealt
<1>2. CASE Market!MarketNext
  BY <1>2, CreateListingDeals, CreateOfferDeals, PlaceBidDeals, CancelsDeal, SalesDeal
  DEF Market!MarketNext, Market!ListingNext
<1> QED BY <1>1, <1>2 DEF Market!Next

\* What the properties of the books look at.
LEMMA BooksRest ==
    ASSUME UNCHANGED vars
    PROVE  /\ SharesInv => SharesInv'
           /\ MarketInv => MarketInv'
<1>1. UNCHANGED <<s1, s2, s3, s4, s5, s6, s7, s8, s9, s10, s11, s12, s13, s14, s15, s16, s17>>
  BY NothingMoves
<1>2. SharesInv => SharesInv'
  BY <1>1 DEF SharesInv, SharesTyped, Fractions!HoldersListed
<1>3. LendingInv(bazaar) => LendingInv(bazaar)'
  BY <1>1 DEF LendingInv, LoansTyped, LentTyped, SaleTyped, WorldTyped, Lending!PoolCoversLoans
<1>4. BooksInv => BooksInv'
  BY <1>1 DEF BooksInv
<1> QED BY <1>2, <1>3, <1>4 DEF MarketInv

\* BooksAgree, for every set of users and NFTs, every number of shares, price and bound:
\* however splits, sales, joins, vaults, listings, offers, auctions and loans interleave,
\* the lists of holders are exact, a vault's supply is what its holders have and within
\* its total, and every portfolio counts its open listings and offers.
THEOREM BooksAgreeAlways == CoreSpec => []BooksAgree
<1> DEFINE Inv == (part = "fractions" => SharesInv) /\ (part = "market" => MarketInv)
<1>1. CoreInit => Inv
  BY PartBegins, SharesBegin, MarketBegins DEF InFractions, InMarket
<1>2. Inv /\ [CoreNext]_vars => Inv'
  <2>1. ASSUME Inv, CoreNext PROVE Inv'
    BY <2>1, PartGoesOn, SharesGoOn, MarketGoesOn DEF FractionsStep, MarketStep, Dealt
  <2>2. ASSUME Inv, UNCHANGED vars PROVE Inv'
    BY <2>2, NothingMoves, BooksRest
  <2> QED BY <2>1, <2>2
<1>3. Inv => BooksAgree
  BY SharesAgree, BooksCounted DEF BooksAgree, MarketInv
<1> QED BY <1>1, <1>2, <1>3, PTL DEF CoreSpec

\* OneDealPerMove, for every set of users, NFTs and pools and every price and bound: an
\* NFT moves by an active listing of its owner, an active offer, or a live loan that is
\* short or overdue, which the step closes; also when one call liquidates a whole queue.
THEOREM OneDealPerMoveAlways == CoreSpec => OneDealPerMove
<1> DEFINE Inv == part = "market" => MarketInv
           Step == part = "market" => Market!OneDealPerMove
<1>1. CoreInit => Inv
  BY PartBegins, MarketBegins DEF InMarket
<1>2. Inv /\ [CoreNext]_vars => Inv' /\ [Step]_vars
  <2>1. ASSUME Inv, CoreNext PROVE Inv' /\ Step
    BY <2>1, PartGoesOn, MarketGoesOn DEF MarketStep, Dealt
  <2>2. ASSUME Inv, UNCHANGED vars PROVE Inv'
    BY <2>2, NothingMoves, BooksRest
  <2> QED BY <2>1, <2>2
<1>3. Inv /\ [CoreNext]_vars => [Step]_vars
  BY <1>2
<1> QED BY <1>1, <1>2, <1>3, PTL DEF CoreSpec, OneDealPerMove
=============================================================================
