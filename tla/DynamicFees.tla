----------------------------- MODULE DynamicFees -----------------------------
(***************************************************************************)
(* The trading fee that follows the congestion of the network: counter/    *)
(* src/fee_adjustment_manager.rs with dynamic_fee_adjustment.rs (the       *)
(* formula), network_congestion.rs (the level), emergency_override.rs (a   *)
(* cap for hard times) and fee_history.rs (what the fee was).  Fees are in *)
(* basis points and the thresholds are those of the code.                  *)
(*                                                                         *)
(* The cap an admin gives to the override is stored and never read: the    *)
(* formula takes emergency_fee_cap_bps of the configuration.               *)
(***************************************************************************)
EXTENDS Integers, Sequences, SequencesExt, FiniteSetsExt, Sums

CONSTANTS
    Admins,                     \* whom the override may know
    Configs, FirstConfig,       \* bound: the configurations given
    Metrics,                    \* bound: what the network reports
    Fees, Caps, Retentions,     \* bounds: arguments
    Recovery,                   \* AUTO_RECOVERY_TIMEOUT
    MaxHistory,                 \* MAX_HISTORY_ENTRIES
    PageSize, MaxTime           \* bounds

\* FeeAdjustmentConfig with CongestionFeeMultipliers, NetworkMetrics: unsigned integers
FeeConfig == [base : Nat, min : Nat, max : Nat, cap : Nat, cooldown : Nat, trends : BOOLEAN,
              trendPercent : Nat, overrides : BOOLEAN, multipliers : [1..5 -> Nat]]
NetworkMetrics == [gas : Nat, volume : Nat, pending : Nat, capacity : Nat]

DynamicFeesAssumption ==
    /\ FirstConfig \in Configs /\ Fees \subseteq Nat /\ Caps \subseteq Nat
    /\ Configs \subseteq FeeConfig /\ Metrics \subseteq NetworkMetrics
    /\ Retentions \subseteq Nat /\ {Recovery, MaxHistory, PageSize} \subseteq Nat \ {0}

None == <<>>

VARIABLES
    config,
    fee, previousFee,
    metrics, lastMetrics,   \* NETWORK_METRICS_KEY; PREVIOUS_METRICS_KEY or None
    lastUpdate,             \* of update_fees_for_congestion
    override,               \* EmergencyOverrideState, without its count of triggers
    admins,                 \* the authorized admins
    history,                \* FeeHistoryEntry, oldest first
    now

vars == <<config, fee, previousFee, metrics, lastMetrics, lastUpdate, override,
          admins, history, now>>

-----------------------------------------------------------------------------
(* network_congestion.rs                                                   *)

Clip(x, top) == IF x >= top THEN 100 ELSE (x * 100) \div top
GasFactor(p) == IF p <= 100 THEN 0 ELSE Clip(p - 100, 4900)
Score(m) == (GasFactor(m.gas) * 30 + Clip(m.volume, 1000) * 25 + Clip(m.pending, 10000) * 25
             + Min({m.capacity, 100}) * 20) \div 100

\* VeryLow to Critical
Level(m) == CASE Score(m) <= 20 -> 1 [] Score(m) \in 21..40 -> 2 [] Score(m) \in 41..60 -> 3
              [] Score(m) \in 61..80 -> 4 [] OTHER -> 5

\* calculate_trend, without earlier metrics stable
Trend(m, earlier) ==
    IF earlier = None \/ Level(m) = Level(earlier) THEN "Stable"
    ELSE IF Level(m) > Level(earlier) THEN "Increasing" ELSE "Decreasing"

-----------------------------------------------------------------------------
(* dynamic_fee_adjustment.rs                                               *)

\* Two changes for a trend: some points on the multiplier, a part of the base fee
AdjustedFee(c, m, earlier, capped) ==
    LET trend == IF c.trends THEN Trend(m, earlier) ELSE "Stable"
        multiplier == c.multipliers[Level(m)]
        part == (c.base * Min({c.trendPercent, 50})) \div 100
        raw == CASE trend = "Increasing" -> (c.base * (multiplier + 5)) \div 100 + part
                 [] trend = "Decreasing" ->
                       Max({(c.base * Max({multiplier - 3, 0})) \div 100 - part \div 2, 0})
                 [] trend = "Stable" -> (c.base * multiplier) \div 100
        limited == IF capped /\ c.overrides THEN Min({raw, c.cap}) ELSE raw
    IN  Min({Max({limited, c.min}), c.max})

\* should_auto_trigger: two signs, or one that is extreme
Alarms(m) == Cardinality({i \in 1..3 : <<m.capacity >= 95, m.gas >= 5000, m.pending >= 15000>>[i]})
ShouldTrigger(m) ==
    \/ Alarms(m) >= 2
    \/ Alarms(m) = 1 /\ (m.capacity >= 98 \/ m.gas >= 7000 \/ m.pending >= 20000)
AutomaticCap(m) ==
    IF Alarms(m) >= 2 THEN 200
    ELSE IF m.capacity >= 95 THEN 300 ELSE IF m.gas >= 5000 THEN 250 ELSE 280

-----------------------------------------------------------------------------
(* fee_history.rs                                                          *)

\* record_fee_adjustment drops the oldest entries
Recorded(new, old, m, reason) ==
    LET entries == Append(history, [at |-> now, fee |-> new, previous |-> old,
                                    level |-> Level(m), reason |-> reason])
    IN  IF Len(entries) > MaxHistory THEN Tail(entries) ELSE entries

InRange(from, to) == Picked(history, {i \in DOMAIN history : history[i].at \in from..to})

\* calculate_statistics of a period that has entries
Statistics(entries) ==
    LET fees == {entries[i].fee : i \in DOMAIN entries}
    IN  [least |-> Min(fees), most |-> Max(fees),
         mean |-> Total([i \in DOMAIN entries |-> entries[i].fee], Len(entries))
                     \div Len(entries)]

\* get_fee_changes_paginated
TotalPages == (Len(history) + PageSize - 1) \div PageSize
Page(p) ==
    IF p >= TotalPages THEN <<>>
    ELSE SubSeq(history, p * PageSize + 1, Min({(p + 1) * PageSize, Len(history)}))

-----------------------------------------------------------------------------
Inactive == [active |-> FALSE, cap |-> 300, until |-> None]

Activated(cap) == [active |-> TRUE, cap |-> cap, until |-> <<now + Recovery>>]

\* initialize records the first entry
Init ==
    /\ config = FirstConfig /\ fee = FirstConfig.base /\ previousFee = FirstConfig.base
    /\ metrics \in Metrics /\ lastMetrics = None /\ lastUpdate = 0
    /\ override = Inactive /\ admins = {} /\ now = 1
    /\ history = << [at |-> 1, fee |-> FirstConfig.base, previous |-> FirstConfig.base,
                     level |-> Level(metrics), reason |-> "SystemInitialization"] >>

TypeOK ==
    /\ config \in Configs /\ fee \in Nat /\ previousFee \in Nat
    /\ metrics \in Metrics /\ (lastMetrics = None \/ lastMetrics \in Metrics)
    /\ admins \subseteq Admins /\ Len(history) <= MaxHistory
    /\ override.active <=> override.until # None
    /\ lastUpdate \in 0..now

feeVars == <<fee, previousFee, history>>
overrideVars == <<override, admins>>
netVars == <<metrics, lastMetrics, lastUpdate>>

\* The fee moves, or it is as it was
Moves(new, m, reason) ==
    IF new = fee THEN UNCHANGED feeVars
    ELSE /\ fee' = new /\ previousFee' = fee
         /\ history' = Recorded(new, fee, m, reason)

\* The override starts by itself, and ends by its timer in a later update
UpdateFeesForCongestion(m) ==
    LET next == IF override.active
                THEN IF now >= override.until[1]
                     THEN [override EXCEPT !.active = FALSE, !.until = None] ELSE override
                ELSE IF ShouldTrigger(m) THEN Activated(AutomaticCap(m)) ELSE override
    IN  /\ now - lastUpdate >= config.cooldown
        /\ override' = next
        /\ Moves(AdjustedFee(config, m, lastMetrics, next.active), m, "Automatic")
        /\ metrics' = m /\ lastMetrics' = m /\ lastUpdate' = now
        /\ UNCHANGED <<config, admins, now>>

\* Mutation: the admin's fee is not recorded
UpdateUnrecorded(new) ==
    /\ new \in config.min..config.max /\ new # fee
    /\ fee' = new /\ previousFee' = fee
    /\ UNCHANGED <<history, config, netVars, overrideVars, now>>

\* Knows no override and no cooldown
UpdateFeesManual(new) ==
    /\ new \in config.min..config.max /\ new # fee
    /\ Moves(new, metrics, "Manual")
    /\ UNCHANGED <<config, netVars, overrideVars, now>>

\* Leaves the fee where it is, also out of the new range
UpdateConfig(c) ==
    /\ c.min <= c.base /\ c.base <= c.max /\ c.max <= 1000
    /\ config' = c
    /\ UNCHANGED <<feeVars, netVars, overrideVars, now>>

ActivateOverride(a, cap) ==
    /\ a \in admins /\ ~override.active
    /\ override' = Activated(cap)
    /\ UNCHANGED <<config, feeVars, netVars, admins, now>>

DeactivateOverride(a) ==
    /\ a \in admins /\ override.active
    /\ override' = [override EXCEPT !.active = FALSE, !.until = None]
    /\ UNCHANGED <<config, feeVars, netVars, admins, now>>

\* add_authorized_admin, remove_authorized_admin
SetAdmins(set) ==
    admins' = set /\ UNCHANGED <<config, feeVars, netVars, override, now>>

CleanupOldHistory(retention) ==
    /\ history' = Picked(history, {i \in DOMAIN history :
                                    history[i].at >= Max({now - retention, 0})})
    /\ UNCHANGED <<config, fee, previousFee, netVars, overrideVars, now>>

Tick == now < MaxTime /\ now' = now + 1
        /\ UNCHANGED <<config, feeVars, netVars, overrideVars>>

Next ==
    \/ \E m \in Metrics : UpdateFeesForCongestion(m)
    \/ \E f \in Fees : UpdateFeesManual(f)
    \/ \E c \in Configs : UpdateConfig(c)
    \/ \E a \in Admins : \/ \E cap \in Caps : ActivateOverride(a, cap)
                         \/ DeactivateOverride(a)
                         \/ SetAdmins(admins \cup {a}) \/ SetAdmins(admins \ {a})
    \/ \E r \in Retentions : CleanupOldHistory(r)
    \/ Tick

Spec == Init /\ [][Next]_vars

-----------------------------------------------------------------------------
Chained == \A i \in 2..Len(history) :
    history[i].previous = history[i - 1].fee /\ history[i].at >= history[i - 1].at

EndsToday == history # <<>> =>
    Last(history).fee = fee /\ Last(history).previous = previousFee

PagesCover == FlattenSeq([p \in 1..TotalPages |-> Page(p - 1)]) = history

MeanBetween == \A from \in 0..now :
    LET entries == InRange(from, now)
    IN  entries # <<>> => LET s == Statistics(entries) IN s.mean \in s.least..s.most

\* The history is an account of the fee: every entry starts from the fee of the one
\* before and the last is the fee in force, however admins, congestion, overrides and
\* clean-ups take turns; its pages give every entry once, and the mean of any period
\* lies between its extremes.
HistoryChains == Chained /\ EndsToday /\ PagesCover /\ MeanBetween
=============================================================================
