----------------------------- MODULE SwapGuards -----------------------------
(***************************************************************************)
(* The guards in front of a swap of the counter contract: the price        *)
(* adapter with its own breaker (counter/src/oracle_adapter.rs), the       *)
(* breaker on the traded volume                                            *)
(* (counter/src/risk_management/volume_circuit_breaker.rs), the two pause  *)
(* flags, and the counts per user and hour (counter/src/rate_limit.rs).    *)
(*                                                                         *)
(* swap.rs feeds the volume breaker.  One token pair.  The adapter stores   *)
(* its state before it returns an error; a caller that returns the error   *)
(* to the host takes the store back, one that handles it keeps it, and     *)
(* UpdatePriceJump allows both.                                            *)
(***************************************************************************)
EXTENDS Integers, Sequences, FiniteSets, Functions

CONSTANTS
    Users,          \* the traders
    SwapsPerHour,   \* the limit of their tier
    Hour,           \* the length of a window, in units of time
    Prices,         \* bound: the prices that are posted
    DeviationUnit,  \* the whole a deviation is a part of (10000)
    Thresholds,     \* bound: the deviations that trip the price breaker
    TwapWindows,    \* bound: the window sizes of the average
    Staleness,      \* staleness_threshold
    Volumes,        \* bound: the amounts traded
    VolumeWindow,   \* window_secs of the volume breaker
    Ceilings,       \* bound: its max_volume
    MaxEntries,     \* bound: trades recorded in one window
    MaxTime         \* bound: the ledger time

GuardsAssumption ==
    /\ SwapsPerHour \in Nat /\ Hour \in Nat \ {0}
    /\ Prices \subseteq Nat \ {0} /\ DeviationUnit \in Nat \ {0}
    /\ Thresholds \subseteq Nat /\ TwapWindows \subseteq Nat \ {0}
    /\ Staleness \in Nat /\ VolumeWindow \in Nat
    /\ Volumes \subseteq Nat /\ Ceilings \subseteq Nat
    /\ MaxEntries \in Nat /\ MaxTime \in Nat

VARIABLES
    config,         \* OracleConfig of the pair: threshold, window, active
    oracle,         \* OracleState of the pair
    ceiling,        \* max_volume
    volume,         \* VOLUME_KEY: the entries <<time, amount>>, oldest first
    tripped,        \* TRIPPED_KEY
    pausedFlag,     \* PAUSED_KEY in instance storage, which the breaker sets
    paused,         \* PAUSED_KEY in persistent storage, which trading reads
    swapsIn,        \* the counters per user and window start, absent as 0
    hourly,         \* the cached window boundary: start, expiry
    now

oracleVars == <<config, oracle>>
volumeVars == <<ceiling, volume, tripped, pausedFlag, paused>>
rateVars   == <<swapsIn, hourly>>
vars == <<oracleVars, volumeVars, rateVars, now>>

Times  == 0..MaxTime
Starts == {t \in Times : t % Hour = 0}

TypeOK ==
    /\ config \in [threshold : Thresholds, window : TwapWindows, active : BOOLEAN]
    /\ oracle \in [current : Nat, history : Seq(Prices), updated : Times,
                   tripped : BOOLEAN, fallback : Nat]
    /\ ceiling \in Nat /\ volume \in Seq(Times \X Volumes)
    /\ tripped \in BOOLEAN /\ pausedFlag \in BOOLEAN /\ paused \in BOOLEAN
    /\ swapsIn \in [Users \X Starts -> Nat]
    /\ hourly \in [start : Times, expires : Nat] /\ now \in Times

\* initialize_oracle with some price; nothing traded yet
Init ==
    /\ config \in [threshold : Thresholds, window : TwapWindows, active : {TRUE}]
    /\ oracle \in [current : Prices, history : {<<>>}, updated : {0},
                   tripped : {FALSE}, fallback : Prices]
    /\ oracle.fallback = oracle.current
    /\ ceiling \in Ceilings /\ volume = <<>>
    /\ tripped = FALSE /\ pausedFlag = FALSE /\ paused = FALSE
    /\ swapsIn = [entry \in Users \X Starts |-> 0]
    /\ hourly = [start |-> 0, expires |-> 0]
    /\ now = 0

-----------------------------------------------------------------------------
(* The price adapter.                                                      *)

LastOf(seq, n) == SubSeq(seq, IF Len(seq) > n THEN Len(seq) - n + 1 ELSE 1, Len(seq))

Twap(history, window) ==
    LET recent == LastOf(history, window)
    IN  IF recent = <<>> THEN 0 ELSE SumFunction(recent) \div Len(recent)

Deviation(old, new) ==
    ((IF new >= old THEN new - old ELSE old - new) * DeviationUnit) \div old

NoPrice == 0

Stale == now - oracle.updated > Staleness

\* get_price: a stale or tripped oracle answers its fallback
GetPrice ==
    IF ~config.active THEN NoPrice
    ELSE IF Stale \/ oracle.tripped THEN oracle.fallback
    ELSE IF Len(oracle.history) >= config.window
         THEN Twap(oracle.history, config.window)
    ELSE oracle.current

Jump(price) ==
    /\ oracle.current > 0
    /\ Deviation(oracle.current, price) > config.threshold

\* The price jumps: the breaker trips, if the caller lets the store stand
UpdatePriceJump(price) ==
    /\ Jump(price)
    /\ oracle' \in {oracle, [oracle EXCEPT !.tripped = TRUE, !.fallback = oracle.current]}
    /\ UNCHANGED <<config, volumeVars, rateVars, now>>

\* Mutation: each accepted price becomes the fallback
UpdatePriceFallback(price) ==
    /\ ~Jump(price)
    /\ oracle' = [oracle EXCEPT
            !.history = LastOf(Append(@, price), config.window),
            !.current = price, !.updated = now, !.fallback = price,
            !.tripped = @ /\ Deviation(oracle.fallback, price) > config.threshold \div 2]
    /\ UNCHANGED <<config, volumeVars, rateVars, now>>

\* It does not: the breaker clears near the fallback
UpdatePrice(price) ==
    /\ ~Jump(price)
    /\ oracle' = [oracle EXCEPT
            !.history = LastOf(Append(@, price), config.window),
            !.current = price, !.updated = now,
            !.tripped = @ /\ Deviation(oracle.fallback, price) > config.threshold \div 2]
    /\ UNCHANGED <<config, volumeVars, rateVars, now>>

\* update_config and set_oracle_active
Configure(threshold, window, active) ==
    /\ config' = [threshold |-> threshold, window |-> window, active |-> active]
    /\ UNCHANGED <<oracle, volumeVars, rateVars, now>>

ResetPriceBreaker ==
    /\ oracle' = [oracle EXCEPT !.tripped = FALSE]
    /\ UNCHANGED <<config, volumeVars, rateVars, now>>

-----------------------------------------------------------------------------
(* The volume breaker, behind the administrator's and the swap's calls.    *)

Cutoff == IF now >= VolumeWindow THEN now - VolumeWindow ELSE 0

InWindow(entries) ==
    LET kept[n \in 0..Len(entries)] ==
            IF n = 0 THEN <<>>
            ELSE IF entries[n][1] >= Cutoff THEN Append(kept[n - 1], entries[n])
            ELSE kept[n - 1]
    IN  kept[Len(entries)]

Total(entries) == SumFunction([i \in DOMAIN entries |-> entries[i][2]])

\* check_and_record_volume, which swap.rs calls while the breaker is not tripped
RecordVolume(amount) ==
    /\ ~tripped /\ Len(InWindow(volume)) < MaxEntries
    /\ LET entries == Append(InWindow(volume), <<now, amount>>)
           trips == ceiling > 0 /\ Total(entries) > ceiling
       IN  /\ volume' = entries
           /\ tripped' = trips
           /\ pausedFlag' = (pausedFlag \/ trips)
    /\ UNCHANGED <<oracleVars, ceiling, paused, rateVars, now>>

SetThreshold(max) ==
    /\ ceiling' = max
    /\ UNCHANGED <<oracleVars, volume, tripped, pausedFlag, paused, rateVars, now>>

ResetVolumeBreaker ==
    /\ volume' = <<>> /\ tripped' = FALSE /\ pausedFlag' = FALSE
    /\ UNCHANGED <<oracleVars, ceiling, paused, rateVars, now>>

\* pause_trading and resume_trading
SetPaused(flag) ==
    /\ paused' = flag
    /\ UNCHANGED <<oracleVars, ceiling, volume, tripped, pausedFlag, rateVars, now>>

-----------------------------------------------------------------------------
(* The counts per hour.                                                    *)

WindowStart(time) == (time \div Hour) * Hour

CacheValid == now < hourly.expires

\* hourly_cached: the window, and the boundary it leaves in the cache
HourlyCached ==
    IF CacheValid THEN hourly
    ELSE [start |-> WindowStart(now), expires |-> WindowStart(now) + Hour]

RateAllows(user) == swapsIn[user, HourlyCached.start] < SwapsPerHour

\* A batch with `executed` operations: one check before it, a count for each after
BatchSwaps(user, executed) ==
    /\ RateAllows(user) /\ ~paused
    /\ hourly' = HourlyCached
    /\ swapsIn' = [swapsIn EXCEPT ![<<user, HourlyCached.start>>] = @ + executed]
    /\ UNCHANGED <<oracleVars, volumeVars, now>>

\* Mutation: the current window goes too
CleanupCurrent(user) ==
    /\ swapsIn' = [swapsIn EXCEPT ![<<user, WindowStart(now)>>] = 0]
    /\ UNCHANGED <<oracleVars, volumeVars, hourly, now>>

\* cleanup_rate_limits: the counter of the window before this one
CleanupRateLimits(user) ==
    /\ WindowStart(now) >= Hour
    /\ swapsIn' = [swapsIn EXCEPT ![<<user, WindowStart(now) - Hour>>] = 0]
    /\ UNCHANGED <<oracleVars, volumeVars, hourly, now>>

Tick ==
    /\ now < MaxTime
    /\ now' = now + 1
    /\ UNCHANGED <<oracleVars, volumeVars, rateVars>>

OracleNext ==
    \/ \E price \in Prices : UpdatePriceJump(price) \/ UpdatePrice(price)
    \/ \E threshold \in Thresholds, window \in TwapWindows, active \in BOOLEAN :
        Configure(threshold, window, active)
    \/ ResetPriceBreaker

VolumeNext ==
    \/ \E amount \in Volumes : RecordVolume(amount)
    \/ \E max \in Ceilings : SetThreshold(max)
    \/ ResetVolumeBreaker
    \/ \E flag \in BOOLEAN : SetPaused(flag)

RateNext ==
    \E user \in Users :
        \/ \E executed \in 1..2 : BatchSwaps(user, executed)
        \/ CleanupRateLimits(user)

Next == OracleNext \/ VolumeNext \/ RateNext \/ Tick

Spec == Init /\ [][Next]_vars

-----------------------------------------------------------------------------
(* Properties of steps.                                                   *)

\* While the price breaker is tripped, what it serves does not follow the
\* prices it accepts meanwhile, however stale: only a further jump, itself
\* refused, moves it, to the last accepted price (update_price, get_price).
FrozenWhileTripped ==
    oracle.tripped /\ oracle'.tripped /\ config.active /\ config'.active
        => \/ GetPrice' = GetPrice
           \/ oracle'.current = oracle.current /\ GetPrice' = oracle.current

\* A trade that takes the volume of its window above the ceiling trips the
\* breaker in the same step; old trades no longer count (check_and_record_volume).
VolumeTripsInTime ==
    Len(volume') > 0 /\ volume' # volume /\ ceiling > 0
        => (tripped' <=> Total(InWindow(volume')) > ceiling)

\* Within an hour nobody's count falls, through the cached boundary, the
\* clean-up and other users' calls; and the cached boundary is that of the
\* hour it answers for (hourly_cached, cleanup_rate_limits).
HourCountKept ==
    /\ WindowStart(now') = WindowStart(now)
         => \A user \in Users :
                swapsIn'[user, WindowStart(now)] >= swapsIn[user, WindowStart(now)]
    /\ HourlyCached.start = WindowStart(now)
=============================================================================
