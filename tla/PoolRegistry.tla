---------------------------- MODULE PoolRegistry ----------------------------
(***************************************************************************)
(* The multi-token pool registry of the counter contract:                  *)
(* counter/src/liquidity_pool.rs behind the entry points of                *)
(* counter/src/lib.rs.  A pool of two tokens is seeded when it is          *)
(* registered, swaps keep its fee beside the reserves, providers hold      *)
(* shares of the reserves.                                                 *)
(*                                                                         *)
(* Tokens are numbers, which gives their symbols an order.  Amounts are    *)
(* those a caller may pass without overflow.  A pool is written once and   *)
(* never deleted, so the pools are a sequence indexed by their id.         *)
(***************************************************************************)
EXTENDS Integers, Sequences, Sums

CONSTANTS
    Tokens,         \* the symbols, as numbers
    Users,          \* the addresses
    Verified,       \* those whose KYC record lets them trade
    Admin,          \* the contract's administrator
    FeeTiers,       \* the fees a pool may have, in parts of FeeUnit
    FeeUnit,        \* the whole a fee is a part of (10000 basis points)
    MinLpTokens,    \* MIN_LP_TOKENS
    Seeds,          \* bound: how pools are registered
    Amounts,        \* bound: the amounts deposited, burnt and swapped
    HopLimits,      \* bound: the values set_max_hops gets
    MaxPools,       \* bound: pools
    MaxReserve,     \* bound: what a pool may hold of one token
    MaxFees         \* bound: the fees of one token a pool gathers

PoolAssumption ==
    /\ IsFiniteSet(Users) /\ Verified \subseteq Users /\ Admin \in Users
    /\ Tokens \subseteq Nat
    /\ FeeUnit \in Nat \ {0} /\ FeeTiers \subseteq 0..FeeUnit
    /\ MinLpTokens \in Nat /\ Amounts \subseteq Nat
    /\ Seeds \subseteq [tokens : Tokens \X Tokens, amounts : Nat \X Nat, tier : FeeTiers]
    /\ HopLimits \subseteq Nat
    /\ MaxPools \in Nat /\ MaxReserve \in Nat /\ MaxFees \in Nat

VARIABLES
    pools,          \* pools, with pair_to_pool and next_pool_id: a sequence
    lpBalances,     \* lp_balances, absent as 0
    maxHops,        \* max_hops
    treasury,       \* the treasury's address
    paused          \* PAUSED_KEY

vars == <<pools, lpBalances, maxHops, treasury, paused>>

Sides == {1, 2}

Pool == [tokens : Tokens \X Tokens, reserves : [Sides -> Nat], total : Nat,
         tier : FeeTiers, fees : [Sides -> Nat]]

TypeOK ==
    /\ pools \in Seq(Pool) /\ Len(pools) <= MaxPools
    /\ lpBalances \in [(1..MaxPools) \X Users -> Nat]
    /\ maxHops \in Nat /\ treasury \in Users /\ paused \in BOOLEAN

Init ==
    /\ pools = <<>>
    /\ lpBalances = [entry \in (1..MaxPools) \X Users |-> 0]
    /\ maxHops = 2
    /\ treasury = Admin
    /\ paused = FALSE

-----------------------------------------------------------------------------
(* Arithmetic.                                                             *)

Lesser(m, n) == IF m < n THEN m ELSE n

\* The integer square root, by Newton's iteration from above: z and x of the loop,
\* which ends when x is not below z, and so within y rounds
Sqrt(y) ==
    LET descend[n \in 0..y] ==
            IF n = 0 THEN [z |-> y, x |-> y \div 2 + 1]
            ELSE LET last == descend[n - 1]
                 IN  IF last.x < last.z
                     THEN [z |-> last.x, x |-> (y \div last.x + last.x) \div 2]
                     ELSE last
    IN  IF y < 4 THEN Lesser(y, 1) ELSE descend[y].z

\* What a deposit, a burn, a swap and a claim change of a pool
Changed(pool, reserves, total, fees) ==
    [tokens |-> pool.tokens, reserves |-> reserves, total |-> total, tier |-> pool.tier,
     fees |-> fees]

\* The position of a token in a pool, and the other position
Side(pool, token) == CHOOSE s \in Sides : pool.tokens[s] = token
Across(s) == 3 - s

Normalize(token, other) == IF token < other THEN <<token, other>> ELSE <<other, token>>

PoolOf(pair) == {i \in DOMAIN pools : pools[i].tokens = pair}

\* What comes out of the reserves of a pool when `net` goes in on side s
CurveOut(pool, s, net) ==
    (pool.reserves[Across(s)] * net) \div (pool.reserves[s] + net)

Fee(pool, amount) == (amount * pool.tier) \div FeeUnit

\* Mutation: the quote forgets the fee
CalculateOutputGross(pool, s, amount) == CurveOut(pool, s, amount)

\* What a swap pays, and what a quote promises: their fees round apart
SwapOut(pool, s, amount) == CurveOut(pool, s, amount - Fee(pool, amount))
CalculateOutput(pool, s, amount) ==
    CurveOut(pool, s, (amount * (FeeUnit - pool.tier)) \div FeeUnit)

\* The pool after a swap: what comes in stays, the fee beside the reserves
Swapped(pool, s, amount) ==
    Changed(pool,
            [r \in Sides |-> IF r = s THEN pool.reserves[r] + amount - Fee(pool, amount)
                             ELSE pool.reserves[r] - SwapOut(pool, s, amount)],
            pool.total,
            [r \in Sides |-> IF r = s THEN pool.fees[r] + Fee(pool, amount) ELSE pool.fees[r]])

\* The shares of the seed, which no balance counts
SeedShares(amounts) == Sqrt(amounts[1] * amounts[2])

\* The shares a deposit earns: of its weaker side
DepositShares(pool, amounts) ==
    IF pool.total = 0 THEN SeedShares(amounts)
    ELSE LET part(s) == (amounts[s] * pool.total) \div pool.reserves[s]
         IN  Lesser(part(1), part(2))

\* What a burn of shares takes from one side
Withdrawal(pool, s, shares) == (shares * pool.reserves[s]) \div pool.total

\* The fees a provider's claim leaves: it takes whole multiples of the pool's only
FeesLeft(i, user) ==
    [s \in Sides |->
        pools[i].fees[s]
            - pools[i].fees[s] * (lpBalances[<<i, user>>] \div pools[i].total)]

-----------------------------------------------------------------------------
(* Operations.                                                             *)

\* Anybody registers a pair, once
RegisterPool(seed) ==
    LET pair == Normalize(seed.tokens[1], seed.tokens[2])
    IN  /\ Len(pools) < MaxPools
        /\ pair[1] # pair[2] /\ \A s \in Sides : seed.amounts[s] > 0
        /\ PoolOf(pair) = {}
        /\ pools' = Append(pools,
                [tokens |-> pair,
                 reserves |-> [s \in Sides |->
                    IF pair = seed.tokens THEN seed.amounts[s] ELSE seed.amounts[Across(s)]],
                 total |-> SeedShares(seed.amounts),
                 tier |-> seed.tier, fees |-> [s \in Sides |-> 0]])
        /\ UNCHANGED <<lpBalances, maxHops, treasury, paused>>

AddLiquidity(i, amounts, user) ==
    /\ ~paused /\ user \in Verified
    /\ \A s \in Sides :
        /\ amounts[s] > 0 /\ pools[i].reserves[s] > 0
        /\ pools[i].reserves[s] + amounts[s] <= MaxReserve
    /\ LET pool   == pools[i]
           shares == DepositShares(pool, amounts)
       IN  /\ shares > 0 /\ shares >= MinLpTokens
           /\ pools' = [pools EXCEPT ![i] =
                Changed(pool, [s \in Sides |-> pool.reserves[s] + amounts[s]],
                        pool.total + shares, pool.fees)]
           /\ lpBalances' = [lpBalances EXCEPT ![<<i, user>>] = @ + shares]
    /\ UNCHANGED <<maxHops, treasury, paused>>

ClaimFees(i, user) ==
    /\ lpBalances[<<i, user>>] > 0
    /\ LET pool == pools[i]
       IN  pools' = [pools EXCEPT ![i] =
               Changed(pool, pool.reserves, pool.total, FeesLeft(i, user))]
    /\ UNCHANGED <<lpBalances, maxHops, treasury, paused>>

\* The fees are claimed first; nothing says the burn is positive
RemoveLiquidity(i, shares, user) ==
    /\ ~paused /\ user \in Verified
    /\ lpBalances[<<i, user>>] > 0 /\ lpBalances[<<i, user>>] >= shares
    /\ LET pool == pools[i]
       IN  pools' = [pools EXCEPT ![i] =
               Changed(pool, [s \in Sides |-> pool.reserves[s] - Withdrawal(pool, s, shares)],
                       pool.total - shares, FeesLeft(i, user))]
    /\ lpBalances' = [lpBalances EXCEPT ![<<i, user>>] = @ - shares]
    /\ UNCHANGED <<maxHops, treasury, paused>>

Swap(i, token, amount, minOut, user) ==
    /\ ~paused /\ user \in Verified
    /\ amount > 0 /\ token \in {pools[i].tokens[s] : s \in Sides}
    /\ LET pool == pools[i]
           s    == Side(pool, token)
       IN  /\ SwapOut(pool, s, amount) >= minOut
           /\ Swapped(pool, s, amount).reserves[s] <= MaxReserve
           /\ Swapped(pool, s, amount).fees[s] <= MaxFees
           /\ pools' = [pools EXCEPT ![i] = Swapped(pool, s, amount)]
    /\ UNCHANGED <<lpBalances, maxHops, treasury, paused>>

UpdateFeeTier(i, tier, caller) ==
    /\ caller = Admin
    /\ pools' = [pools EXCEPT ![i].tier = tier]
    /\ UNCHANGED <<lpBalances, maxHops, treasury, paused>>

WithdrawTreasuryFees(i, caller) ==
    /\ caller = treasury
    /\ LET pool == pools[i]
       IN  pools' = [pools EXCEPT ![i] =
               Changed(pool, pool.reserves, pool.total, [s \in Sides |-> 0])]
    /\ UNCHANGED <<lpBalances, maxHops, treasury, paused>>

SetTreasury(caller, user) ==
    /\ caller = Admin
    /\ treasury' = user
    /\ UNCHANGED <<pools, lpBalances, maxHops, paused>>

SetMaxHops(caller, hops) ==
    /\ caller = Admin
    /\ maxHops' = hops
    /\ UNCHANGED <<pools, lpBalances, treasury, paused>>

\* pause_trading and resume_trading
SetPaused(caller, flag) ==
    /\ caller = Admin
    /\ paused' = flag
    /\ UNCHANGED <<pools, lpBalances, maxHops, treasury>>

Next ==
    \/ \E seed \in Seeds : RegisterPool(seed)
    \/ \E i \in DOMAIN pools, user \in Users :
        \/ \E amounts \in Amounts \X Amounts : AddLiquidity(i, amounts, user)
        \/ ClaimFees(i, user)
        \/ \E shares \in Amounts \union {0} : RemoveLiquidity(i, shares, user)
        \/ \E token \in Tokens, amount \in Amounts : Swap(i, token, amount, 0, user)
        \/ \E tier \in FeeTiers : UpdateFeeTier(i, tier, user)
        \/ WithdrawTreasuryFees(i, user)
    \/ \E caller, user \in Users : SetTreasury(caller, user)
    \/ \E caller \in Users : \E hops \in HopLimits : SetMaxHops(caller, hops)
    \/ \E caller \in Users : \E flag \in BOOLEAN : SetPaused(caller, flag)

Spec == Init /\ [][Next]_vars

-----------------------------------------------------------------------------
(* Routes.                                                                 *)

\* A route is the pools and the sides the amount enters them by
QuoteOf(route, amount) ==
    IF Len(route) = 1
    THEN CalculateOutput(pools[route[1][1]], route[1][2], amount)
    ELSE CalculateOutput(pools[route[2][1]], route[2][2],
            CalculateOutput(pools[route[1][1]], route[1][2], amount))

\* Two pools in a row, by way of a third token
Detours(tokenIn, tokenOut) ==
    {route \in {<<<<i, s>>, <<j, t>>>> : i \in DOMAIN pools, j \in DOMAIN pools,
                                         s \in Sides, t \in Sides} :
        LET first  == pools[route[1][1]].tokens
            second == pools[route[2][1]].tokens
            middle == first[Across(route[1][2])]
        IN  /\ first[route[1][2]] = tokenIn /\ middle # tokenOut
            /\ second[route[2][2]] = middle
            /\ second[Across(route[2][2])] = tokenOut}

\* The direct pool if there is one, else the first of the best detours
FindBestRoute(tokenIn, tokenOut, amount) ==
    LET direct  == PoolOf(Normalize(tokenIn, tokenOut))
        detours == {r \in Detours(tokenIn, tokenOut) : QuoteOf(r, amount) > 0}
        best    == {r \in detours : \A other \in detours :
                        QuoteOf(r, amount) >= QuoteOf(other, amount)}
    IN  IF direct # {}
        THEN LET i == CHOOSE i \in direct : TRUE
             IN  <<<<i, Side(pools[i], tokenIn)>>>>
        ELSE IF best = {} THEN <<>>
        ELSE CHOOSE r \in best : \A other \in best : r[1][1] <= other[1][1]

\* What the swaps along a route pay, one after the other
PaidAlong(route, amount) ==
    LET i == route[1][1]
        s == route[1][2]
        out == SwapOut(pools[i], s, amount)
    IN  IF Len(route) = 1 THEN out
        ELSE LET j == route[2][1]
             IN  SwapOut(IF j = i THEN Swapped(pools[i], s, amount) ELSE pools[j],
                         route[2][2], out)

-----------------------------------------------------------------------------
(* Properties; SharesKeepTheirWorth is about steps.                       *)

\* Whatever providers and traders do and however the divisions round, the
\* reserves behind one share never shrink: their product grows at least as
\* fast as the square of the shares (swap, add_liquidity, remove_liquidity).
SharesKeepTheirWorth ==
    \A i \in DOMAIN pools :
        LET now == pools[i]  then == pools'[i]
        IN  then.reserves[1] * then.reserves[2] * now.total * now.total
              >= now.reserves[1] * now.reserves[2] * then.total * then.total

\* The shares of a pool's seed belong to nobody and stay: providers never
\* hold all shares, so no burn can empty a pool (register_pool counts the
\* seed in total_lp_tokens, remove_liquidity burns no more than a balance).
SeedStays ==
    \A i \in DOMAIN pools :
        LET held == SetTotal([user \in Users |-> lpBalances[<<i, user>>]], Users)
        IN  held < pools[i].total /\ \A s \in Sides : pools[i].reserves[s] > 0

\* A quote is kept: the swaps along the route find_best_route returns pay
\* at least its expected_output, though the two round the fee differently
\* and a route from a token to itself goes twice through one pool.
QuoteKept ==
    \A tokenIn, tokenOut \in Tokens, amount \in Amounts \ {0} :
        LET route == FindBestRoute(tokenIn, tokenOut, amount)
        IN  route # <<>> => PaidAlong(route, amount) >= QuoteOf(route, amount)
=============================================================================
