--------------------------- MODULE CounterTrading ---------------------------
(***************************************************************************)
(* The portfolio of the counter contract and the entry points that trade   *)
(* with it: counter/portfolio.rs, trading.rs, batch.rs and tiers.rs under  *)
(* counter/src/lib.rs, with faucet.rs.  Every user's balances, the reserves *)
(* of the one pool and its tokens are numbers of one stored record; three  *)
(* query caches stand beside it.                                           *)
(*                                                                         *)
(* The stand-in for the emergency module never refuses.  The oracle's      *)
(* price is given (SwapGuards models how it moves), and the rate limits    *)
(* and risk limits, which only refuse, always let a call pass.  Badges,    *)
(* counters of metrics and totals that only queries show are left out.     *)
(***************************************************************************)
EXTENDS Integers, Sequences, Sums, TLC

CONSTANTS
    Users,
    Verified,       \* the users with a verified KYC record
    Price,          \* the oracle's price for swapping out of an asset; 0: not set
    Precision,      \* PRECISION of prices
    PoolFee, FeeUnit,       \* LP_FEE_BPS of 10000
    TierFee,        \* get_effective_fee_bps of the two tiers modelled, of FeeUnit
    TierTrades, TierVolume, \* what makes a Novice a Trader
    Tolerance,      \* the tolerance of the minimum rate, of FeeUnit
    MaxSlip,        \* MAX_SLIP, of FeeUnit
    Drip, Cooldown, \* FaucetConfig
    Ttl,            \* the time a cached answer lives
    Tops,           \* the length of top_traders (100)
    Amounts,        \* bound: the amounts of calls
    MaxBalance, MaxReserve, MaxTrades, MaxPnl, MaxBatch, MaxTime    \* bounds

XLM == 1
USDCSIM == 2
Assets == {XLM, USDCSIM}
Other(x) == 3 - x

TradingAssumption ==
    /\ IsFiniteSet(Users) /\ Verified \subseteq Users /\ Price \in [Assets -> Nat]
    /\ Precision \in Nat \ {0} /\ FeeUnit \in Nat \ {0} /\ PoolFee \in 0..FeeUnit
    /\ TierFee \in [1..2 -> 0..FeeUnit] /\ Amounts \subseteq Nat

VARIABLES
    book,       \* the Portfolio that is stored
    cache,      \* PORTFOLIO_CACHE, PNL_CACHE, TOP_TRADERS_CACHE; absent as <<>>
    dripped,    \* LastClaim of the faucet, absent as 0
    claimed,    \* history: a faucet has paid since the caches were last cleared
    paused, now

vars == <<book, cache, dripped, claimed, paused, now>>

LPPosition == [xlm : Nat, usdc : Nat, tokens : Nat]

Portfolio == [balances : [Users -> [Assets -> Nat]], pool : [Assets -> Nat], supply : Nat,
              positions : [Users -> LPPosition], trades : [Users -> Nat], pnl : [Users -> Int],
              basis : [Users -> [Assets -> Nat]], realized : [Users -> Int],
              tops : Seq(Users \X Int)]

TypeOK ==
    /\ book \in Portfolio /\ dripped \in [Users -> 0..MaxTime]
    /\ claimed \in BOOLEAN /\ paused \in BOOLEAN /\ now \in 1..MaxTime

NoCache == [portfolios |-> [u \in Users |-> <<>>], pnls |-> [u \in Users |-> <<>>], tops |-> <<>>]

Init ==
    /\ book = [balances |-> [u \in Users |-> [x \in Assets |-> 0]],
               pool |-> [x \in Assets |-> 0], supply |-> 0,
               positions |-> [u \in Users |-> [xlm |-> 0, usdc |-> 0, tokens |-> 0]],
               trades |-> [u \in Users |-> 0], pnl |-> [u \in Users |-> 0],
               basis |-> [u \in Users |-> [x \in Assets |-> 0]],
               realized |-> [u \in Users |-> 0], tops |-> <<>>]
    /\ cache = NoCache /\ dripped = [u \in Users |-> 0]
    /\ claimed = FALSE /\ paused = FALSE /\ now = 1

-----------------------------------------------------------------------------
(* What the methods of Portfolio return.  A failed assertion of debit ends  *)
(* the whole call: callers ask Holds first.                                 *)

Minus(x, y) == IF x > y THEN x - y ELSE 0

Holds(s, user, x, amount) == amount > 0 /\ s.balances[user][x] >= amount

Debit(s, user, x, amount) ==
    [s EXCEPT !.balances[user][x] = @ - amount, !.pnl[user] = @ - amount]

Credit(s, user, x, amount) == [s EXCEPT !.balances[user][x] = @ + amount]

\* The list has each user once; a full list gives its last place to a better one
UpdateTopTraders(s, user) ==
    LET entry == <<user, s.pnl[user]>>
        isUser(top) == top[1] = user
        list  == IF \E i \in DOMAIN s.tops : isUser(s.tops[i])
                 THEN [i \in DOMAIN s.tops |-> IF isUser(s.tops[i]) THEN entry ELSE s.tops[i]]
                 ELSE IF Len(s.tops) < Tops THEN Append(s.tops, entry)
                 ELSE IF s.pnl[user] > s.tops[Tops][2] THEN [s.tops EXCEPT ![Tops] = entry]
                 ELSE s.tops
    IN  [s EXCEPT !.tops = SortSeq(list, LAMBDA p, q : p[2] > q[2])]

Mint(s, user, x, amount) ==
    UpdateTopTraders([s EXCEPT !.balances[user][x] = @ + amount, !.pnl[user] = @ + amount], user)

RecordTrade(s, user) == [s EXCEPT !.trades[user] = @ + 1]

\* get_user_tier: the volume is the user's pnl
Tier(s, user) ==
    IF s.trades[user] >= TierTrades \/ s.pnl[user] >= TierVolume THEN 2 ELSE 1

XlmValue(x, amount) == IF x = XLM THEN amount ELSE (amount * Price[x]) \div Precision

-----------------------------------------------------------------------------
(* perform_swap.                                                           *)

Pooled(s) == s.pool[XLM] > 0 /\ s.pool[USDCSIM] > 0

\* get_validated_price: the inverse when the pair has no price of its own
ValidatedPrice(x) ==
    IF Price[x] # 0 THEN Price[x]
    ELSE IF Price[Other(x)] # 0 THEN (Precision * Precision) \div Price[Other(x)] ELSE 0

\* The least output: without a price it is one whole unit of precision
MinimumOutput(x, amount) ==
    IF ValidatedPrice(x) = 0 THEN Precision
    ELSE (((amount * ValidatedPrice(x)) \div Precision) * (FeeUnit - Tolerance)) \div FeeUnit

Fee(amount) == (amount * PoolFee) \div FeeUnit

Output(s, x, amount) ==
    LET paid == (amount * (FeeUnit - PoolFee)) \div FeeUnit
    IN  IF Pooled(s) THEN (s.pool[Other(x)] * paid) \div (s.pool[x] + paid)
        ELSE (amount * ValidatedPrice(x)) \div Precision

Theoretical(s, x, amount) ==
    IF Pooled(s) THEN (s.pool[Other(x)] * amount) \div (s.pool[x] + amount) ELSE amount

WithinSlippage(s, x, amount) ==
    LET out == Output(s, x, amount)
        ideal == Theoretical(s, x, amount)
    IN  /\ out > 0 /\ out >= MinimumOutput(x, amount)
        /\ ideal > 0 => ideal >= out /\ ((ideal - out) * FeeUnit) \div ideal <= MaxSlip

MaySwap(s, user, x, amount) == amount > 0 /\ WithinSlippage(s, x, amount)

\* transfer_asset moves the amount across one to one, and then it is debited
\* once more and the output credited
CoversSwap(s, user, x, amount) == s.balances[user][x] >= 2 * amount

\* Mutation: the pool rounds what it pays up
SwappedUp(s, user, x, amount) ==
    LET out  == Output(s, x, amount) + 1
        paid == Credit(Debit(Debit(s, user, x, amount), user, x, amount),
                       user, Other(x), amount + out)
    IN  IF Pooled(s)
        THEN [paid EXCEPT !.pool[x] = @ + amount - Fee(amount), !.pool[Other(x)] = Minus(@, out)]
        ELSE paid

Swapped(s, user, x, amount) ==
    LET out  == Output(s, x, amount)
        paid == Credit(Debit(Debit(s, user, x, amount), user, x, amount),
                       user, Other(x), amount + out)
    IN  IF Pooled(s)
        THEN [paid EXCEPT !.pool[x] = @ + amount - Fee(amount), !.pool[Other(x)] = Minus(@, out)]
        ELSE paid

-----------------------------------------------------------------------------
(* The entry points.                                                       *)

Bounded(s) ==
    /\ \A u \in Users : /\ s.trades[u] <= MaxTrades
                        /\ -MaxPnl <= s.pnl[u] /\ s.pnl[u] <= MaxPnl
                        /\ \A x \in Assets : s.balances[u][x] <= MaxBalance
                        /\ s.realized[u] <= MaxPnl /\ s.realized[u] >= -MaxPnl
                        /\ \A x \in Assets : s.basis[u][x] <= MaxPnl
    /\ \A x \in Assets : s.pool[x] <= MaxReserve

\* The portfolio is stored and invalidate_query_cache called
Stored(s) ==
    /\ Bounded(s)
    /\ book' = s /\ cache' = NoCache /\ claimed' = FALSE
    /\ UNCHANGED <<dripped, paused, now>>

MayTrade(user) == ~paused /\ user \in Verified

MintToken(user, x, amount) == Stored(Mint(book, user, x, amount))

\* lib.rs swap: the fee of the tier is taken from the user first
SwapTokens(user, x, amount) ==
    /\ MayTrade(user) /\ ValidatedPrice(x) > 0
    /\ LET fee  == (amount * TierFee[Tier(book, user)]) \div FeeUnit
           left == IF fee > 0 THEN Debit(book, user, x, fee) ELSE book
       IN  /\ book.balances[user][x] >= fee
           /\ MaySwap(left, user, x, amount - fee)
           /\ CoversSwap(left, user, x, amount - fee)
           /\ Stored(RecordTrade(Swapped(left, user, x, amount - fee), user))

\* safe_swap: a swap that is refused counts as a trade all the same; one that
\* the balance does not cover ends the call
SafeSwap(user, x, amount) ==
    /\ MayTrade(user) /\ amount > 0
    /\ IF MaySwap(book, user, x, amount)
       THEN /\ CoversSwap(book, user, x, amount)
            /\ Stored(RecordTrade(Swapped(book, user, x, amount), user))
       ELSE Stored(RecordTrade(book, user))

\* Newton's iteration from the product down.  One below a square it alternates
\* between two values and stops at a hundred steps, in either of them.
Root(product) ==
    LET iterate[n \in 0..100] ==
            IF n = 0 THEN [last |-> 0, guess |-> product]
            ELSE LET before == iterate[n - 1]
                 IN  IF before.guess = before.last THEN before
                     ELSE [last |-> before.guess,
                           guess |-> (before.guess + product \div before.guess) \div 2]
    IN  iterate[100].guess

Lesser(m, n) == IF m < n THEN m ELSE n

\* The first tokens are the root of the product; later ones the lesser of the
\* two shares
LpTokens(s, xlm, usdc) ==
    IF s.supply = 0 THEN Root(xlm * usdc)
    ELSE LET share(amount, x) ==
                IF s.pool[x] > 0 THEN (amount * s.supply) \div s.pool[x] ELSE 0
         IN  Lesser(share(xlm, XLM), share(usdc, USDCSIM))

AddLiquidity(user, xlm, usdc) ==
    /\ MayTrade(user)
    /\ Holds(book, user, XLM, xlm) /\ Holds(book, user, USDCSIM, usdc)
    /\ LpTokens(book, xlm, usdc) > 0
    /\ LET paid == Debit(Debit(book, user, XLM, xlm), user, USDCSIM, usdc)
           minted == LpTokens(book, xlm, usdc)
       IN  Stored([paid EXCEPT
                !.pool[XLM] = @ + xlm, !.pool[USDCSIM] = @ + usdc, !.supply = @ + minted,
                !.positions[user] = [xlm |-> @.xlm + xlm, usdc |-> @.usdc + usdc,
                                     tokens |-> @.tokens + minted]])

\* A payout may not pass 101 hundredths of the position's own deposits
RemoveLiquidity(user, tokens) ==
    LET pos  == book.positions[user]
        xlm  == (tokens * book.pool[XLM]) \div book.supply
        usdc == (tokens * book.pool[USDCSIM]) \div book.supply
    IN  /\ MayTrade(user)
        /\ tokens > 0 /\ tokens <= pos.tokens /\ book.supply > 0
        /\ xlm > 0 /\ usdc > 0
        /\ xlm <= (pos.xlm * 101) \div 100 /\ usdc <= (pos.usdc * 101) \div 100
        /\ Stored(Mint(Mint([book EXCEPT
                !.pool[XLM] = @ - xlm, !.pool[USDCSIM] = @ - usdc, !.supply = Minus(@, tokens),
                !.positions[user] = [xlm |-> Minus(@.xlm, xlm), usdc |-> Minus(@.usdc, usdc),
                                     tokens |-> @.tokens - tokens]],
                user, XLM, xlm), user, USDCSIM, usdc))

\* Mutation: the caches outlive a trade that is only recorded
RecordPnlTradeCached(user, x, in, out) ==
    /\ Holds(book, user, x, in) /\ out > 0
    /\ XlmValue(x, in) > 0 /\ XlmValue(Other(x), out) > 0
    /\ Bounded(RecordTrade(book, user))
    /\ book' = RecordTrade(book, user)
    /\ UNCHANGED <<cache, dripped, claimed, paused, now>>

\* record_pnl_trade: the caller says what was paid and received, and the cost
\* basis of what is paid is released in proportion
RecordPnlTrade(user, x, in, out) ==
    /\ Holds(book, user, x, in) /\ out > 0
    /\ XlmValue(x, in) > 0 /\ XlmValue(Other(x), out) > 0
    /\ LET held == book.balances[user][x]
           cost == book.basis[user][x]
           released == (cost * in) \div held
           gone == IF cost = 0 THEN book
                   ELSE [book EXCEPT !.basis[user][x] = @ - released,
                                     !.realized[user] = @ + XlmValue(Other(x), out) - released]
           paid == Credit(Debit(gone, user, x, in), user, Other(x), out)
       IN  Stored(RecordTrade([paid EXCEPT !.basis[user][Other(x)] = @ + XlmValue(x, in)], user))

\* The faucet stores the portfolio and leaves the caches alone
ClaimFaucet(user, x) ==
    /\ dripped[user] > 0 => now - dripped[user] >= Cooldown
    /\ dripped' = [dripped EXCEPT ![user] = now]
    /\ Bounded(Mint(book, user, x, Drip))
    /\ book' = Mint(book, user, x, Drip)
    /\ claimed' = TRUE
    /\ UNCHANGED <<cache, paused, now>>

-----------------------------------------------------------------------------
(* Batches.  An operation ends well, with an error, or with a failed        *)
(* assertion that ends the call.                                            *)

Operations ==
    [kind : {"Swap"}, user : Users, x : Assets, amount : Amounts]
        \union [kind : {"AddLiquidity", "RemoveLiquidity", "Mint"}, user : Users,
                x : {XLM}, amount : Amounts]

\* AddLiquidity debits nothing; RemoveLiquidity takes nothing from the pool
Performed(s, op) ==
    CASE op.kind = "Swap" ->
            IF s.balances[op.user][op.x] < op.amount \/ ~MaySwap(s, op.user, op.x, op.amount)
            THEN [end |-> "error", s |-> s]
            ELSE IF ~CoversSwap(s, op.user, op.x, op.amount) THEN [end |-> "panic", s |-> s]
            ELSE [end |-> "ok",
                  s |-> RecordTrade(Swapped(s, op.user, op.x, op.amount), op.user)]
      [] op.kind = "AddLiquidity" ->
            IF \E x \in Assets : s.balances[op.user][x] < op.amount
            THEN [end |-> "error", s |-> s]
            ELSE [end |-> "ok", s |-> [s EXCEPT !.pool = [x \in Assets |-> @[x] + op.amount]]]
      [] op.kind = "RemoveLiquidity" ->
            [end |-> "ok", s |-> Mint(Mint(s, op.user, XLM, op.amount),
                                      op.user, USDCSIM, op.amount)]
      [] OTHER -> [end |-> "ok", s |-> Mint(s, op.user, op.x, op.amount)]

Run(ops) ==
    LET run[n \in 0..Len(ops)] ==
            IF n = 0 THEN [end |-> "ok", s |-> book]
            ELSE LET before == run[n - 1]
                     done == Performed(before.s, ops[n])
                 IN  IF before.end = "panic" THEN before
                     ELSE [end |-> IF done.end = "ok" THEN before.end ELSE done.end,
                           s |-> done.s]
    IN  run[Len(ops)]

MayBatch(ops) ==
    /\ ~paused /\ ops # <<>> /\ Len(ops) <= MaxBatch
    /\ \A i \in DOMAIN ops : ops[i].amount > 0 /\ (ops[i].kind = "Mint" \/ ops[i].user \in Verified)

ExecuteBatchAtomic(ops) ==
    /\ MayBatch(ops) /\ Run(ops).end = "ok"
    /\ Stored(Run(ops).s)

ExecuteBatchBestEffort(ops) ==
    /\ MayBatch(ops) /\ Run(ops).end # "panic"
    /\ Stored(Run(ops).s)

-----------------------------------------------------------------------------
(* Queries that fill the caches.                                           *)

PnlSummary(s, user) ==
    LET priced(x) == s.basis[user][x] > 0 /\ s.balances[user][x] > 0
        value(x) == IF priced(x) THEN XlmValue(x, s.balances[user][x]) ELSE 0
        gain(x) == IF priced(x) THEN value(x) - s.basis[user][x] ELSE 0
    IN  <<s.realized[user], gain(XLM) + gain(USDCSIM), value(XLM) + value(USDCSIM)>>

Fresh(entry) == entry # <<>> /\ now - entry[2] <= Ttl

Filled(entry, answer) == IF Fresh(entry) THEN entry ELSE <<answer, now>>

GetPortfolio(user) ==
    /\ cache' = [cache EXCEPT !.portfolios[user] =
                    Filled(@, <<book.trades[user], book.pnl[user]>>)]
    /\ UNCHANGED <<book, dripped, claimed, paused, now>>

GetPortfolioPnl(user) ==
    /\ cache' = [cache EXCEPT !.pnls[user] = Filled(@, PnlSummary(book, user))]
    /\ UNCHANGED <<book, dripped, claimed, paused, now>>

GetTopTraders ==
    /\ cache' = [cache EXCEPT !.tops = Filled(@, book.tops)]
    /\ UNCHANGED <<book, dripped, claimed, paused, now>>

SetPaused(flag) ==
    /\ paused' = flag
    /\ UNCHANGED <<book, cache, dripped, claimed, now>>

Tick ==
    /\ now < MaxTime
    /\ now' = now + 1
    /\ UNCHANGED <<book, cache, dripped, claimed, paused>>

Next ==
    \/ \E user \in Users, amount \in Amounts, x \in Assets :
        \/ MintToken(user, x, amount)
        \/ SwapTokens(user, x, amount)
        \/ SafeSwap(user, x, amount)
        \/ \E out \in Amounts : RecordPnlTrade(user, x, amount, out)
    \/ \E user \in Users, amount \in Amounts :
        \/ \E usdc \in Amounts : AddLiquidity(user, amount, usdc)
        \/ RemoveLiquidity(user, amount)
    \/ \E user \in Users, x \in Assets : ClaimFaucet(user, x)
    \/ \E n \in 1..MaxBatch : \E ops \in [1..n -> Operations] :
        ExecuteBatchAtomic(ops) \/ ExecuteBatchBestEffort(ops)
    \/ \E user \in Users : GetPortfolio(user) \/ GetPortfolioPnl(user)
    \/ GetTopTraders
    \/ \E flag \in BOOLEAN : SetPaused(flag)
    \/ Tick

Spec == Init /\ [][Next]_vars

-----------------------------------------------------------------------------
(* Properties; LpWorthNeverFalls is about steps.                          *)

\* Through swaps, deposits, withdrawals and batches a token of the pool never
\* loses worth: the product of the reserves per squared token does not fall
\* (every quotient is rounded against the caller and the fee stays).
LpWorthNeverFalls ==
    book.supply > 0 /\ book'.supply > 0 =>
        book'.pool[XLM] * book'.pool[USDCSIM] * book.supply * book.supply
            >= book.pool[XLM] * book.pool[USDCSIM] * book'.supply * book'.supply

\* A cached answer that is still served is what the portfolio would answer
\* now, unless a faucet has paid since: every other entry point that stores
\* the portfolio clears the caches (invalidate_query_cache).
StaleOnlyByFaucet ==
    ~claimed =>
        /\ \A u \in Users :
            /\ cache.portfolios[u] # <<>> =>
                    cache.portfolios[u][1] = <<book.trades[u], book.pnl[u]>>
            /\ cache.pnls[u] # <<>> => cache.pnls[u][1] = PnlSummary(book, u)
        /\ cache.tops # <<>> => cache.tops[1] = book.tops
=============================================================================
