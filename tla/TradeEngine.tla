---------------------------- MODULE TradeEngine -----------------------------
(***************************************************************************)
(* The trade-engine contract: limit and market orders escrowed in the      *)
(* account of the contract and listed in price-time priority, trades of    *)
(* several legs that match against the lists and fall back to a constant-  *)
(* product pool, all or nothing, and the cancellation of what is unfilled. *)
(* Every call is one transaction: an error undoes all of it, so an action  *)
(* is a call that succeeds.  An order keeps its id as its index.           *)
(***************************************************************************)
EXTENDS AssetLedger, SequencesExt

CONSTANTS Pairs,        \* the <<base, quote>> pairs orders are placed on
          Prices,       \* prices, scaled by Precision
          Amounts,      \* amounts of base in an order
          Expiries,     \* expiry times of orders, 0 for none
          OrderTypes,   \* Limit, Market, ImmediateOrCancel, FillOrKill
          Trades,       \* the sequences of legs traders ask for
          PoolOffers,   \* [a, b, reserveA, reserveB, fee]: the pools an admin adds
          Precision,    \* PRICE_PRECISION
          FeeUnit,      \* basis points in the whole: 10_000
          MaxU128, MaxI128,
          InitBalance, Trust,
          MaxTime, MaxOrders, MaxPools

Sides == {"Buy", "Sell"}
NoAdmin == Contract

\* The arguments of the calls, with the signs their types leave open
TradeLeg == [base : Assets, quote : Assets, side : Sides, amount : Int, limit : Nat, minOutput : Int]

ASSUME ScaleAssumption ==
  Precision \in Nat \ {0} /\ FeeUnit \in Nat /\ MaxU128 \in Nat /\ MaxI128 \in Nat

ASSUME InputAssumption ==
  /\ Pairs \subseteq Assets \X Assets
  /\ Prices \subseteq Nat /\ Amounts \subseteq Int /\ Expiries \subseteq Nat
  /\ Trades \subseteq Seq(TradeLeg)
  /\ PoolOffers \subseteq [a : Assets, b : Assets, reserveA : Int, reserveB : Int, fee : Nat]
  /\ InitBalance \in [Assets -> [Accounts -> Nat]]
  /\ MaxTime \in Nat

VARIABLES orders,     \* Order(id)
          book,       \* OrderBook(pair): side -> ids, by the unordered pair
          pools,      \* LiquidityPool(id)
          pairPool,   \* PairPool(a, b): id, 0 when absent
          admin,      \* Admin, NoAdmin before initialize
          balance,    \* the tokens
          now         \* ledger time

vars == <<orders, book, pools, pairPool, admin, balance, now>>

AssetPairs == {ab \in Assets \X Assets : ab[1] # ab[2]}
\* get_pair_key
PairKey(a, b) == {a, b}
PairKeys == {PairKey(ab[1], ab[2]) : ab \in AssetPairs}

Least(a, b) == IF a <= b THEN a ELSE b

\* amount.saturating_mul(price) / PRICE_PRECISION
QuoteOf(amount, price) == Least(amount * price, MaxU128) \div Precision

\* The price of `base` for `quote`: (quote * PRICE_PRECISION) / base
PriceOf(quote, base) == Least(quote * Precision, MaxU128) \div base

-----------------------------------------------------------------------------
(* Tokens.  transfer_token skips an amount that is not positive. *)

CanMove(bal, asset, from, to, amount) ==
  amount <= 0 \/ TransferOk(bal, Trust, asset, from, to, amount)

Move(bal, asset, from, to, amount) ==
  IF amount <= 0 THEN bal ELSE Transfer(bal, asset, from, to, amount)

-----------------------------------------------------------------------------
(* Orders and their lists. *)

Open(order) == order.status \in {"Pending", "PartiallyFilled"}
Live(order) == Open(order) /\ (order.expiresAt = 0 \/ order.expiresAt > now)

\* Mutations: the whole amount; nothing.
UnfilledWhole(order) == order.amount
UnfilledNone(order) == 0

Unfilled(order) == order.amount - order.filled

\* What an order locked for `amount` of its base, and in which asset
LockedAsset(order) == IF order.side = "Sell" THEN order.base ELSE order.quote
Locked(order, amount) == IF order.side = "Sell" THEN amount ELSE QuoteOf(amount, order.price)

BetterPrice(side, p, q) == IF side = "Buy" THEN p > q ELSE p < q

\* Mutation: a new order queues up at the end.
EnlistLast(list, id, order) == Append(list, id)

\* add_order: in front of the first listed order with a worse price
Enlist(list, id, order) ==
  LET worse == {k \in DOMAIN list : BetterPrice(order.side, order.price, orders[list[k]].price)}
  IN IF worse = {} THEN Append(list, id)
     ELSE InsertAt(list, CHOOSE k \in worse : \A m \in worse : k <= m, id)

\* remove_order_id, up to the k-th entry of the list
Delisted(list, id) ==
  LET left[k \in 0..Len(list)] ==
        IF k = 0 THEN << >>
        ELSE IF list[k] = id THEN left[k - 1] ELSE Append(left[k - 1], list[k])
  IN left

Delist(list, id) == Delisted(list, id)[Len(list)]

-----------------------------------------------------------------------------
(* One leg of a trade.  The call carries the state it works on in a record: *)
(* ok is FALSE once a token refuses, rest is the base still to be traded,   *)
(* quoted the quote side so far, kept the ids that stay listed.             *)

Payment(leg) == IF leg.side = "Buy" THEN leg.quote ELSE leg.base
Product(leg) == IF leg.side = "Buy" THEN leg.base ELSE leg.quote
Opposite(side) == IF side = "Buy" THEN "Sell" ELSE "Buy"

\* Mutation: the limit is not looked at.
WithinNoLimit(leg, price) == TRUE

WithinLimit(leg, price) ==
  leg.limit = 0 \/ price = leg.limit \/ BetterPrice(Opposite(leg.side), price, leg.limit)

\* The trader pays the `to` account and receives from the contract.
Settle(run, trader, leg, to, base, quote) ==
  LET paid == IF leg.side = "Buy" THEN quote ELSE base
      got  == IF leg.side = "Buy" THEN base ELSE quote
      mid  == Move(run.balance, Payment(leg), trader, to, paid)
  IN [run EXCEPT
       !.ok = @ /\ CanMove(run.balance, Payment(leg), trader, to, paid)
                /\ CanMove(mid, Product(leg), Contract, trader, got),
       !.balance = Move(mid, Product(leg), Contract, trader, got),
       !.rest = @ - base,
       !.quoted = @ + quote]

FilledBy(order, base) ==
  [order EXCEPT !.filled = @ + base,
                !.status = IF order.filled + base >= order.amount
                           THEN "Filled" ELSE "PartiallyFilled"]

\* The listed order takes what it still can of the rest.
FillOrder(run, trader, leg, id) ==
  LET order == run.orders[id]
      base  == Least(run.rest, Unfilled(order))
  IN [Settle(run, trader, leg, order.owner, base, QuoteOf(base, order.price)) EXCEPT
       !.orders[id] = FilledBy(order, base)]

\* A partially filled order stays listed.
Fill(run, trader, leg, id) ==
  LET end == FillOrder(run, trader, leg, id)
  IN IF end.orders[id].status = "Filled" THEN end ELSE [end EXCEPT !.kept = Append(@, id)]

\* One listed order: what is left over, out of reach or beyond the limit stays
\* listed, what is closed or expired goes.
Visit(run, trader, leg, id) ==
  CASE run.rest <= 0                              -> [run EXCEPT !.kept = Append(@, id)]
    [] run.rest > 0 /\ ~ Live(run.orders[id])     -> run
    [] run.rest > 0 /\ Live(run.orders[id]) /\ ~ WithinLimit(leg, run.orders[id].price)
                                                  -> [run EXCEPT !.kept = Append(@, id)]
    [] OTHER                                      -> Fill(run, trader, leg, id)

\* The run after the k-th entry of the list
Visits(run, trader, leg, list) ==
  LET runs[k \in 0..Len(list)] ==
        IF k = 0 THEN [run EXCEPT !.kept = << >>] ELSE Visit(runs[k - 1], trader, leg, list[k])
  IN runs

MatchBook(run, trader, leg) ==
  LET key  == PairKey(leg.base, leg.quote)
      side == Opposite(leg.side)
      list == run.book[key][side]
      end  == Visits(run, trader, leg, list)[Len(list)]
  IN [end EXCEPT !.book[key][side] = end.kept]

-----------------------------------------------------------------------------
(* The fallback pool. *)

\* get_pool_by_pair: 0 when neither orientation has a pool
PoolFor(leg) ==
  IF pairPool[<<leg.base, leg.quote>>] # 0 THEN pairPool[<<leg.base, leg.quote>>]
  ELSE pairPool[<<leg.quote, leg.base>>]

Saturated(x) == Least(x, MaxI128)
AfterFee(fee) == FeeUnit - fee

PoolCost(in, out, base, fee) ==
  LET den == Saturated((out - base) * AfterFee(fee))
  IN IF in > 0 /\ out >= base /\ den > 0
     THEN Saturated(Saturated(in * base) * FeeUnit) \div den + 1 ELSE 0

\* get_amount_out: what a pool pays for `base`; 0 when it refuses.  With a fee beyond
\* the whole both sides of the fraction may be negative.
PoolProceeds(in, out, base, fee) ==
  LET net == Saturated(base * AfterFee(fee))
      num == Saturated(net * out)
      den == Saturated(Saturated(in * FeeUnit) + net)
      got == CASE num > 0 /\ den > 0 -> num \div den
               [] num < 0 /\ den < 0 -> (- num) \div (- den)
               [] OTHER -> 0
  IN IF in > 0 /\ out > 0 /\ 0 < got /\ got <= out THEN got ELSE 0

Swapped(pool, paysA, paid, got) ==
  [pool EXCEPT !.reserveA = IF paysA THEN @ + paid ELSE @ - got,
               !.reserveB = IF paysA THEN @ - got ELSE @ + paid]

\* The rest of the leg against the pool of the pair, if there is one, at the limit or better.
UsePool(run, trader, leg) ==
  LET id   == PoolFor(leg)
      pool == run.pools[id]
      paysA == pool.a = Payment(leg)
      in   == IF paysA THEN pool.reserveA ELSE pool.reserveB
      out  == IF paysA THEN pool.reserveB ELSE pool.reserveA
      quote == IF leg.side = "Buy" THEN PoolCost(in, out, run.rest, pool.fee)
               ELSE PoolProceeds(in, out, run.rest, pool.fee)
      paid == IF leg.side = "Buy" THEN quote ELSE run.rest
      got  == IF leg.side = "Buy" THEN run.rest ELSE quote
  IN IF id # 0 /\ quote > 0 /\ WithinLimit(leg, PriceOf(quote, run.rest))
     THEN [Settle(run, trader, leg, Contract, run.rest, quote) EXCEPT
            !.pools[id] = Swapped(pool, paysA, paid, got)]
     ELSE [run EXCEPT !.ok = FALSE]

\* match_leg: a leg is traded in full, at its limit, with its minimum output.
MatchLeg(run, trader, leg) ==
  IF leg.amount <= 0 \/ leg.base = leg.quote THEN [run EXCEPT !.ok = FALSE]
  ELSE LET booked == MatchBook([run EXCEPT !.rest = leg.amount, !.quoted = 0], trader, leg)
           done   == IF booked.rest > 0 THEN UsePool(booked, trader, leg) ELSE booked
           output == IF leg.side = "Buy" THEN leg.amount ELSE done.quoted
       IN [done EXCEPT !.ok = @ /\ (leg.minOutput > 0 => output >= leg.minOutput)]

Start == [ok |-> TRUE, orders |-> orders, book |-> book, pools |-> pools,
          balance |-> balance, rest |-> 0, quoted |-> 0, kept |-> << >>]

\* The run after the k-th leg
LegRuns(trader, legs) ==
  LET runs[k \in 0..Len(legs)] ==
        IF k = 0 THEN Start
        ELSE IF runs[k - 1].ok THEN MatchLeg(runs[k - 1], trader, legs[k]) ELSE runs[k - 1]
  IN runs

MatchLegs(trader, legs) == LegRuns(trader, legs)[Len(legs)]

-----------------------------------------------------------------------------
(* The calls. *)

Init ==
  /\ orders = << >>
  /\ book = [key \in PairKeys |-> [side \in Sides |-> << >>]]
  /\ pools = << >>
  /\ pairPool = [ab \in AssetPairs |-> 0]
  /\ admin = NoAdmin
  /\ balance = InitBalance
  /\ now = 0

Initialize(caller) ==
  /\ admin = NoAdmin
  /\ admin' = caller
  /\ UNCHANGED <<orders, book, pools, pairPool, balance, now>>

PlaceOrder(owner, base, quote, side, type, price, amount, expiresAt) ==
  LET order == [owner |-> owner, base |-> base, quote |-> quote, side |-> side,
                price |-> price, amount |-> amount, filled |-> 0,
                status |-> "Pending", expiresAt |-> expiresAt]
      id    == Len(orders) + 1
      asset == LockedAsset(order)
      locks == Locked(order, amount)
  IN /\ id <= MaxOrders
     /\ amount > 0
     /\ price = 0 => type # "Limit"
     /\ base # quote
     /\ CanMove(balance, asset, owner, Contract, locks)
     /\ balance' = Move(balance, asset, owner, Contract, locks)
     /\ orders' = Append(orders, order)
     /\ book' = [book EXCEPT ![PairKey(base, quote)][side] = Enlist(@, id, order)]
     /\ UNCHANGED <<pools, pairPool, admin, now>>

CancelOrder(id) ==
  LET order == orders[id]
      asset == LockedAsset(order)
      back  == Locked(order, Unfilled(order))
  IN /\ Open(order)
     /\ CanMove(balance, asset, Contract, order.owner, back)
     /\ balance' = Move(balance, asset, Contract, order.owner, back)
     /\ orders' = [orders EXCEPT ![id].status = "Cancelled"]
     /\ book' = [book EXCEPT ![PairKey(order.base, order.quote)][order.side] = Delist(@, id)]
     /\ UNCHANGED <<pools, pairPool, admin, now>>

ExecuteTrade(trader, legs) ==
  LET end == MatchLegs(trader, legs)
  IN /\ legs # << >>
     /\ end.ok
     /\ orders' = end.orders
     /\ book' = end.book
     /\ pools' = end.pools
     /\ balance' = end.balance
     /\ UNCHANGED <<pairPool, admin, now>>

\* save_pool: the newest pool answers for its pair.
AddLiquidityPool(offer) ==
  LET id  == Len(pools) + 1
      mid == Move(balance, offer.a, admin, Contract, offer.reserveA)
  IN /\ id <= MaxPools
     /\ offer.reserveA > 0 /\ offer.reserveB > 0
     /\ offer.a # offer.b
     /\ admin # NoAdmin
     /\ CanMove(balance, offer.a, admin, Contract, offer.reserveA)
     /\ CanMove(mid, offer.b, admin, Contract, offer.reserveB)
     /\ balance' = Move(mid, offer.b, admin, Contract, offer.reserveB)
     /\ pools' = Append(pools, offer)
     /\ pairPool' = [pairPool EXCEPT ![<<offer.a, offer.b>>] = id]
     /\ UNCHANGED <<orders, book, admin, now>>

\* The environment: ledger time
Tick ==
  /\ now < MaxTime
  /\ now' = now + 1
  /\ UNCHANGED <<orders, book, pools, pairPool, admin, balance>>

Next ==
  \/ \E p \in Parties : Initialize(p)
  \/ \E p \in Parties, pair \in Pairs, side \in Sides, type \in OrderTypes, price \in Prices,
        amount \in Amounts, expiry \in Expiries :
       PlaceOrder(p, pair[1], pair[2], side, type, price, amount, expiry)
  \/ \E id \in DOMAIN orders : CancelOrder(id)
  \/ \E p \in Parties, legs \in Trades : ExecuteTrade(p, legs)
  \/ \E offer \in PoolOffers : AddLiquidityPool(offer)
  \/ Tick

Spec == Init /\ [][Next]_vars
-----------------------------------------------------------------------------
(***************************************************************************)
(* Properties.                                                             *)
(***************************************************************************)

Order == [owner : Parties, base : Assets, quote : Assets, side : Sides, price : Nat,
          amount : Nat \ {0}, filled : Nat, expiresAt : Nat,
          status : {"Pending", "PartiallyFilled", "Filled", "Cancelled"}]

Pool == [a : Assets, b : Assets, reserveA : Nat, reserveB : Nat, fee : Nat]

\* Every variable has its type; in particular no balance and no reserve is ever negative,
\* and nothing is filled beyond its amount.
TypeOK ==
  /\ orders \in Seq(Order) /\ \A i \in DOMAIN orders : orders[i].filled <= orders[i].amount
  /\ book \in [PairKeys -> [Sides -> Seq(DOMAIN orders)]]
  /\ pools \in Seq(Pool)
  /\ pairPool \in [AssetPairs -> {0} \cup DOMAIN pools]
  /\ admin \in Parties \cup {NoAdmin}
  /\ balance \in [Assets -> [Accounts -> Nat]]
  /\ now \in 0..MaxTime

\* What the contract owes in an asset: to the owners of open orders what cancelling would
\* give back, and to the pools their reserves
OrderClaim(asset, order) ==
  IF Open(order) /\ LockedAsset(order) = asset
  THEN Locked(order, order.amount - order.filled) ELSE 0

PoolClaim(asset, pool) ==
  (IF pool.a = asset THEN pool.reserveA ELSE 0) + (IF pool.b = asset THEN pool.reserveB ELSE 0)

Owed(asset) ==
  Total([i \in DOMAIN orders |-> OrderClaim(asset, orders[i])], Len(orders))
    + Total([k \in DOMAIN pools |-> PoolClaim(asset, pools[k])], Len(pools))

\* The account of the contract covers every open order and every reserve at once, however
\* the quote side was rounded in fills, refunds and pool trades before.
Solvency == \A a \in Assets : balance[a][Contract] >= Owed(a)

\* Nothing but the rounding of bids stays behind in the account: an asset that is only
\* ever a base is held to the unit.
NoStrandedBase ==
  \A a \in Assets :
    (\A pair \in Pairs : pair[2] # a) => balance[a][Contract] = Owed(a)

\* Whatever mixture of orders and pool fills a leg, a buyer pays less than a unit of price
\* above the limit, and a seller gets the limit up to the rounding of each fill.
LimitKept ==
  \A p \in Parties, legs \in Trades :
    LET leg  == legs[1]
        end  == MatchLegs(p, <<leg>>)
        list == book[PairKey(leg.base, leg.quote)][Opposite(leg.side)]
    IN legs # << >> /\ end.ok /\ leg.limit > 0 =>
         IF leg.side = "Buy" THEN end.quoted * Precision < (leg.limit + 1) * leg.amount
         ELSE end.quoted * Precision > leg.limit * leg.amount - Precision * (Len(list) + 1)

(***************************************************************************)
(* The lists implement the order book the README promises.                 *)
(***************************************************************************)
PriceTime == INSTANCE PriceTimeBook

\* Orders are filled in price-time priority only, never beyond their amount, never after
\* they expired, and a filled or cancelled order never changes again.
ImplementsPriceTime == PriceTime!Spec
=============================================================================
