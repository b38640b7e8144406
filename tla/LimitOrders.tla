---------------------------- MODULE LimitOrders -----------------------------
(***************************************************************************)
(* The limit and recurring orders of the counter contract:                 *)
(* counter/src/orders.rs under the entry points of counter/src/lib.rs, for *)
(* one pair.  A placed order takes its reserve out of the portfolio; takes *)
(* and cancellations pay it out again.  Traders are users with a verified  *)
(* KYC record, and the contract is not paused.                             *)
(*                                                                         *)
(* The files declare several methods and fields twice; the definitions     *)
(* with a side and a book are followed.  Their book has no place for an    *)
(* order without a side, so that a recurring order is only in the list of  *)
(* recurring orders, and stop-loss orders are left out.                    *)
(***************************************************************************)
EXTENDS Integers, Sequences, SequencesExt, FiniteSets, FiniteSetsExt

CONSTANTS
    Traders,
    Precision,      \* PRECISION of prices
    Funds,          \* what each trader holds of each token at first
    Amounts, Takes, Prices, \* bounds: the amounts (in base) of orders, of takes, and prices
    Deadlines, Intervals, Occurrences,  \* bounds: deadlines (0: none) and schedules
    MaxOrders, MaxTime      \* bounds

OrdersAssumption ==
    /\ Precision \in Nat \ {0} /\ Amounts \cup Takes \subseteq Nat \ {0} /\ Prices \subseteq Nat \ {0}
    /\ Deadlines \subseteq Nat /\ Intervals \subseteq Nat \ {0} /\ Occurrences \subseteq Nat \ {0} /\ Funds \in Nat
    /\ MaxTime \in Nat \ {0}

VARIABLES
    orders,         \* the orders by their id
    books,          \* "Buy": the bids, "Sell": the asks, as ids, the best first
    recurring,      \* the ids of the recurring orders
    balances,       \* what the portfolio holds of "base" and "quote" for each trader
    budget, used,   \* history: what an order may use in all, and what was used of it
    now

vars == <<orders, books, recurring, balances, budget, used, now>>

Sides == {"Buy", "Sell"}
Statuses == {"Pending", "PartiallyFilled", "Filled", "Cancelled", "Expired", "Scheduled"}
Ids == DOMAIN orders
Open == {"Pending", "PartiallyFilled"}
Opposite(side) == CHOOSE s \in Sides : s /= side

Order == [owner : Traders, type : {"Limit", "Recurring"}, side : Sides, amount : Amounts,
          remaining : Nat, price : Prices \cup {0}, status : Statuses,
          expires : Deadlines, created : Nat, interval : Nat, occurrences : Nat, next : Nat]

TypeOK ==
    /\ orders \in Seq(Order) /\ Len(budget) = Len(orders) /\ Len(used) = Len(orders)
    /\ books \in [Sides -> Seq(Ids)] /\ recurring \in Seq(Ids)
    /\ balances \in [Traders -> [{"base", "quote"} -> Nat]] /\ now \in 1..MaxTime

Init ==
    /\ orders = <<>> /\ books = [s \in Sides |-> <<>>] /\ recurring = <<>>
    /\ balances = [t \in Traders |-> [x \in {"base", "quote"} |-> Funds]]
    /\ budget = <<>> /\ used = <<>> /\ now = 1

-----------------------------------------------------------------------------
Min2(x, y) == IF x < y THEN x ELSE y

Quote(amount, price) == (amount * price) \div Precision

\* What an order has in reserve for an amount of base: quote to buy it, or the base itself
ReserveToken(side) == IF side = "Buy" THEN "quote" ELSE "base"
Reserve(side, amount, price) == IF side = "Buy" THEN Quote(amount, price) ELSE amount

Late(o) == o.expires /= 0 /\ now > o.expires

Better(side, p, q) == IF side = "Buy" THEN p > q ELSE p < q

\* add_to_order_book: in front of the first order with a worse price, or last
AddToOrderBook(book, side, price, id) ==
    LET worse == {i \in DOMAIN book : Better(side, price, orders[book[i]].price)}
    IN  InsertAt(book, IF worse = {} THEN Len(book) + 1 ELSE Min(worse), id)

PlaceLimitOrder(t, side, amount, price, expires) ==
    LET token == ReserveToken(side)
        reserve == Reserve(side, amount, price)
        id == Len(orders) + 1
    IN  /\ Len(orders) < MaxOrders
        /\ reserve > 0 /\ balances[t][token] >= reserve     \* debit asserts both
        /\ balances' = [balances EXCEPT ![t][token] = @ - reserve]
        /\ orders' = Append(orders,
              [owner |-> t, type |-> "Limit", side |-> side, amount |-> amount,
               remaining |-> amount, price |-> price, status |-> "Pending",
               expires |-> expires, created |-> now, interval |-> 0,
               occurrences |-> 0, next |-> 0])
        /\ books' = [books EXCEPT ![side] = AddToOrderBook(@, side, price, id)]
        /\ budget' = Append(budget, reserve) /\ used' = Append(used, 0)
        /\ UNCHANGED <<recurring, now>>

-----------------------------------------------------------------------------
(* take_order walks a copy of the opposite list from the best order on.     *)

WithinLimit(side, price, limit) ==
    limit = 0 \/ (IF side = "Buy" THEN price <= limit ELSE price >= limit)

\* The taker gets what he takes, and the maker the other token; nothing is debited
\* from the taker
Paid(s, taker, side, o, base) ==
    LET quote == Quote(base, o.price)
        got == IF side = "Buy" THEN base ELSE quote
        other == IF side = "Buy" THEN quote ELSE base
        first == [s EXCEPT ![taker][ReserveToken(Opposite(side))] = @ + got]
    IN  [first EXCEPT ![o.owner][ReserveToken(side)] = @ + other]

Fill(s, taker, side, id) ==
    LET o == s.orders[id]
        base == Min2(o.remaining, s.left)
        full == base = o.remaining
    IN  [s EXCEPT !.orders[id] = [o EXCEPT !.remaining = @ - base,
                                  !.status = IF full THEN "Filled" ELSE "PartiallyFilled"],
                  !.listed = IF full THEN RemoveFirst(@, id) ELSE @,
                  !.left = @ - base,
                  !.balances = Paid(@, taker, side, o, base),
                  !.used[id] = @ + Reserve(o.side, base, o.price)]

TakeStep(taker, side, limit, s, id) ==
    LET o == s.orders[id]
    IN  IF s.left = 0 \/ o.status \notin Open THEN s
        ELSE IF Late(o) THEN [s EXCEPT !.orders[id].status = "Expired"]
        ELSE IF WithinLimit(side, o.price, limit) THEN Fill(s, taker, side, id) ELSE s

\* The states of the walk, by how many orders it has passed
Walk(taker, side, limit, start, book) ==
    LET s[n \in 0..Len(book)] ==
          IF n = 0 THEN start ELSE TakeStep(taker, side, limit, s[n - 1], book[n])
    IN  s

TakeOrder(taker, side, amount, limit) ==
    LET book == books[Opposite(side)]
        start == [orders |-> orders, listed |-> book, left |-> amount, balances |-> balances,
                  used |-> used]
        done == Walk(taker, side, limit, start, book)[Len(book)]
    IN  /\ orders /= <<>>       \* there is a book for the pair
        /\ orders' = done.orders /\ balances' = done.balances /\ used' = done.used
        /\ books' = [books EXCEPT ![Opposite(side)] = done.listed]
        /\ UNCHANGED <<recurring, budget, now>>

\* Mutation: the refund forgets what was filled
CancelOrderWhole(t, id) ==
    LET o == orders[id]
        refund == Reserve(o.side, o.amount, o.price)
    IN  /\ o.type = "Limit" /\ o.owner = t /\ o.status \in Open
        /\ orders' = [orders EXCEPT ![id].status = "Cancelled"]
        /\ balances' = [balances EXCEPT ![t][ReserveToken(o.side)] = @ + refund]
        /\ used' = [used EXCEPT ![id] = @ + refund]
        /\ UNCHANGED <<books, recurring, budget, now>>

\* cancel_order refunds the reserve of what remains; the order stays in its list
CancelOrder(t, id) ==
    LET o == orders[id]
        refund == Reserve(o.side, o.remaining, o.price)
    IN  /\ o.type = "Limit" /\ o.owner = t /\ o.status \in Open
        /\ orders' = [orders EXCEPT ![id].status = "Cancelled"]
        /\ balances' = [balances EXCEPT ![t][ReserveToken(o.side)] = @ + refund]
        /\ used' = [used EXCEPT ![id] = @ + refund]
        /\ UNCHANGED <<books, recurring, budget, now>>

\* match_pending_orders marks the bids the price has reached; whatever its status was,
\* a bid whose time is over becomes Expired
Matched(o, price) ==
    IF Late(o) THEN [o EXCEPT !.status = "Expired"]
    ELSE IF o.status \in Open /\ price <= o.price THEN [o EXCEPT !.status = "Filled"]
    ELSE o

MatchPendingOrders(price) ==
    /\ orders /= <<>>
    /\ orders' = [id \in Ids |->
          IF Contains(books["Buy"], id) THEN Matched(orders[id], price) ELSE orders[id]]
    /\ UNCHANGED <<books, recurring, balances, budget, used, now>>

-----------------------------------------------------------------------------
PlaceRecurringOrder(t, amount, interval, occurrences, expires) ==
    /\ Len(orders) < MaxOrders
    /\ orders' = Append(orders,
          [owner |-> t, type |-> "Recurring", side |-> "Buy", amount |-> amount,
           remaining |-> 0, price |-> 0, status |-> "Pending", expires |-> expires,
           created |-> now, interval |-> interval, occurrences |-> occurrences,
           next |-> now + interval])
    /\ recurring' = Append(recurring, Len(orders) + 1)
    /\ budget' = Append(budget, amount * occurrences) /\ used' = Append(used, 0)
    /\ UNCHANGED <<books, balances, now>>

Due(o) == ~Late(o) /\ o.status \in {"Pending", "Scheduled"} /\ now >= o.next

Executed(o) ==
    IF Late(o) THEN [o EXCEPT !.status = "Expired"]
    ELSE IF ~Due(o) THEN o
    ELSE IF o.occurrences = 1
    THEN [o EXCEPT !.occurrences = 0, !.status = "Filled", !.next = 0]
    ELSE [o EXCEPT !.occurrences = @ - 1, !.status = "Scheduled", !.next = now + o.interval]

ExecuteDueOrders ==
    LET runs == Range(recurring)
    IN  /\ orders' = [id \in Ids |-> IF id \in runs THEN Executed(orders[id]) ELSE orders[id]]
        /\ used' = [id \in Ids |-> IF id \in runs /\ Due(orders[id])
                                   THEN used[id] + orders[id].amount ELSE used[id]]
        /\ UNCHANGED <<books, recurring, balances, budget, now>>

CancelRecurring(t, id) ==
    /\ orders[id].type = "Recurring" /\ orders[id].owner = t
    /\ orders[id].status \in {"Pending", "Scheduled"}
    /\ orders' = [orders EXCEPT ![id].status = "Cancelled"]
    /\ UNCHANGED <<books, recurring, balances, budget, used, now>>

Tick == now < MaxTime /\ now' = now + 1
        /\ UNCHANGED <<orders, books, recurring, balances, budget, used>>

Next ==
    \/ \E t \in Traders, side \in Sides, amount \in Amounts, price \in Prices, d \in Deadlines :
          PlaceLimitOrder(t, side, amount, price, d)
    \/ \E t \in Traders, side \in Sides, amount \in Takes, limit \in Prices \cup {0} :
          TakeOrder(t, side, amount, limit)
    \/ \E t \in Traders, id \in Ids : CancelOrder(t, id) \/ CancelRecurring(t, id)
    \/ \E price \in Prices : MatchPendingOrders(price)
    \/ \E t \in Traders, amount \in Amounts, i \in Intervals, n \in Occurrences, d \in Deadlines :
          PlaceRecurringOrder(t, amount, i, n, d)
    \/ ExecuteDueOrders
    \/ Tick

Spec == Init /\ [][Next]_vars

-----------------------------------------------------------------------------
\* However takes, fills at a rounded price, expiries and cancellations follow on each
\* other, no order uses more than its reserve (a recurring one: its occurrences), and a
\* cancelled sell order has given back all that was not sold.
BudgetKept == \A id \in Ids :
    /\ used[id] <= budget[id]
    /\ (orders[id].type = "Limit" /\ orders[id].side = "Sell" /\ orders[id].status = "Cancelled")
           => used[id] = budget[id]

\* Each list is in the order of price, then age, and an order that can still be filled
\* is in the list of its side.
BookInPriority ==
    /\ \A s \in Sides : \A i, j \in DOMAIN books[s] : i < j =>
          LET p == orders[books[s][i]].price
              q == orders[books[s][j]].price
          IN  Better(s, p, q) \/ (p = q /\ books[s][i] < books[s][j])
    /\ \A id \in Ids : orders[id].type = "Limit" /\ orders[id].status \in Open
                           => Contains(books[orders[id].side], id)

\* However late and however often execute_due_orders is called, the runs of a recurring
\* order are at least its interval apart, counted from its placement.
RecurringPaced == \A id \in Ids : orders[id].type = "Recurring" =>
    used[id] * orders[id].interval <= (now - orders[id].created) * orders[id].amount
=============================================================================
