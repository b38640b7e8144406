--------------------------- MODULE PriceTimeBook ----------------------------
(***************************************************************************)
(* What the order book of the trade engine promises its makers, without    *)
(* the lists it keeps: an order is open until it is filled or cancelled,   *)
(* only its own amount is ever filled, a closed order never changes again, *)
(* and a trade that reaches an order has used up every live order that     *)
(* comes before it in price-time priority.                                 *)
(***************************************************************************)
EXTENDS Integers, Sequences

VARIABLES orders,   \* the orders by id, in the order they were placed
          now       \* ledger time

vars == <<orders, now>>

Open(order) == order.status \in {"Pending", "PartiallyFilled"}
Live(order) == Open(order) /\ (order.expiresAt = 0 \/ order.expiresAt > now)

SameQueue(i, j) ==
  /\ {orders[i].base, orders[i].quote} = {orders[j].base, orders[j].quote}
  /\ orders[i].side = orders[j].side

\* Better price first, then the earlier order
Before(i, j) ==
  /\ SameQueue(i, j)
  /\ \/ orders[i].side = "Buy" /\ orders[i].price > orders[j].price
     \/ orders[i].side = "Sell" /\ orders[i].price < orders[j].price
     \/ orders[i].price = orders[j].price /\ i < j

Init == orders = << >> /\ now = 0

Place ==
  /\ Len(orders') = Len(orders) + 1
  /\ LET order == orders'[Len(orders')]
     IN order.status = "Pending" /\ order.filled = 0 /\ orders' = Append(orders, order)
  /\ now' = now

Cancel ==
  /\ \E i \in DOMAIN orders :
       Open(orders[i]) /\ orders' = [orders EXCEPT ![i].status = "Cancelled"]
  /\ now' = now

\* The order after `amount` more of it was filled
FilledBy(order, amount) ==
  [order EXCEPT !.filled = @ + amount,
                !.status = IF order.filled + amount = order.amount
                           THEN "Filled" ELSE "PartiallyFilled"]

Trade ==
  LET taken == {i \in DOMAIN orders : orders'[i] # orders[i]}
  IN /\ DOMAIN orders' = DOMAIN orders
     /\ \A j \in taken :
          /\ Live(orders[j])
          /\ \E amount \in 1..(orders[j].amount - orders[j].filled) :
               orders'[j] = FilledBy(orders[j], amount)
          /\ \A i \in DOMAIN orders :
               Before(i, j) /\ Live(orders[i]) => orders'[i].status = "Filled"
     /\ now' = now

Tick == now' = now + 1 /\ orders' = orders

Next == Place \/ Cancel \/ Trade \/ Tick

Spec == Init /\ [][Next]_vars
=============================================================================
