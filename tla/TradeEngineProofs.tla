------------------------- MODULE TradeEngineProofs --------------------------
(***************************************************************************)
(* Theorems about TradeEngine.                                             *)
(***************************************************************************)
EXTENDS TradeEngine, SequenceLemmas

\* The contract is an account of its own.
LEMMA PartyAccounts == Contract \in Accounts /\ \A p \in Parties : p \in Accounts /\ p # Contract
  BY ContractAssumption DEF Accounts

-----------------------------------------------------------------------------
(* Transfers that skip an amount that is not positive.                      *)

Positive(amount) == IF amount <= 0 THEN 0 ELSE amount

\* What a transfer adds to one account, whoever pays: nothing when the payer is the payee.
Moved(a, h, asset, from, to, amount) ==
  (IF a = asset /\ h = to THEN Positive(amount) ELSE 0)
    - (IF a = asset /\ h = from THEN Positive(amount) ELSE 0)

LEMMA MoveEffect ==
  ASSUME NEW bal \in Balances, NEW asset \in Assets, NEW from \in Accounts, NEW to \in Accounts,
         NEW amount \in Int, CanMove(bal, asset, from, to, amount)
  PROVE  /\ Move(bal, asset, from, to, amount) \in Balances
         /\ \A a \in Assets, h \in Accounts :
              Move(bal, asset, from, to, amount)[a][h] =
                bal[a][h] + Moved(a, h, asset, from, to, amount)
<1>0. \A a \in Assets, h \in Accounts : bal[a][h] \in Nat
  BY DEF Balances
<1>1. CASE amount <= 0
  <2>1. \A a \in Assets, h \in Accounts : Moved(a, h, asset, from, to, amount) = 0
    BY <1>1 DEF Moved, Positive
  <2>2. Move(bal, asset, from, to, amount) = bal
    BY <1>1 DEF Move
  <2> QED BY <1>0, <2>1, <2>2
<1>2. CASE ~ (amount <= 0)
  <2>1. /\ Move(bal, asset, from, to, amount) = Transfer(bal, asset, from, to, amount)
        /\ amount \in Nat /\ bal[asset][from] >= amount /\ Positive(amount) = amount
    BY <1>2 DEF Move, CanMove, TransferOk, Positive
  <2>2. CASE from # to
    <3>1. /\ Transfer(bal, asset, from, to, amount) \in Balances
          /\ \A a \in Assets, h \in Accounts :
               Transfer(bal, asset, from, to, amount)[a][h] =
                 IF a = asset /\ h = from THEN bal[a][h] - amount
                 ELSE IF a = asset /\ h = to THEN bal[a][h] + amount
                 ELSE bal[a][h]
      BY <2>1, <2>2, MovedAmount DEF Transfer, Balances
    <3>2. \A a \in Assets, h \in Accounts :
            (IF a = asset /\ h = from THEN bal[a][h] - amount
             ELSE IF a = asset /\ h = to THEN bal[a][h] + amount
             ELSE bal[a][h]) = bal[a][h] + Moved(a, h, asset, from, to, amount)
      BY <1>0, <2>1, <2>2 DEF Moved
    <3> QED BY <2>1, <3>1, <3>2
  <2>3. CASE from = to
    <3>1. Transfer(bal, asset, from, to, amount) = bal
      <4>1. bal[asset] \in [Accounts -> Nat] /\ (bal[asset][from] - amount) + amount = bal[asset][from]
        BY <1>0, <2>1 DEF Balances
      <4>2. [bal[asset] EXCEPT ![from] = @ - amount, ![from] = @ + amount] = bal[asset]
        BY <4>1
      <4>3. Transfer(bal, asset, from, to, amount) =
              [bal EXCEPT ![asset] = [bal[asset] EXCEPT ![from] = @ - amount,
                                                        ![from] = @ + amount]]
        BY <2>3 DEF Transfer, Balances
      <4> QED BY <4>2, <4>3 DEF Balances
    <3>2. \A a \in Assets, h \in Accounts : Moved(a, h, asset, from, to, amount) = 0
      BY <2>1, <2>3 DEF Moved
    <3> QED BY <1>0, <2>1, <3>1, <3>2
  <2> QED BY <2>2, <2>3
<1> QED BY <1>1, <1>2

-----------------------------------------------------------------------------
(* The record a trade carries along.                                        *)

IsRun(run) ==
  /\ DOMAIN run = {"ok", "orders", "book", "pools", "balance", "rest", "quoted", "kept"}
  /\ run.ok \in BOOLEAN

\* A settlement changes the balances, the rest and the quote, and is carried out only
\* when both transfers are.
LEMMA SettleFields ==
  ASSUME NEW run, IsRun(run), NEW trader, NEW leg, NEW to, NEW base, NEW quote
  PROVE  LET after == Settle(run, trader, leg, to, base, quote)
             paid == IF leg.side = "Buy" THEN quote ELSE base
             got  == IF leg.side = "Buy" THEN base ELSE quote
             mid  == Move(run.balance, Payment(leg), trader, to, paid)
         IN /\ IsRun(after)
            /\ after.orders = run.orders /\ after.book = run.book /\ after.pools = run.pools
            /\ after.kept = run.kept
            /\ after.rest = run.rest - base /\ after.quoted = run.quoted + quote
            /\ after.balance = Move(mid, Product(leg), Contract, trader, got)
            /\ after.ok <=> /\ run.ok
                            /\ CanMove(run.balance, Payment(leg), trader, to, paid)
                            /\ CanMove(mid, Product(leg), Contract, trader, got)
  BY DEF Settle, IsRun

\* What a settlement leaves in the accounts.
LEMMA SettleBalance ==
  ASSUME NEW run, IsRun(run), run.balance \in Balances, NEW trader \in Parties,
         NEW leg \in TradeLeg, NEW to \in Accounts, NEW base \in Int, NEW quote \in Int,
         Settle(run, trader, leg, to, base, quote).ok
  PROVE  LET paid == IF leg.side = "Buy" THEN quote ELSE base
             got  == IF leg.side = "Buy" THEN base ELSE quote
         IN /\ Settle(run, trader, leg, to, base, quote).balance \in Balances
            /\ \A a \in Assets, h \in Accounts :
                 Settle(run, trader, leg, to, base, quote).balance[a][h] =
                   run.balance[a][h] + Moved(a, h, Payment(leg), trader, to, paid)
                                     + Moved(a, h, Product(leg), Contract, trader, got)
<1> DEFINE after == Settle(run, trader, leg, to, base, quote)
           paid == IF leg.side = "Buy" THEN quote ELSE base
           got  == IF leg.side = "Buy" THEN base ELSE quote
           mid  == Move(run.balance, Payment(leg), trader, to, paid)
<1>1. /\ CanMove(run.balance, Payment(leg), trader, to, paid)
      /\ CanMove(mid, Product(leg), Contract, trader, got)
      /\ after.balance = Move(mid, Product(leg), Contract, trader, got)
  BY SettleFields
<1>2. Payment(leg) \in Assets /\ Product(leg) \in Assets /\ paid \in Int /\ got \in Int
  BY DEF Payment, Product, TradeLeg
<1>3. trader \in Accounts /\ Contract \in Accounts
  BY PartyAccounts
<1> HIDE DEF after, paid, got
<1>4. /\ mid \in Balances
      /\ \A a \in Assets, h \in Accounts :
           mid[a][h] = run.balance[a][h] + Moved(a, h, Payment(leg), trader, to, paid)
  BY <1>1, <1>2, <1>3, MoveEffect
<1> HIDE DEF mid
<1>5. /\ after.balance \in Balances
      /\ \A a \in Assets, h \in Accounts :
           after.balance[a][h] = mid[a][h] + Moved(a, h, Product(leg), Contract, trader, got)
  <2>1. /\ Move(mid, Product(leg), Contract, trader, got) \in Balances
        /\ \A a \in Assets, h \in Accounts :
             Move(mid, Product(leg), Contract, trader, got)[a][h] =
               mid[a][h] + Moved(a, h, Product(leg), Contract, trader, got)
    BY <1>1, <1>2, <1>3, <1>4, MoveEffect
  <2> QED BY <1>1, <2>1
<1>6. /\ after.balance \in Balances
      /\ \A a \in Assets, h \in Accounts :
           after.balance[a][h] = run.balance[a][h] + Moved(a, h, Payment(leg), trader, to, paid)
                                     + Moved(a, h, Product(leg), Contract, trader, got)
  BY <1>4, <1>5
<1> QED BY <1>6 DEF after, paid, got

\* A fill settles with the owner of the order, writes the order, and keeps its id
\* listed unless it is filled.
IsFill(run, trader, leg, id, after) ==
  LET order == run.orders[id]
      base  == Least(run.rest, Unfilled(order))
      done  == Settle(run, trader, leg, order.owner, base, QuoteOf(base, order.price))
  IN /\ IsRun(after)
     /\ after.orders = [run.orders EXCEPT ![id] = FilledBy(order, base)]
     /\ after.book = run.book /\ after.pools = run.pools
     /\ after.rest = run.rest - base
     /\ after.quoted = run.quoted + QuoteOf(base, order.price)
     /\ after.balance = done.balance /\ after.ok = done.ok
     /\ after.kept = IF FilledBy(order, base).status = "Filled" THEN run.kept
                     ELSE Append(run.kept, id)

LEMMA FillFields ==
  ASSUME NEW run, IsRun(run), NEW trader, NEW leg, NEW id \in DOMAIN run.orders
  PROVE  IsFill(run, trader, leg, id, Fill(run, trader, leg, id))
<1> DEFINE order == run.orders[id]
           base  == Least(run.rest, Unfilled(order))
           quote == QuoteOf(base, order.price)
           done  == Settle(run, trader, leg, order.owner, base, quote)
           end   == FillOrder(run, trader, leg, id)
<1>1. /\ IsRun(done) /\ done.orders = run.orders /\ done.book = run.book /\ done.pools = run.pools
      /\ done.kept = run.kept /\ done.rest = run.rest - base /\ done.quoted = run.quoted + quote
  BY SettleFields
<1>2. end = [done EXCEPT !.orders[id] = FilledBy(order, base)]
  BY DEF FillOrder
<1> HIDE DEF done, quote
<1>3. /\ IsRun(end) /\ end.orders = [run.orders EXCEPT ![id] = FilledBy(order, base)]
      /\ end.book = run.book /\ end.pools = run.pools /\ end.kept = run.kept
      /\ end.rest = run.rest - base /\ end.quoted = run.quoted + quote
      /\ end.balance = done.balance /\ end.ok = done.ok
  BY <1>1, <1>2 DEF IsRun
<1>4. end.orders[id].status = FilledBy(order, base).status
  BY <1>3
<1>5. Fill(run, trader, leg, id) = IF FilledBy(order, base).status = "Filled" THEN end
                                   ELSE [end EXCEPT !.kept = Append(@, id)]
  BY <1>4 DEF Fill
<1> HIDE DEF end
<1>6. /\ IsRun([end EXCEPT !.kept = Append(@, id)])
      /\ [end EXCEPT !.kept = Append(@, id)].orders = end.orders
      /\ [end EXCEPT !.kept = Append(@, id)].book = end.book
      /\ [end EXCEPT !.kept = Append(@, id)].pools = end.pools
      /\ [end EXCEPT !.kept = Append(@, id)].rest = end.rest
      /\ [end EXCEPT !.kept = Append(@, id)].quoted = end.quoted
      /\ [end EXCEPT !.kept = Append(@, id)].balance = end.balance
      /\ [end EXCEPT !.kept = Append(@, id)].ok = end.ok
      /\ [end EXCEPT !.kept = Append(@, id)].kept = Append(end.kept, id)
  BY <1>3 DEF IsRun
<1> QED BY <1>3, <1>5, <1>6 DEF IsFill, quote, done

\* A visit passes the order over, drops it or fills it.
LEMMA VisitCases ==
  ASSUME NEW run, NEW trader, NEW leg, NEW id, run.rest \in Int
  PROVE  \/ /\ Visit(run, trader, leg, id) = [run EXCEPT !.kept = Append(@, id)]
            /\ run.rest <= 0 \/ ~ WithinLimit(leg, run.orders[id].price)
         \/ /\ Visit(run, trader, leg, id) = run
            /\ run.rest > 0 /\ ~ Live(run.orders[id])
         \/ /\ Visit(run, trader, leg, id) = Fill(run, trader, leg, id)
            /\ run.rest > 0 /\ Live(run.orders[id]) /\ WithinLimit(leg, run.orders[id].price)
<1> DEFINE live == Live(run.orders[id])
           inside == WithinLimit(leg, run.orders[id].price)
<1>1. live \in BOOLEAN /\ inside \in BOOLEAN
  BY DEF Live, Open, WithinLimit
<1> HIDE DEF live, inside
<1>2. CASE run.rest <= 0
  BY <1>2 DEF Visit, live, inside
<1>3. CASE run.rest > 0 /\ ~ live
  BY <1>3 DEF Visit, live, inside
<1>4. CASE run.rest > 0 /\ live /\ ~ inside
  BY <1>4 DEF Visit, live, inside
<1>5. CASE run.rest > 0 /\ live /\ inside
  BY <1>5 DEF Visit, live, inside
<1> QED BY <1>1, <1>2, <1>3, <1>4, <1>5

-----------------------------------------------------------------------------
(* Orders.                                                                  *)

\* What every stored order satisfies: an open one still has something to fill.
Placed ==
  {o \in Order : /\ o.filled <= o.amount /\ (Open(o) => o.filled < o.amount)
                 /\ <<o.base, o.quote>> \in Pairs /\ o.base # o.quote
                 /\ o.price \in Prices /\ o.amount \in Amounts}

\* Two forms of one order
SameTerms(o, p) ==
  /\ p.owner = o.owner /\ p.base = o.base /\ p.quote = o.quote /\ p.side = o.side
  /\ p.price = o.price /\ p.amount = o.amount /\ p.expiresAt = o.expiresAt

LEMMA PlacedTypes ==
  ASSUME NEW o \in Placed
  PROVE  /\ o \in Order /\ o.owner \in Parties /\ o.base \in Assets /\ o.quote \in Assets
         /\ o.side \in Sides /\ o.price \in Nat /\ o.amount \in Nat \ {0} /\ o.filled \in Nat
         /\ o.expiresAt \in Nat /\ o.filled <= o.amount /\ o.base # o.quote
  BY DEF Placed, Order

LEMMA FilledByEffect ==
  ASSUME NEW o \in Placed, Open(o), NEW amount \in 1..Unfilled(o)
  PROVE  /\ FilledBy(o, amount) \in Placed
         /\ SameTerms(o, FilledBy(o, amount))
         /\ FilledBy(o, amount).filled = o.filled + amount
         /\ FilledBy(o, amount).status = IF o.filled + amount = o.amount
                                         THEN "Filled" ELSE "PartiallyFilled"
<1> DEFINE p == FilledBy(o, amount)
<1>1. /\ o.filled \in Nat /\ o.amount \in Nat \ {0} /\ o.filled + amount <= o.amount
      /\ amount \in Nat /\ o \in Order
  BY DEF Placed, Order, Unfilled
<1>2. p = [o EXCEPT !.filled = o.filled + amount,
                    !.status = IF o.filled + amount = o.amount
                               THEN "Filled" ELSE "PartiallyFilled"]
  <2>1. o.filled + amount >= o.amount <=> o.filled + amount = o.amount
    BY <1>1
  <2> QED BY <2>1 DEF FilledBy
<1> HIDE DEF p
<1>3. p \in Order
  <2> DEFINE filled == o.filled + amount
             status == IF filled = o.amount THEN "Filled" ELSE "PartiallyFilled"
  <2>1. filled \in Nat /\ status \in {"Pending", "PartiallyFilled", "Filled", "Cancelled"}
    BY <1>1
  <2>2. p = [o EXCEPT !.filled = filled, !.status = status]
    BY <1>2
  <2> HIDE DEF filled, status
  <2> QED BY <1>1, <2>1, <2>2 DEF Order
<1>4. /\ SameTerms(o, p) /\ p.filled = o.filled + amount
      /\ p.status = IF o.filled + amount = o.amount THEN "Filled" ELSE "PartiallyFilled"
  BY <1>1, <1>2 DEF Order, SameTerms
<1>5. p.filled <= p.amount /\ (Open(p) => p.filled < p.amount)
  BY <1>1, <1>4 DEF SameTerms, Open
<1>6. p \in Placed
  BY <1>3, <1>4, <1>5 DEF Placed, SameTerms
<1> QED BY <1>4, <1>6 DEF p

\* What a call may make of one order: leave it, or fill a live one further.
FilledOn(o, p) == p = o \/ (Live(o) /\ \E amount \in 1..Unfilled(o) : p = FilledBy(o, amount))

LEMMA FilledOnKeeps ==
  ASSUME NEW o \in Placed, NEW p, FilledOn(o, p)
  PROVE  /\ p \in Placed /\ SameTerms(o, p)
         /\ p # o => p.status \in {"Filled", "PartiallyFilled"}
         /\ Live(p) => Live(o)
         /\ Live(o) => Live(p) \/ p.status = "Filled"
<1>1. CASE p = o
  BY <1>1 DEF SameTerms
<1>2. CASE p # o
  <2>1. PICK amount \in 1..Unfilled(o) : p = FilledBy(o, amount)
    BY <1>2 DEF FilledOn
  <2>2. Live(o) /\ Open(o)
    BY <1>2 DEF FilledOn, Live
  <2>3. p \in Placed /\ SameTerms(o, p) /\ p.status \in {"Filled", "PartiallyFilled"}
    BY <2>1, <2>2, FilledByEffect
  <2>4. Live(p) \/ p.status = "Filled"
    BY <2>2, <2>3 DEF Live, Open, SameTerms
  <2> QED BY <2>2, <2>3, <2>4
<1> QED BY <1>1, <1>2

\* Filling twice is filling once more.
LEMMA FilledOnTwice ==
  ASSUME NEW o \in Placed, NEW p, NEW q, FilledOn(o, p), FilledOn(p, q)
  PROVE  FilledOn(o, q)
<1>1. CASE p = o \/ q = p
  BY <1>1
<1>2. CASE p # o /\ q # p
  <2>1. PICK m \in 1..Unfilled(o) : p = FilledBy(o, m)
    BY <1>2 DEF FilledOn
  <2>2. PICK n \in 1..Unfilled(p) : q = FilledBy(p, n)
    BY <1>2 DEF FilledOn
  <2>3. Live(o) /\ Open(o) /\ Live(p)
    BY <1>2 DEF FilledOn, Live
  <2>4. /\ p \in Placed /\ p.filled = o.filled + m /\ p.amount = o.amount
    BY <2>1, <2>3, FilledByEffect DEF SameTerms
  <2>5. o.filled \in Nat /\ o.amount \in Nat /\ o \in Order
    BY DEF Placed, Order
  <2>6. /\ m + n \in 1..Unfilled(o)
        /\ p.filled + n = o.filled + (m + n)
    BY <2>4, <2>5 DEF Unfilled
  <2>7. FilledBy(p, n) = FilledBy(o, m + n)
    <3> DEFINE s == IF o.filled + (m + n) >= o.amount THEN "Filled" ELSE "PartiallyFilled"
    <3>1. FilledBy(p, n) = [p EXCEPT !.filled = o.filled + (m + n), !.status = s]
      BY <2>4, <2>6 DEF FilledBy
    <3>2. FilledBy(o, m + n) = [o EXCEPT !.filled = o.filled + (m + n), !.status = s]
      BY DEF FilledBy
    <3>3. p = [o EXCEPT !.filled = o.filled + m, !.status = p.status]
      BY <2>1, <2>5 DEF FilledBy, Order
    <3> HIDE DEF s
    <3> QED BY <3>1, <3>2, <3>3, <2>5 DEF Order
  <2> QED BY <2>2, <2>3, <2>6, <2>7 DEF FilledOn
<1> QED BY <1>1, <1>2

-----------------------------------------------------------------------------
(* Lists.                                                                   *)

\* In front in price-time priority
Ahead(os, i, j) ==
  BetterPrice(os[i].side, os[i].price, os[j].price) \/ (os[i].price = os[j].price /\ i < j)

InQueue(o, key, side) == PairKey(o.base, o.quote) = key /\ o.side = side

Listed(list, i) == \E k \in DOMAIN list : list[k] = i

\* A list of ids in their priority
Ranked(os, list) == \A k, m \in DOMAIN list : k < m => Ahead(os, list[k], list[m])

\* The list of a queue: nothing but its orders, each live one, in their priority
ListOf(os, list, key, side) ==
  /\ list \in Seq(DOMAIN os)
  /\ \A k \in DOMAIN list : InQueue(os[list[k]], key, side)
  /\ Ranked(os, list)
  /\ \A i \in DOMAIN os : Live(os[i]) /\ InQueue(os[i], key, side) => Listed(list, i)

\* What a trade may have made of the orders: it fills live ones, and reaches one only
\* when the live ones in front of it in its queue are filled.
Advanced(os, ps) ==
  /\ ps \in Seq(Placed) /\ Len(ps) = Len(os)
  /\ \A i \in DOMAIN os : FilledOn(os[i], ps[i])
  /\ \A i, j \in DOMAIN os :
       /\ ps[j] # os[j] /\ Live(os[i])
       /\ InQueue(os[i], PairKey(os[j].base, os[j].quote), os[j].side) /\ Ahead(os, i, j)
       => ps[i].status = "Filled"

\* The order of a list is strict: what is in front stands earlier.
LEMMA AheadEarlier ==
  ASSUME NEW os \in Seq(Placed), NEW list \in Seq(DOMAIN os), Ranked(os, list),
         NEW k \in DOMAIN list, NEW m \in DOMAIN list,
         os[list[k]].side = os[list[m]].side, Ahead(os, list[k], list[m])
  PROVE  k < m
<1>1. /\ k \in Nat /\ m \in Nat /\ list[k] \in DOMAIN os /\ list[m] \in DOMAIN os
      /\ list[k] \in Nat /\ list[m] \in Nat
  OBVIOUS
<1>2. os[list[k]].price \in Nat /\ os[list[m]].price \in Nat
  <2>1. os[list[k]] \in Placed /\ os[list[m]] \in Placed
    BY <1>1
  <2> QED BY <2>1, PlacedTypes
<1>3. ~ Ahead(os, list[m], list[k]) /\ list[k] # list[m]
  BY <1>1, <1>2 DEF Ahead, BetterPrice
<1>4. k # m /\ ~ (m < k)
  BY <1>3 DEF Ranked
<1> QED BY <1>1, <1>4

\* The terms of the orders are all a ranking looks at.
LEMMA AheadKept ==
  ASSUME NEW os, NEW ps, NEW i, NEW j, SameTerms(os[i], ps[i]), SameTerms(os[j], ps[j])
  PROVE  Ahead(os, i, j) <=> Ahead(ps, i, j)
  BY DEF Ahead, SameTerms

\* The same orders, of which no more are live
NoMoreLive(os, ps) ==
  /\ DOMAIN ps = DOMAIN os
  /\ \A i \in DOMAIN os : SameTerms(os[i], ps[i]) /\ (Live(ps[i]) => Live(os[i]))

\* As long as no order comes to life, a list stays what it was.
LEMMA ListOfKept ==
  ASSUME NEW os \in Seq(Placed), NEW ps, NoMoreLive(os, ps), NEW list, NEW key, NEW side,
         ListOf(os, list, key, side)
  PROVE  ListOf(ps, list, key, side)
<1>1. DOMAIN ps = DOMAIN os
  BY DEF NoMoreLive
<1>2. \A i \in DOMAIN os : SameTerms(os[i], ps[i]) /\ (Live(ps[i]) => Live(os[i]))
  BY DEF NoMoreLive
<1>3. \A i \in DOMAIN os : InQueue(ps[i], key, side) <=> InQueue(os[i], key, side)
  BY <1>2 DEF InQueue, SameTerms
<1>4. list \in Seq(DOMAIN os)
  BY DEF ListOf
<1>5. Ranked(ps, list)
  <2> SUFFICES ASSUME NEW k \in DOMAIN list, NEW m \in DOMAIN list, k < m
               PROVE  Ahead(ps, list[k], list[m])
    BY DEF Ranked
  <2>1. list[k] \in DOMAIN os /\ list[m] \in DOMAIN os
    BY <1>4
  <2>2. Ahead(os, list[k], list[m])
    BY DEF ListOf, Ranked
  <2> QED BY <1>2, <2>1, <2>2, AheadKept
<1>6. \A k \in DOMAIN list : list[k] \in DOMAIN os
  BY <1>4
<1> QED BY <1>1, <1>2, <1>3, <1>4, <1>5, <1>6 DEF ListOf

LEMMA AdvancedNoMoreLive ==
  ASSUME NEW os \in Seq(Placed), NEW ps, Advanced(os, ps)
  PROVE  NoMoreLive(os, ps)
<1>1. DOMAIN ps = DOMAIN os
  BY DEF Advanced
<1>2. \A i \in DOMAIN os : os[i] \in Placed /\ FilledOn(os[i], ps[i])
  BY DEF Advanced
<1> QED BY <1>1, <1>2, FilledOnKeeps DEF NoMoreLive

\* Two trades in a row are one.
LEMMA AdvancedTwice ==
  ASSUME NEW os \in Seq(Placed), NEW ps, NEW qs, Advanced(os, ps), Advanced(ps, qs)
  PROVE  Advanced(os, qs)
<1>1. DOMAIN ps = DOMAIN os /\ Len(qs) = Len(os) /\ qs \in Seq(Placed) /\ ps \in Seq(Placed)
  BY DEF Advanced
<1>2. \A i \in DOMAIN os : os[i] \in Placed /\ ps[i] \in Placed
                           /\ FilledOn(os[i], ps[i]) /\ FilledOn(ps[i], qs[i])
  BY <1>1 DEF Advanced
<1>3. \A i \in DOMAIN os : FilledOn(os[i], qs[i])
  BY <1>2, FilledOnTwice
<1>4. ASSUME NEW i \in DOMAIN os, NEW j \in DOMAIN os, qs[j] # os[j], Live(os[i]),
             InQueue(os[i], PairKey(os[j].base, os[j].quote), os[j].side), Ahead(os, i, j)
      PROVE  qs[i].status = "Filled"
  <2>1. CASE ps[i].status = "Filled"
    <3>1. ~ Live(ps[i])
      BY <2>1 DEF Live, Open
    <3> QED BY <1>2, <2>1, <3>1 DEF FilledOn
  <2>2. CASE ps[i].status # "Filled"
    <3>1. ps[j] = os[j]
      BY <1>4, <2>2 DEF Advanced
    <3>2. Live(ps[i]) /\ SameTerms(os[i], ps[i]) /\ SameTerms(os[j], ps[j])
      BY <1>2, <1>4, <2>2, FilledOnKeeps
    <3>3. Ahead(ps, i, j) /\ InQueue(ps[i], PairKey(ps[j].base, ps[j].quote), ps[j].side)
      BY <1>4, <3>1, <3>2, AheadKept DEF InQueue, SameTerms
    <3> QED BY <1>1, <1>4, <3>1, <3>2, <3>3 DEF Advanced
  <2> QED BY <2>1, <2>2
<1> QED BY <1>1, <1>3, <1>4 DEF Advanced

-----------------------------------------------------------------------------
(* The walk over a list.                                                    *)

\* g is the recursion of Visits up to the n-th entry.
IsVisits(g, run, trader, leg, list, n) ==
  g = [k \in 0..n |-> IF k = 0 THEN [run EXCEPT !.kept = << >>]
                      ELSE Visit(g[k - 1], trader, leg, list[k])]

LEMMA VisitsExist ==
  ASSUME NEW run, NEW trader, NEW leg, NEW list, NEW n \in Nat
  PROVE  \E g : IsVisits(g, run, trader, leg, list, n)
<1> DEFINE S == {m \in Nat : \E g : IsVisits(g, run, trader, leg, list, m)}
<1>1. 0 \in S
  <2> DEFINE g == [k \in 0..0 |-> [run EXCEPT !.kept = << >>]]
  <2>1. IsVisits(g, run, trader, leg, list, 0)
    BY DEF IsVisits
  <2> QED BY <2>1
<1>2. ASSUME NEW m \in Nat, m \in S PROVE m + 1 \in S
  <2>1. PICK g : IsVisits(g, run, trader, leg, list, m)
    BY <1>2
  <2> DEFINE h == [k \in 0..(m + 1) |-> IF k = m + 1 THEN Visit(g[m], trader, leg, list[m + 1])
                                        ELSE g[k]]
             r == [k \in 0..(m + 1) |-> IF k = 0 THEN [run EXCEPT !.kept = << >>]
                                        ELSE Visit(h[k - 1], trader, leg, list[k])]
  <2>2. ASSUME NEW k \in 0..(m + 1) PROVE h[k] = r[k]
    <3>1. CASE k = m + 1
      <4>1. k # 0 /\ k - 1 = m /\ m \in 0..(m + 1) /\ m # m + 1
        BY <3>1
      <4>2. h[k] = Visit(g[m], trader, leg, list[m + 1]) /\ h[k - 1] = g[m]
        BY <3>1, <4>1
      <4> QED BY <3>1, <4>1, <4>2
    <3>2. CASE k # m + 1
      <4>1. k \in 0..m /\ (k # 0 => k - 1 \in 0..m /\ k - 1 \in 0..(m + 1) /\ k - 1 # m + 1)
        BY <3>2
      <4>2. g[k] = IF k = 0 THEN [run EXCEPT !.kept = << >>]
                   ELSE Visit(g[k - 1], trader, leg, list[k])
        BY <2>1, <4>1 DEF IsVisits
      <4>3. h[k] = g[k] /\ (k # 0 => h[k - 1] = g[k - 1])
        BY <3>2, <4>1
      <4> QED BY <4>2, <4>3
    <3> QED BY <3>1, <3>2
  <2>3. h = r
    <3> HIDE DEF r
    <3>1. h = [k \in 0..(m + 1) |-> h[k]] /\ r = [k \in 0..(m + 1) |-> r[k]]
      BY DEF h, r
    <3> HIDE DEF h
    <3> QED BY <2>2, <3>1
  <2>4. IsVisits(h, run, trader, leg, list, m + 1)
    <3> HIDE DEF h
    <3> QED BY <2>3 DEF IsVisits
  <2> QED BY <2>4
<1>3. n \in S
  <2> HIDE DEF S
  <2> QED BY <1>1, <1>2, NatSetInduction
<1> QED BY <1>3

LEMMA VisitsDef ==
  ASSUME NEW run, NEW trader, NEW leg, NEW list, Len(list) \in Nat
  PROVE  /\ Visits(run, trader, leg, list)[0] = [run EXCEPT !.kept = << >>]
         /\ \A k \in 1..Len(list) :
              Visits(run, trader, leg, list)[k] =
                Visit(Visits(run, trader, leg, list)[k - 1], trader, leg, list[k])
<1> DEFINE n == Len(list)
           g == Visits(run, trader, leg, list)
<1>1. \E h : IsVisits(h, run, trader, leg, list, n)
  BY VisitsExist
<1>2. IsVisits(g, run, trader, leg, list, n)
  BY <1>1 DEF Visits, IsVisits
<1> HIDE DEF g
<1>3. 0 \in 0..n /\ \A k \in 1..n : k \in 0..n /\ k # 0
  OBVIOUS
<1>4. \A k \in 0..n : g[k] = IF k = 0 THEN [run EXCEPT !.kept = << >>]
                             ELSE Visit(g[k - 1], trader, leg, list[k])
  BY <1>2 DEF IsVisits
<1> QED BY <1>3, <1>4 DEF g

\* Every listed id was met before.
From(kept, list, n) == \A a \in DOMAIN kept : \E m \in 1..n : kept[a] = list[m]

\* The next id joins the ones that stay behind all of them.
LEMMA KeptGrows ==
  ASSUME NEW os, NEW list \in Seq(DOMAIN os), Ranked(os, list), NEW n \in 1..Len(list),
         NEW kept \in Seq(DOMAIN os), From(kept, list, n - 1), Ranked(os, kept)
  PROVE  /\ Append(kept, list[n]) \in Seq(DOMAIN os)
         /\ From(Append(kept, list[n]), list, n) /\ Ranked(os, Append(kept, list[n]))
         /\ Listed(Append(kept, list[n]), list[n])
         /\ \A i : Listed(kept, i) => Listed(Append(kept, list[n]), i)
<1> DEFINE new == Append(kept, list[n])
<1>1. list[n] \in DOMAIN os /\ Len(kept) \in Nat /\ DOMAIN kept = 1..Len(kept) /\ DOMAIN list = 1..Len(list)
  OBVIOUS
<1>2. /\ new \in Seq(DOMAIN os) /\ Len(new) = Len(kept) + 1 /\ DOMAIN new = 1..(Len(kept) + 1)
      /\ \A a \in 1..Len(kept) : new[a] = kept[a]
      /\ new[Len(kept) + 1] = list[n]
  BY <1>1, AppendProperties
<1> HIDE DEF new
<1>3. From(new, list, n)
  <2> SUFFICES ASSUME NEW a \in 1..(Len(kept) + 1) PROVE \E m \in 1..n : new[a] = list[m]
    BY <1>2 DEF From
  <2>1. CASE a \in 1..Len(kept)
    <3>1. PICK m \in 1..(n - 1) : kept[a] = list[m]
      BY <1>1, <2>1 DEF From
    <3>2. m \in 1..n
      OBVIOUS
    <3> QED BY <1>2, <2>1, <3>1, <3>2
  <2>2. CASE a = Len(kept) + 1
    BY <1>2, <2>2
  <2> QED BY <1>1, <2>1, <2>2
<1>4. Ranked(os, new)
  <2> SUFFICES ASSUME NEW a \in 1..(Len(kept) + 1), NEW b \in 1..(Len(kept) + 1), a < b
               PROVE  Ahead(os, new[a], new[b])
    BY <1>2 DEF Ranked
  <2>1. a \in 1..Len(kept) /\ new[a] = kept[a]
    BY <1>1, <1>2
  <2>2. CASE b \in 1..Len(kept)
    BY <1>1, <1>2, <2>1, <2>2 DEF Ranked
  <2>3. CASE b = Len(kept) + 1
    <3>1. PICK m \in 1..(n - 1) : kept[a] = list[m]
      BY <1>1, <2>1 DEF From
    <3>2. m \in DOMAIN list /\ n \in DOMAIN list /\ m < n
      BY <1>1
    <3>3. Ahead(os, list[m], list[n])
      BY <3>2 DEF Ranked
    <3> QED BY <1>2, <2>1, <2>3, <3>1, <3>3
  <2> QED BY <1>1, <2>2, <2>3
<1>5. Listed(new, list[n])
  <2>1. Len(kept) + 1 \in DOMAIN new
    BY <1>1, <1>2
  <2> QED BY <1>2, <2>1 DEF Listed
<1>6. \A i : Listed(kept, i) => Listed(new, i)
  <2> SUFFICES ASSUME NEW i, NEW a \in DOMAIN kept, kept[a] = i PROVE Listed(new, i)
    BY DEF Listed
  <2>1. a \in DOMAIN new /\ new[a] = i
    BY <1>1, <1>2
  <2> QED BY <2>1 DEF Listed
<1> QED BY <1>2, <1>3, <1>4, <1>5, <1>6 DEF new

\* A better price is within any limit a worse one keeps.
LEMMA WithinLimitOfAhead ==
  ASSUME NEW os \in Seq(Placed), NEW leg \in TradeLeg, NEW i \in DOMAIN os, NEW j \in DOMAIN os,
         os[i].side = Opposite(leg.side), Ahead(os, i, j), WithinLimit(leg, os[j].price)
  PROVE  WithinLimit(leg, os[i].price)
<1>1. os[i] \in Placed /\ os[j] \in Placed
  OBVIOUS
<1>2. os[i].price \in Nat /\ os[j].price \in Nat /\ leg.limit \in Nat /\ leg.side \in Sides
  BY <1>1, PlacedTypes DEF TradeLeg
<1> QED BY <1>2 DEF WithinLimit, Ahead, BetterPrice, Opposite, Sides

\* What a walk has done after the n-th entry of the list of a queue: everything it
\* passed, in reach of the limit and live, is filled as long as there is a rest.
Walked(os, run, leg, list, n) ==
  /\ run.balance \in Balances /\ run.rest \in Int /\ run.quoted \in Int
  /\ Advanced(os, run.orders)
  /\ \A i \in DOMAIN os : (\A m \in 1..n : list[m] # i) => run.orders[i] = os[i]
  /\ run.rest > 0 => \A m \in 1..n : Live(os[list[m]]) /\ WithinLimit(leg, os[list[m]].price)
                                       => run.orders[list[m]].status = "Filled"
  /\ run.kept \in Seq(DOMAIN os) /\ From(run.kept, list, n) /\ Ranked(os, run.kept)
  /\ \A m \in 1..n : Live(run.orders[list[m]]) => Listed(run.kept, list[m])

\* An entry of a ranked list stands in it once.
LEMMA ListedOnce ==
  ASSUME NEW os \in Seq(Placed), NEW list \in Seq(DOMAIN os), Ranked(os, list),
         NEW n \in 1..Len(list), NEW m \in 1..(n - 1)
  PROVE  list[m] # list[n]
<1>1. m \in DOMAIN list /\ n \in DOMAIN list /\ m < n /\ list[m] \in DOMAIN os /\ list[m] \in Nat
  OBVIOUS
<1>2. os[list[m]] \in Placed
  BY <1>1
<1>3. os[list[m]].price \in Nat
  BY <1>2, PlacedTypes
<1>4. Ahead(os, list[m], list[n])
  BY <1>1 DEF Ranked
<1> QED BY <1>1, <1>3, <1>4 DEF Ahead, BetterPrice

\* A walk for a leg comes to the n-th entry.
Walking(os, run, leg, list, n) ==
  /\ os \in Seq(Placed) /\ IsRun(run) /\ leg \in TradeLeg
  /\ ListOf(os, list, PairKey(leg.base, leg.quote), Opposite(leg.side))
  /\ n \in 1..Len(list)
  /\ Walked(os, run, leg, list, n - 1)

\* What the next entry looks like before it is visited.
LEMMA NextEntry ==
  ASSUME NEW os, NEW run, NEW leg, NEW list, NEW n, Walking(os, run, leg, list, n)
  PROVE  /\ list \in Seq(DOMAIN os) /\ Ranked(os, list)
         /\ list[n] \in DOMAIN os /\ os[list[n]] \in Placed
         /\ run.orders \in Seq(Placed) /\ DOMAIN run.orders = DOMAIN os
         /\ run.orders[list[n]] = os[list[n]]
         /\ InQueue(os[list[n]], PairKey(leg.base, leg.quote), Opposite(leg.side))
<1>0. os \in Seq(Placed) /\ n \in 1..Len(list) /\ Walked(os, run, leg, list, n - 1)
  BY DEF Walking
<1>1. list \in Seq(DOMAIN os) /\ Ranked(os, list)
  BY DEF Walking, ListOf
<1>2. n \in DOMAIN list /\ list[n] \in DOMAIN os /\ os[list[n]] \in Placed
  BY <1>0, <1>1
<1>3. run.orders \in Seq(Placed) /\ DOMAIN run.orders = DOMAIN os
  BY <1>0 DEF Walked, Advanced
<1>4. \A m \in 1..(n - 1) : list[m] # list[n]
  BY <1>0, <1>1, ListedOnce
<1>5. run.orders[list[n]] = os[list[n]]
  BY <1>0, <1>2, <1>4 DEF Walked
<1> QED BY <1>1, <1>2, <1>3, <1>5 DEF Walking, ListOf

\* An entry that is out of reach stays.
LEMMA WalkPast ==
  ASSUME NEW os, NEW run, NEW leg, NEW list, NEW n, Walking(os, run, leg, list, n),
         run.rest <= 0 \/ ~ WithinLimit(leg, run.orders[list[n]].price)
  PROVE  Walked(os, [run EXCEPT !.kept = Append(@, list[n])], leg, list, n)
<1> DEFINE after == [run EXCEPT !.kept = Append(@, list[n])]
<1>0. IsRun(run) /\ n \in 1..Len(list) /\ Walked(os, run, leg, list, n - 1)
  BY DEF Walking
<1>1. /\ after.balance = run.balance /\ after.rest = run.rest /\ after.quoted = run.quoted
      /\ after.orders = run.orders /\ after.kept = Append(run.kept, list[n])
  BY <1>0 DEF IsRun
<1> HIDE DEF after
<1>2. /\ list \in Seq(DOMAIN os) /\ Ranked(os, list) /\ list[n] \in DOMAIN os
      /\ run.orders[list[n]] = os[list[n]]
  BY NextEntry
<1>3. /\ after.kept \in Seq(DOMAIN os) /\ From(after.kept, list, n) /\ Ranked(os, after.kept)
      /\ Listed(after.kept, list[n]) /\ \A i : Listed(run.kept, i) => Listed(after.kept, i)
  BY <1>0, <1>1, <1>2, KeptGrows DEF Walked
<1>4. \A m \in 1..n : m \in 1..(n - 1) \/ m = n
  BY <1>0
<1>5. after.rest > 0 => \A m \in 1..n : Live(os[list[m]]) /\ WithinLimit(leg, os[list[m]].price)
                                          => after.orders[list[m]].status = "Filled"
  BY <1>0, <1>1, <1>2, <1>4 DEF Walked
<1>6. \A m \in 1..n : Live(after.orders[list[m]]) => Listed(after.kept, list[m])
  BY <1>0, <1>1, <1>3, <1>4 DEF Walked
<1>7. \A i \in DOMAIN os : (\A m \in 1..n : list[m] # i) => after.orders[i] = os[i]
  <2>1. \A m \in 1..(n - 1) : m \in 1..n
    BY <1>0
  <2> QED BY <1>0, <1>1, <2>1 DEF Walked
<1> QED BY <1>0, <1>1, <1>3, <1>5, <1>6, <1>7 DEF Walked, after

\* One that is closed or expired goes.
LEMMA WalkOver ==
  ASSUME NEW os, NEW run, NEW leg, NEW list, NEW n, Walking(os, run, leg, list, n),
         ~ Live(run.orders[list[n]])
  PROVE  Walked(os, run, leg, list, n)
<1>0. n \in 1..Len(list) /\ Walked(os, run, leg, list, n - 1)
  BY DEF Walking
<1>1. run.orders[list[n]] = os[list[n]]
  BY NextEntry
<1>2. \A m \in 1..n : m \in 1..(n - 1) \/ m = n
  BY <1>0
<1>3. run.rest > 0 => \A m \in 1..n : Live(os[list[m]]) /\ WithinLimit(leg, os[list[m]].price)
                                        => run.orders[list[m]].status = "Filled"
  BY <1>0, <1>1, <1>2 DEF Walked
<1>4. \A m \in 1..n : Live(run.orders[list[m]]) => Listed(run.kept, list[m])
  BY <1>0, <1>2 DEF Walked
<1>5. From(run.kept, list, n)
  <2> SUFFICES ASSUME NEW a \in DOMAIN run.kept PROVE \E m \in 1..n : run.kept[a] = list[m]
    BY DEF From
  <2>1. PICK m \in 1..(n - 1) : run.kept[a] = list[m]
    BY <1>0 DEF Walked, From
  <2>2. m \in 1..n
    BY <1>0
  <2> QED BY <2>1, <2>2
<1>6. \A i \in DOMAIN os : (\A m \in 1..n : list[m] # i) => run.orders[i] = os[i]
  <2>1. \A m \in 1..(n - 1) : m \in 1..n
    BY <1>0
  <2> QED BY <1>0, <2>1 DEF Walked
<1> QED BY <1>0, <1>3, <1>4, <1>5, <1>6 DEF Walked

\* The orders after a fill in the walk.
LEMMA FillAdvances ==
  ASSUME NEW os, NEW run, NEW leg, NEW list, NEW n, Walking(os, run, leg, list, n),
         run.rest > 0, Live(run.orders[list[n]]),
         WithinLimit(leg, run.orders[list[n]].price), NEW base \in 1..Unfilled(run.orders[list[n]])
  PROVE  Advanced(os, [run.orders EXCEPT ![list[n]] = FilledBy(run.orders[list[n]], base)])
<1> DEFINE key == PairKey(leg.base, leg.quote)
           id == list[n]
           o  == os[id]
           p  == FilledBy(o, base)
           ps == [run.orders EXCEPT ![id] = p]
<1>0. /\ os \in Seq(Placed) /\ leg \in TradeLeg /\ n \in 1..Len(list)
      /\ Walked(os, run, leg, list, n - 1)
      /\ ListOf(os, list, key, Opposite(leg.side))
  BY DEF Walking
<1>1. /\ list \in Seq(DOMAIN os) /\ Ranked(os, list) /\ id \in DOMAIN os /\ o \in Placed
      /\ run.orders \in Seq(Placed) /\ DOMAIN run.orders = DOMAIN os /\ Len(run.orders) = Len(os)
      /\ run.orders[id] = o /\ InQueue(o, key, Opposite(leg.side))
  BY <1>0, NextEntry DEF Walked, Advanced
<1>2. p \in Placed /\ SameTerms(o, p) /\ FilledOn(o, p)
  BY <1>1, FilledByEffect DEF FilledOn, Live
<1> HIDE DEF p
<1>3. /\ ps \in Seq(Placed) /\ Len(ps) = Len(os) /\ ps[id] = p
      /\ \A i \in DOMAIN os : i # id => ps[i] = run.orders[i]
  BY <1>1, <1>2, ExceptSeq
<1> HIDE DEF ps
<1>4. \A i \in DOMAIN os : FilledOn(os[i], ps[i])
  BY <1>0, <1>2, <1>3 DEF Walked, Advanced
<1>5. ASSUME NEW i \in DOMAIN os, NEW j \in DOMAIN os, ps[j] # os[j], Live(os[i]),
             InQueue(os[i], PairKey(os[j].base, os[j].quote), os[j].side), Ahead(os, i, j)
      PROVE  ps[i].status = "Filled"
  <2>1. CASE j # id
    <3>1. run.orders[i].status = "Filled"
      BY <1>0, <1>3, <1>5, <2>1 DEF Walked, Advanced
    <3>2. i # id
      <4>1. ~ Live(run.orders[i])
        BY <3>1 DEF Live, Open
      <4> QED BY <1>1, <1>5, <4>1
    <3> QED BY <1>3, <3>1, <3>2
  <2>2. CASE j = id
    <3>1. InQueue(os[i], key, Opposite(leg.side))
      BY <1>1, <1>5, <2>2 DEF InQueue
    <3>2. PICK m \in DOMAIN list : list[m] = i
      BY <1>0, <1>5, <3>1 DEF ListOf, Listed
    <3>3. n \in DOMAIN list
      BY <1>0, <1>1
    <3>4. m < n
      <4>1. Ahead(os, list[m], list[n]) /\ os[list[m]].side = os[list[n]].side
        BY <1>1, <1>5, <2>2, <3>1, <3>2 DEF InQueue
      <4> QED BY <1>0, <1>1, <3>3, <4>1, AheadEarlier
    <3>5. m \in 1..(n - 1)
      BY <1>0, <1>1, <3>4
    <3>6. WithinLimit(leg, os[i].price)
      <4>1. os[i].side = Opposite(leg.side) /\ Ahead(os, i, id) /\ WithinLimit(leg, os[id].price)
        BY <1>1, <1>5, <2>2, <3>1 DEF InQueue
      <4> QED BY <1>0, <1>1, <1>5, <4>1, WithinLimitOfAhead
    <3>7. run.orders[i].status = "Filled"
      BY <1>0, <1>5, <3>2, <3>5, <3>6 DEF Walked
    <3>8. i # id
      BY <1>0, <1>1, <3>2, <3>5, ListedOnce
    <3> QED BY <1>3, <3>7, <3>8
  <2> QED BY <2>1, <2>2
<1>6. Advanced(os, ps)
  BY <1>3, <1>4, <1>5 DEF Advanced
<1> QED BY <1>1, <1>6 DEF ps, p

\* How much an order takes of a rest.
LEMMA TakenOfRest ==
  ASSUME NEW o \in Placed, Open(o), NEW rest \in Int, rest > 0
  PROVE  /\ Least(rest, Unfilled(o)) \in 1..Unfilled(o)
         /\ rest - Least(rest, Unfilled(o)) >= 0
         /\ rest - Least(rest, Unfilled(o)) > 0 => Least(rest, Unfilled(o)) = Unfilled(o)
<1>1. o.amount \in Nat /\ o.filled \in Nat /\ o.filled < o.amount
  BY PlacedTypes DEF Placed
<1> QED BY <1>1 DEF Least, Unfilled

\* What is quoted for a natural amount is a natural number.
LEMMA QuoteNat ==
  ASSUME NEW amount \in Nat, NEW price \in Nat
  PROVE  QuoteOf(amount, price) \in Nat
<1>1. amount * price \in Nat
  OBVIOUS
<1>2. Least(amount * price, MaxU128) \in Nat
  BY <1>1, ScaleAssumption DEF Least
<1> QED BY <1>2, ScaleAssumption DEF QuoteOf

\* One that is in reach is filled.
LEMMA WalkFill ==
  ASSUME NEW os, NEW run, NEW leg, NEW list, NEW n, Walking(os, run, leg, list, n),
         run.rest > 0, Live(run.orders[list[n]]), WithinLimit(leg, run.orders[list[n]].price),
         NEW trader \in Parties, Fill(run, trader, leg, list[n]).ok
  PROVE  Walked(os, Fill(run, trader, leg, list[n]), leg, list, n)
<1> DEFINE id == list[n]
           o == os[id]
           base == Least(run.rest, Unfilled(o))
           quote == QuoteOf(base, o.price)
           p == FilledBy(o, base)
           after == Fill(run, trader, leg, id)
           done == Settle(run, trader, leg, o.owner, base, quote)
<1>0. /\ os \in Seq(Placed) /\ IsRun(run) /\ leg \in TradeLeg /\ n \in 1..Len(list)
      /\ Walked(os, run, leg, list, n - 1)
  BY DEF Walking
<1>1. /\ list \in Seq(DOMAIN os) /\ Ranked(os, list) /\ id \in DOMAIN os /\ o \in Placed
      /\ run.orders \in Seq(Placed) /\ DOMAIN run.orders = DOMAIN os
      /\ run.orders[id] = o
  BY NextEntry
<1>2. run.rest \in Int /\ run.quoted \in Int /\ run.balance \in Balances
  BY <1>0 DEF Walked
<1>3. Open(o) /\ base \in 1..Unfilled(o) /\ base \in Nat
      /\ run.rest - base \in Int
      /\ (run.rest - base > 0 => base = Unfilled(o))
  <2>1. Open(o)
    BY <1>1 DEF Live
  <2>2. base \in 1..Unfilled(o) /\ (run.rest - base > 0 => base = Unfilled(o))
    BY <1>1, <1>2, <2>1, TakenOfRest
  <2> HIDE DEF base
  <2> QED BY <1>2, <2>1, <2>2
<1>4. o.owner \in Parties /\ o.owner \in Accounts /\ quote \in Nat
  <2>1. o.owner \in Parties /\ o.price \in Nat
    BY <1>1, PlacedTypes
  <2> QED BY <1>3, <2>1, PartyAccounts, QuoteNat
<1>5. /\ IsRun(after) /\ after.orders = [run.orders EXCEPT ![id] = p]
      /\ after.rest = run.rest - base /\ after.quoted = run.quoted + quote
      /\ after.balance = done.balance /\ after.ok = done.ok
      /\ after.kept = IF p.status = "Filled" THEN run.kept ELSE Append(run.kept, id)
  <2>1. id \in DOMAIN run.orders
    BY <1>1
  <2>2. IsFill(run, trader, leg, id, Fill(run, trader, leg, id))
    BY <1>0, <2>1, FillFields
  <2> QED BY <1>1, <2>2 DEF IsFill
<1>6. after.balance \in Balances
  BY <1>0, <1>2, <1>3, <1>4, <1>5, SettleBalance
<1>7. Advanced(os, after.orders)
  BY <1>1, <1>3, <1>5, FillAdvances
<1>8. p.status = IF o.filled + base = o.amount THEN "Filled" ELSE "PartiallyFilled"
  BY <1>1, <1>3, FilledByEffect
<1>9. base = Unfilled(o) => p.status = "Filled"
  BY <1>1, <1>8, PlacedTypes DEF Unfilled
<1> HIDE DEF base, quote, p, after, done
<1>10. /\ after.orders[id] = p
       /\ \A i \in DOMAIN os : i # id => after.orders[i] = run.orders[i]
  BY <1>1, <1>5
<1>11. \A m \in 1..n : m \in 1..(n - 1) \/ m = n
  BY <1>0
<1>12. \A m \in 1..(n - 1) : m \in 1..n /\ list[m] \in DOMAIN os /\ list[m] # id
  BY <1>0, <1>1, ListedOnce
<1>13. after.rest > 0 => \A m \in 1..n : Live(os[list[m]]) /\ WithinLimit(leg, os[list[m]].price)
                                           => after.orders[list[m]].status = "Filled"
  <2> SUFFICES ASSUME after.rest > 0, NEW m \in 1..n, Live(os[list[m]]),
                      WithinLimit(leg, os[list[m]].price)
               PROVE  after.orders[list[m]].status = "Filled"
    OBVIOUS
  <2>1. CASE m = n
    BY <1>3, <1>5, <1>9, <1>10, <2>1
  <2>2. CASE m \in 1..(n - 1)
    BY <1>0, <1>10, <1>12, <2>2 DEF Walked
  <2> QED BY <1>11, <2>1, <2>2
<1>14. \A i \in DOMAIN os : (\A m \in 1..n : list[m] # i) => after.orders[i] = os[i]
  <2> SUFFICES ASSUME NEW i \in DOMAIN os, \A m \in 1..n : list[m] # i
               PROVE  after.orders[i] = os[i]
    OBVIOUS
  <2>1. i # id
    BY <1>0
  <2>2. run.orders[i] = os[i]
    BY <1>0, <1>12 DEF Walked
  <2> QED BY <1>10, <2>1, <2>2
<1>15. /\ after.kept \in Seq(DOMAIN os) /\ From(after.kept, list, n) /\ Ranked(os, after.kept)
       /\ p.status # "Filled" => Listed(after.kept, id)
       /\ \A i : Listed(run.kept, i) => Listed(after.kept, i)
  <2>1. CASE p.status = "Filled"
    <3>1. From(run.kept, list, n)
      <4> SUFFICES ASSUME NEW a \in DOMAIN run.kept PROVE \E m \in 1..n : run.kept[a] = list[m]
        BY DEF From
      <4>1. PICK m \in 1..(n - 1) : run.kept[a] = list[m]
        BY <1>0 DEF Walked, From
      <4> QED BY <1>12, <4>1
    <3> QED BY <1>0, <1>5, <2>1, <3>1 DEF Walked
  <2>2. CASE p.status # "Filled"
    BY <1>0, <1>1, <1>5, <2>2, KeptGrows DEF Walked
  <2> QED BY <2>1, <2>2
<1>16. \A m \in 1..n : Live(after.orders[list[m]]) => Listed(after.kept, list[m])
  <2> SUFFICES ASSUME NEW m \in 1..n, Live(after.orders[list[m]]) PROVE Listed(after.kept, list[m])
    OBVIOUS
  <2>1. CASE m = n
    BY <1>10, <1>15, <2>1 DEF Live, Open
  <2>2. CASE m \in 1..(n - 1)
    BY <1>0, <1>10, <1>12, <1>15, <2>2 DEF Walked
  <2> QED BY <1>11, <2>1, <2>2
<1>17. after.rest \in Int /\ after.quoted \in Int
  BY <1>2, <1>3, <1>4, <1>5
<1> QED BY <1>6, <1>7, <1>13, <1>14, <1>15, <1>16, <1>17 DEF Walked, after

\* Whatever a visit does, it leaves the lists and pools, and a refusal stands.
LEMMA VisitKeeps ==
  ASSUME NEW run, IsRun(run), NEW trader, NEW leg, NEW id
  PROVE  LET after == Visit(run, trader, leg, id)
         IN /\ IsRun(after) /\ after.book = run.book /\ after.pools = run.pools
            /\ after.ok => run.ok
<1> DEFINE after == Visit(run, trader, leg, id)
           passed == [run EXCEPT !.kept = Append(@, id)]
           end == FillOrder(run, trader, leg, id)
           base == Least(run.rest, Unfilled(run.orders[id]))
           done == Settle(run, trader, leg, run.orders[id].owner, base,
                          QuoteOf(base, run.orders[id].price))
<1>1. IsRun(done) /\ done.book = run.book /\ done.pools = run.pools /\ (done.ok => run.ok)
  BY SettleFields
<1>2. end = [done EXCEPT !.orders[id] = FilledBy(run.orders[id], base)]
  BY DEF FillOrder
<1> HIDE DEF done
<1>3. IsRun(end) /\ end.book = run.book /\ end.pools = run.pools /\ (end.ok => run.ok)
  BY <1>1, <1>2 DEF IsRun
<1> HIDE DEF end
<1>4. LET filled == Fill(run, trader, leg, id)
      IN IsRun(filled) /\ filled.book = run.book /\ filled.pools = run.pools
         /\ (filled.ok => run.ok)
  BY <1>3 DEF Fill, IsRun, end
<1>5. IsRun(passed) /\ passed.book = run.book /\ passed.pools = run.pools
      /\ (passed.ok => run.ok)
  BY DEF IsRun
<1>6. after = passed \/ after = run \/ after = Fill(run, trader, leg, id)
  <2> HIDE DEF passed
  <2> QED BY DEF Visit, passed
<1> QED BY <1>4, <1>5, <1>6

\* One step of the walk, whatever it is.
LEMMA WalkStep ==
  ASSUME NEW os, NEW run, NEW leg, NEW list, NEW n, Walking(os, run, leg, list, n),
         NEW trader \in Parties, Visit(run, trader, leg, list[n]).ok
  PROVE  Walked(os, Visit(run, trader, leg, list[n]), leg, list, n)
<1> DEFINE after == Visit(run, trader, leg, list[n])
<1>1. run.rest \in Int
  BY DEF Walking, Walked
<1>2. CASE /\ after = [run EXCEPT !.kept = Append(@, list[n])]
           /\ run.rest <= 0 \/ ~ WithinLimit(leg, run.orders[list[n]].price)
  BY <1>2, WalkPast
<1>3. CASE after = run /\ ~ Live(run.orders[list[n]])
  BY <1>3, WalkOver
<1>4. CASE /\ after = Fill(run, trader, leg, list[n]) /\ run.rest > 0
           /\ Live(run.orders[list[n]]) /\ WithinLimit(leg, run.orders[list[n]].price)
  BY <1>4, WalkFill
<1> HIDE DEF after
<1>5. \/ /\ after = [run EXCEPT !.kept = Append(@, list[n])]
         /\ run.rest <= 0 \/ ~ WithinLimit(leg, run.orders[list[n]].price)
      \/ after = run /\ ~ Live(run.orders[list[n]])
      \/ /\ after = Fill(run, trader, leg, list[n]) /\ run.rest > 0
         /\ Live(run.orders[list[n]]) /\ WithinLimit(leg, run.orders[list[n]].price)
  BY <1>1, VisitCases DEF after
<1> QED BY <1>2, <1>3, <1>4, <1>5 DEF after

-----------------------------------------------------------------------------
(* Matching against a list.                                                 *)

\* The list of one queue of a book whose lists are all what they should be
Book(os, bk) ==
  /\ bk \in [PairKeys -> [Sides -> Seq(DOMAIN os)]]
  /\ \A key \in PairKeys, side \in Sides : ListOf(os, bk[key][side], key, side)

\* A run that a leg may start from
Ready(run) ==
  /\ IsRun(run) /\ run.orders \in Seq(Placed) /\ Book(run.orders, run.book)
  /\ run.balance \in Balances /\ run.rest \in Int /\ run.quoted \in Int

Facing(run, leg) == run.book[PairKey(leg.base, leg.quote)][Opposite(leg.side)]

MatchingLeg(leg) == leg \in TradeLeg /\ leg.base # leg.quote

LEMMA FacingList ==
  ASSUME NEW run, NEW leg, Ready(run), MatchingLeg(leg)
  PROVE  /\ PairKey(leg.base, leg.quote) \in PairKeys /\ Opposite(leg.side) \in Sides
         /\ ListOf(run.orders, Facing(run, leg), PairKey(leg.base, leg.quote), Opposite(leg.side))
<1>1. leg.base \in Assets /\ leg.quote \in Assets /\ leg.base # leg.quote
  BY DEF MatchingLeg, TradeLeg
<1>2. <<leg.base, leg.quote>> \in AssetPairs
  BY <1>1 DEF AssetPairs
<1>3. PairKey(leg.base, leg.quote) \in PairKeys
  BY <1>2 DEF PairKeys
<1>4. Opposite(leg.side) \in Sides
  BY DEF Opposite, Sides
<1> QED BY <1>3, <1>4 DEF Ready, Book, Facing

\* Nothing traded is an advance.
LEMMA AdvancedNone == ASSUME NEW os \in Seq(Placed) PROVE Advanced(os, os)
  BY DEF Advanced, FilledOn

\* The walk through the whole list.
LEMMA VisitsWalk ==
  ASSUME NEW run, NEW leg, Ready(run), MatchingLeg(leg), NEW trader \in Parties,
         NEW n \in 0..Len(Facing(run, leg))
  PROVE  LET list == Facing(run, leg)
             after == Visits(run, trader, leg, list)[n]
         IN /\ IsRun(after) /\ after.book = run.book /\ after.pools = run.pools
            /\ after.ok => run.ok /\ Walked(run.orders, after, leg, list, n)
<1> DEFINE list == Facing(run, leg)
           os == run.orders
           v == Visits(run, trader, leg, list)
           Good(m) == /\ IsRun(v[m]) /\ v[m].book = run.book /\ v[m].pools = run.pools
                      /\ v[m].ok => run.ok /\ Walked(os, v[m], leg, list, m)
           S == {m \in Nat : m <= Len(list) => Good(m)}
<1>0. /\ os \in Seq(Placed) /\ IsRun(run) /\ leg \in TradeLeg /\ run.balance \in Balances
      /\ run.rest \in Int /\ run.quoted \in Int
      /\ ListOf(os, list, PairKey(leg.base, leg.quote), Opposite(leg.side))
      /\ Len(list) \in Nat
  <2>1. ListOf(os, list, PairKey(leg.base, leg.quote), Opposite(leg.side))
    BY FacingList
  <2>2. list \in Seq(DOMAIN os)
    BY <2>1 DEF ListOf
  <2> QED BY <2>1, <2>2 DEF Ready, MatchingLeg
<1>1. /\ v[0] = [run EXCEPT !.kept = << >>]
      /\ \A k \in 1..Len(list) : v[k] = Visit(v[k - 1], trader, leg, list[k])
  BY <1>0, VisitsDef
<1> HIDE DEF v, list
<1>2. 0 \in S
  <2>1. /\ IsRun(v[0]) /\ v[0].book = run.book /\ v[0].pools = run.pools /\ v[0].ok = run.ok
        /\ v[0].orders = os /\ v[0].balance = run.balance /\ v[0].rest = run.rest
        /\ v[0].quoted = run.quoted /\ v[0].kept = << >>
    BY <1>0, <1>1 DEF IsRun
  <2>2. Advanced(os, os)
    BY <1>0, AdvancedNone
  <2>3. From(<< >>, list, 0) /\ Ranked(os, << >>) /\ << >> \in Seq(DOMAIN os)
    BY DEF From, Ranked
  <2>4. Walked(os, v[0], leg, list, 0)
    BY <1>0, <2>1, <2>2, <2>3 DEF Walked
  <2> QED BY <2>1, <2>4
<1>3. \A m \in Nat : m \in S => m + 1 \in S
  <2> SUFFICES ASSUME NEW m \in Nat, m + 1 <= Len(list), Good(m) PROVE Good(m + 1)
    BY <1>0
  <2>1. m + 1 \in 1..Len(list) /\ (m + 1) - 1 = m
    BY <1>0
  <2>2. v[m + 1] = Visit(v[m], trader, leg, list[m + 1])
    BY <1>1, <2>1
  <2>3. /\ IsRun(v[m + 1]) /\ v[m + 1].book = run.book /\ v[m + 1].pools = run.pools
        /\ v[m + 1].ok => v[m].ok
    BY <2>2, VisitKeeps
  <2>4. ASSUME v[m + 1].ok PROVE run.ok /\ Walked(os, v[m + 1], leg, list, m + 1)
    <3>1. run.ok /\ Walked(os, v[m], leg, list, m)
      BY <2>3, <2>4
    <3>2. Walking(os, v[m], leg, list, m + 1)
      BY <1>0, <2>1, <3>1 DEF Walking
    <3>3. Visit(v[m], trader, leg, list[m + 1]).ok
      BY <2>2, <2>4
    <3> QED BY <2>2, <3>1, <3>2, <3>3, WalkStep
  <2> QED BY <2>3, <2>4
<1>4. n \in S
  <2>1. n \in Nat
    BY <1>0 DEF list
  <2> HIDE DEF S
  <2>2. \A m \in Nat : m \in S
    BY ONLY <1>2, <1>3, NatSetInduction
  <2> QED BY ONLY <2>1, <2>2
<1>5. Good(n)
  BY <1>0, <1>4 DEF list
<1> QED BY <1>5 DEF v, list

\* What the walk kept is the list of the queue afterwards.
LEMMA KeptIsList ==
  ASSUME NEW os \in Seq(Placed), NEW run, NEW leg, NEW list, NEW key, NEW side,
         ListOf(os, list, key, side), Walked(os, run, leg, list, Len(list))
  PROVE  ListOf(run.orders, run.kept, key, side)
<1> DEFINE ps == run.orders
           kept == run.kept
<1>1. DOMAIN ps = DOMAIN os /\ kept \in Seq(DOMAIN os) /\ Ranked(os, kept) /\ From(kept, list, Len(list))
      /\ list \in Seq(DOMAIN os)
  BY DEF Walked, Advanced, ListOf
<1>2. \A i \in DOMAIN os : SameTerms(os[i], ps[i]) /\ (Live(ps[i]) => Live(os[i]))
  BY FilledOnKeeps DEF Walked, Advanced
<1>3. \A i \in DOMAIN os : InQueue(ps[i], key, side) <=> InQueue(os[i], key, side)
  BY <1>2 DEF InQueue, SameTerms
<1>4. \A k \in DOMAIN kept : kept[k] \in DOMAIN os
  BY <1>1
<1>5. Ranked(ps, kept)
  <2> SUFFICES ASSUME NEW k \in DOMAIN kept, NEW m \in DOMAIN kept, k < m
               PROVE  Ahead(ps, kept[k], kept[m])
    BY DEF Ranked
  <2>1. Ahead(os, kept[k], kept[m])
    BY <1>1 DEF Ranked
  <2> QED BY <1>2, <1>4, <2>1, AheadKept
<1>6. \A k \in DOMAIN kept : InQueue(ps[kept[k]], key, side)
  <2> SUFFICES ASSUME NEW k \in DOMAIN kept PROVE InQueue(ps[kept[k]], key, side)
    OBVIOUS
  <2>1. PICK m \in 1..Len(list) : kept[k] = list[m]
    BY <1>1 DEF From
  <2>2. InQueue(os[list[m]], key, side)
    BY <1>1 DEF ListOf
  <2> QED BY <1>3, <1>4, <2>1, <2>2
<1>7. \A i \in DOMAIN os : Live(ps[i]) /\ InQueue(ps[i], key, side) => Listed(kept, i)
  <2> SUFFICES ASSUME NEW i \in DOMAIN os, Live(ps[i]), InQueue(ps[i], key, side)
               PROVE  Listed(kept, i)
    OBVIOUS
  <2>1. Listed(list, i)
    BY <1>2, <1>3 DEF ListOf
  <2>2. DOMAIN list = 1..Len(list)
    BY <1>1
  <2>3. PICK m \in 1..Len(list) : list[m] = i
    BY <2>1, <2>2 DEF Listed
  <2> QED BY <2>3 DEF Walked
<1> QED BY <1>1, <1>5, <1>6, <1>7 DEF ListOf

\* A call that rewrites one list of the book leaves the others what they were.
LEMMA BookAfter ==
  ASSUME NEW os \in Seq(Placed), NEW ps, NoMoreLive(os, ps), NEW bk, Book(os, bk),
         NEW key \in PairKeys, NEW side \in Sides, NEW list, ListOf(ps, list, key, side)
  PROVE  Book(ps, [bk EXCEPT ![key][side] = list])
<1> DEFINE new == [bk EXCEPT ![key][side] = list]
<1>1. DOMAIN ps = DOMAIN os
  BY DEF NoMoreLive
<1>2. list \in Seq(DOMAIN os)
  BY <1>1 DEF ListOf
<1>3. bk \in [PairKeys -> [Sides -> Seq(DOMAIN os)]]
  BY DEF Book
<1>4. new \in [PairKeys -> [Sides -> Seq(DOMAIN os)]]
  BY <1>2, <1>3
<1>5. \A k \in PairKeys, s \in Sides : new[k][s] = IF k = key /\ s = side THEN list ELSE bk[k][s]
  BY <1>3
<1> HIDE DEF new
<1>6. \A k \in PairKeys, s \in Sides : ListOf(ps, new[k][s], k, s)
  <2> SUFFICES ASSUME NEW k \in PairKeys, NEW s \in Sides PROVE ListOf(ps, new[k][s], k, s)
    OBVIOUS
  <2>1. CASE k = key /\ s = side
    BY <1>5, <2>1
  <2>2. CASE ~ (k = key /\ s = side)
    <3>1. ListOf(os, bk[k][s], k, s)
      BY DEF Book
    <3> QED BY <1>5, <2>2, <3>1, ListOfKept
  <2> QED BY <2>1, <2>2
<1> QED BY <1>1, <1>4, <1>6 DEF Book, new

\* Matching a leg against the list it faces.
LEMMA MatchBookEffect ==
  ASSUME NEW run, NEW leg, Ready(run), MatchingLeg(leg), NEW trader \in Parties,
         MatchBook(run, trader, leg).ok
  PROVE  LET after == MatchBook(run, trader, leg)
         IN /\ run.ok /\ Ready(after) /\ after.pools = run.pools
            /\ Advanced(run.orders, after.orders)
<1> DEFINE list == Facing(run, leg)
           key == PairKey(leg.base, leg.quote)
           side == Opposite(leg.side)
           end == Visits(run, trader, leg, list)[Len(list)]
           after == [end EXCEPT !.book[key][side] = end.kept]
<1>1. key \in PairKeys /\ side \in Sides /\ ListOf(run.orders, list, key, side)
  BY FacingList
<1>2. Len(list) \in Nat
  BY <1>1 DEF ListOf
<1>3. /\ IsRun(end) /\ end.book = run.book /\ end.pools = run.pools
      /\ end.ok => run.ok /\ Walked(run.orders, end, leg, list, Len(list))
  BY <1>2, VisitsWalk
<1>4. MatchBook(run, trader, leg) = after
  BY DEF MatchBook, Facing
<1> HIDE DEF end, list, key, side
<1>5. /\ IsRun(after) /\ after.ok = end.ok /\ after.pools = end.pools /\ after.orders = end.orders
      /\ after.balance = end.balance /\ after.rest = end.rest /\ after.quoted = end.quoted
      /\ after.book = [run.book EXCEPT ![key][side] = end.kept]
  BY <1>3 DEF IsRun
<1>6. run.ok /\ Walked(run.orders, end, leg, list, Len(list))
  BY <1>3, <1>4, <1>5
<1> HIDE DEF after
<1>7. run.orders \in Seq(Placed) /\ Book(run.orders, run.book) /\ Advanced(run.orders, end.orders)
      /\ end.orders \in Seq(Placed)
  BY <1>6 DEF Ready, Walked, Advanced
<1>8. ListOf(end.orders, end.kept, key, side)
  BY <1>1, <1>6, <1>7, KeptIsList
<1>9. Book(after.orders, after.book)
  <2>1. NoMoreLive(run.orders, end.orders)
    BY <1>7, AdvancedNoMoreLive
  <2> QED BY <1>1, <1>5, <1>7, <1>8, <2>1, BookAfter
<1> QED BY <1>3, <1>4, <1>5, <1>6, <1>7, <1>9 DEF Ready, Walked

-----------------------------------------------------------------------------
(* The pools.                                                               *)

\* The pools, and the index that names one of the pair for every pair
PoolIndex(pls) ==
  /\ pls \in Seq(Pool) /\ \A k \in DOMAIN pls : pls[k].a # pls[k].b
  /\ pairPool \in [AssetPairs -> {0} \cup DOMAIN pls]
  /\ \A ab \in AssetPairs :
       pairPool[ab] # 0 => pls[pairPool[ab]].a = ab[1] /\ pls[pairPool[ab]].b = ab[2]

\* A pool charges for no more than it has, and pays no more.
LEMMA PoolQuote ==
  ASSUME NEW in \in Nat, NEW out \in Nat, NEW base \in Int, base > 0, NEW fee \in Nat
  PROVE  /\ PoolCost(in, out, base, fee) \in Int
         /\ PoolCost(in, out, base, fee) > 0 => base <= out
         /\ PoolProceeds(in, out, base, fee) \in Int
         /\ PoolProceeds(in, out, base, fee) > 0 => PoolProceeds(in, out, base, fee) <= out
<1>1. \A x \in Int : Saturated(x) \in Int
  BY ScaleAssumption DEF Saturated, Least
<1>2. AfterFee(fee) \in Int /\ FeeUnit \in Int
  BY ScaleAssumption DEF AfterFee
<1>3. PoolCost(in, out, base, fee) \in Int /\ (PoolCost(in, out, base, fee) > 0 => base <= out)
  <2> DEFINE den == Saturated((out - base) * AfterFee(fee))
             num == Saturated(Saturated(in * base) * FeeUnit)
  <2>1. den \in Int /\ num \in Int
    <3>1. (out - base) * AfterFee(fee) \in Int /\ in * base \in Int
      BY <1>2
    <3>2. den \in Int /\ Saturated(in * base) \in Int
      BY <1>1, <3>1
    <3>3. Saturated(in * base) * FeeUnit \in Int
      BY <1>2, <3>2
    <3> QED BY <1>1, <3>2, <3>3
  <2>2. PoolCost(in, out, base, fee) = IF in > 0 /\ out >= base /\ den > 0 THEN num \div den + 1 ELSE 0
    BY DEF PoolCost
  <2> HIDE DEF den, num
  <2>3. den > 0 => num \div den \in Int
    BY <2>1
  <2> QED BY <2>1, <2>2, <2>3
<1>4. /\ PoolProceeds(in, out, base, fee) \in Int
      /\ PoolProceeds(in, out, base, fee) > 0 => PoolProceeds(in, out, base, fee) <= out
  <2> DEFINE net == Saturated(base * AfterFee(fee))
             num == Saturated(net * out)
             den == Saturated(Saturated(in * FeeUnit) + net)
             got == CASE num > 0 /\ den > 0 -> num \div den
                      [] num < 0 /\ den < 0 -> (- num) \div (- den)
                      [] OTHER -> 0
  <2>1. num \in Int /\ den \in Int
    <3>1. base * AfterFee(fee) \in Int /\ in * FeeUnit \in Int
      BY <1>2
    <3>2. net \in Int /\ Saturated(in * FeeUnit) \in Int
      BY <1>1, <3>1
    <3> HIDE DEF net
    <3>3. net * out \in Int /\ Saturated(in * FeeUnit) + net \in Int
      BY <3>2
    <3> QED BY <1>1, <3>3
  <2>2. PoolProceeds(in, out, base, fee) =
          IF in > 0 /\ out > 0 /\ 0 < got /\ got <= out THEN got ELSE 0
    BY DEF PoolProceeds
  <2>3. got \in Int
    <3> HIDE DEF num, den
    <3>1. CASE num > 0 /\ den > 0
      <4>1. num \div den \in Int
        BY <2>1, <3>1
      <4>2. ~ (num < 0 /\ den < 0)
        BY <2>1, <3>1
      <4> QED BY <3>1, <4>1, <4>2
    <3>2. CASE num < 0 /\ den < 0
      <4>1. - num \in Int /\ - den \in Int /\ - den > 0
        BY <2>1, <3>2
      <4>2. (- num) \div (- den) \in Int
        BY <4>1
      <4>3. ~ (num > 0 /\ den > 0)
        BY <2>1, <3>2
      <4> QED BY <3>2, <4>2, <4>3
    <3>3. CASE ~ (num > 0 /\ den > 0) /\ ~ (num < 0 /\ den < 0)
      BY <3>3
    <3> QED BY <3>1, <3>2, <3>3
  <2> HIDE DEF got
  <2> QED BY <2>2, <2>3
<1> QED BY <1>3, <1>4

\* A pool keeps its pair, takes what it is paid and gives what it has.
LEMMA SwappedEffect ==
  ASSUME NEW pool \in Pool, NEW paysA \in BOOLEAN, NEW paid \in Nat, NEW got \in Nat,
         got <= IF paysA THEN pool.reserveB ELSE pool.reserveA
  PROVE  LET new == Swapped(pool, paysA, paid, got)
         IN /\ new \in Pool /\ new.a = pool.a /\ new.b = pool.b
            /\ new.reserveA = IF paysA THEN pool.reserveA + paid ELSE pool.reserveA - got
            /\ new.reserveB = IF paysA THEN pool.reserveB - got ELSE pool.reserveB + paid
<1> DEFINE inA == IF paysA THEN pool.reserveA + paid ELSE pool.reserveA - got
           inB == IF paysA THEN pool.reserveB - got ELSE pool.reserveB + paid
<1>1. inA \in Nat /\ inB \in Nat
  BY DEF Pool
<1>2. Swapped(pool, paysA, paid, got) = [pool EXCEPT !.reserveA = inA, !.reserveB = inB]
  BY DEF Swapped, Pool
<1> HIDE DEF inA, inB
<1>3. LET new == Swapped(pool, paysA, paid, got)
      IN new \in Pool /\ new.a = pool.a /\ new.b = pool.b /\ new.reserveA = inA /\ new.reserveB = inB
  BY <1>1, <1>2 DEF Pool
<1> QED BY <1>3 DEF inA, inB

\* The pool is one of the pair of the leg, in either orientation.
Serves(pool, leg) ==
  \/ pool.a = Payment(leg) /\ pool.b = Product(leg)
  \/ pool.a = Product(leg) /\ pool.b = Payment(leg)

\* The pool `id` trades the rest of a leg for `quote`.
IsPoolTrade(run, trader, leg, id, quote, after) ==
  LET pool == run.pools[id]
      paysA == pool.a = Payment(leg)
      paid == IF leg.side = "Buy" THEN quote ELSE run.rest
      got  == IF leg.side = "Buy" THEN run.rest ELSE quote
      done == Settle(run, trader, leg, Contract, run.rest, quote)
  IN /\ Serves(pool, leg) /\ WithinLimit(leg, PriceOf(quote, run.rest))
     /\ got <= IF paysA THEN pool.reserveB ELSE pool.reserveA
     /\ IsRun(after) /\ after.orders = run.orders /\ after.book = run.book
     /\ after.balance = done.balance /\ after.ok = done.ok
     /\ after.rest = run.rest - run.rest /\ after.quoted = run.quoted + quote
     /\ after.pools = [run.pools EXCEPT ![id] = Swapped(pool, paysA, paid, got)]

LEMMA UsePoolFields ==
  ASSUME NEW run, NEW leg, Ready(run), MatchingLeg(leg), PoolIndex(run.pools), run.rest > 0,
         NEW trader \in Parties, UsePool(run, trader, leg).ok
  PROVE  \E id \in DOMAIN run.pools, quote \in Nat \ {0} :
           IsPoolTrade(run, trader, leg, id, quote, UsePool(run, trader, leg))
<1> DEFINE id == PoolFor(leg)
           pool == run.pools[id]
           paysA == pool.a = Payment(leg)
           in == IF paysA THEN pool.reserveA ELSE pool.reserveB
           out == IF paysA THEN pool.reserveB ELSE pool.reserveA
           quote == IF leg.side = "Buy" THEN PoolCost(in, out, run.rest, pool.fee)
                    ELSE PoolProceeds(in, out, run.rest, pool.fee)
           paid == IF leg.side = "Buy" THEN quote ELSE run.rest
           got  == IF leg.side = "Buy" THEN run.rest ELSE quote
           done == Settle(run, trader, leg, Contract, run.rest, quote)
           inside == WithinLimit(leg, PriceOf(quote, run.rest))
           after == UsePool(run, trader, leg)
           good == [done EXCEPT !.pools[id] = Swapped(pool, paysA, paid, got)]
<1>0. IsRun(run) /\ run.rest \in Int /\ leg \in TradeLeg /\ leg.base # leg.quote
      /\ leg.base \in Assets /\ leg.quote \in Assets
  BY DEF Ready, MatchingLeg, TradeLeg
<1>1. after = IF id # 0 /\ quote > 0 /\ inside THEN good ELSE [run EXCEPT !.ok = FALSE]
  BY DEF UsePool
<1>2. [run EXCEPT !.ok = FALSE].ok = FALSE
  BY <1>0 DEF IsRun
<1>3. id # 0 /\ quote > 0 /\ inside /\ after = good
  <2> HIDE DEF id, quote, inside, good, after
  <2> QED BY <1>1, <1>2 DEF after
<1>4. /\ id \in DOMAIN run.pools /\ pool \in Pool
      /\ \/ pool.a = leg.base /\ pool.b = leg.quote
         \/ pool.a = leg.quote /\ pool.b = leg.base
  <2>1. <<leg.base, leg.quote>> \in AssetPairs /\ <<leg.quote, leg.base>> \in AssetPairs
    BY <1>0 DEF AssetPairs
  <2>2. id \in DOMAIN run.pools
    BY <1>3, <2>1 DEF PoolFor, PoolIndex
  <2>3. \/ pool.a = leg.base /\ pool.b = leg.quote
        \/ pool.a = leg.quote /\ pool.b = leg.base
    <3>1. CASE pairPool[<<leg.base, leg.quote>>] # 0
      BY <2>1, <3>1 DEF PoolFor, PoolIndex
    <3>2. CASE pairPool[<<leg.base, leg.quote>>] = 0
      <4>1. id = pairPool[<<leg.quote, leg.base>>] /\ id # 0
        BY <1>3, <3>2 DEF PoolFor
      <4> QED BY <2>1, <4>1 DEF PoolIndex
    <3> QED BY <3>1, <3>2
  <2> QED BY <2>2, <2>3 DEF PoolIndex
<1>5. Serves(pool, leg)
  BY <1>4 DEF Serves, Payment, Product
<1>6. in \in Nat /\ out \in Nat /\ pool.fee \in Nat
  BY <1>4 DEF Pool
<1>7. quote \in Nat \ {0} /\ got <= out
  <2> HIDE DEF in, out, pool
  <2>1. /\ PoolCost(in, out, run.rest, pool.fee) \in Int
        /\ PoolCost(in, out, run.rest, pool.fee) > 0 => run.rest <= out
        /\ PoolProceeds(in, out, run.rest, pool.fee) \in Int
        /\ PoolProceeds(in, out, run.rest, pool.fee) > 0 =>
             PoolProceeds(in, out, run.rest, pool.fee) <= out
    BY <1>0, <1>6, PoolQuote
  <2> QED BY <1>3, <2>1
<1>8. /\ IsRun(done) /\ done.orders = run.orders /\ done.book = run.book /\ done.pools = run.pools
      /\ done.rest = run.rest - run.rest /\ done.quoted = run.quoted + quote
  BY <1>0, SettleFields
<1> HIDE DEF done, quote, id
<1>9. /\ IsRun(good) /\ good.orders = run.orders /\ good.book = run.book
      /\ good.balance = done.balance /\ good.ok = done.ok
      /\ good.rest = run.rest - run.rest /\ good.quoted = run.quoted + quote
      /\ good.pools = [run.pools EXCEPT ![id] = Swapped(pool, paysA, paid, got)]
  BY <1>8 DEF IsRun
<1> HIDE DEF good, after
<1>10. IsPoolTrade(run, trader, leg, id, quote, after)
  BY <1>3, <1>5, <1>7, <1>9 DEF IsPoolTrade, done
<1> QED BY <1>4, <1>7, <1>10 DEF after

-----------------------------------------------------------------------------
(* Legs and trades.                                                         *)

Trading(run) == Ready(run) /\ PoolIndex(run.pools)

LEMMA UsePoolEffect ==
  ASSUME NEW run, NEW leg, Trading(run), MatchingLeg(leg), run.rest > 0, NEW trader \in Parties,
         UsePool(run, trader, leg).ok
  PROVE  LET after == UsePool(run, trader, leg)
         IN run.ok /\ Trading(after) /\ after.orders = run.orders
<1> DEFINE after == UsePool(run, trader, leg)
<1>0. Ready(run) /\ PoolIndex(run.pools)
  BY DEF Trading
<1>1. PICK id \in DOMAIN run.pools, quote \in Nat \ {0} :
        IsPoolTrade(run, trader, leg, id, quote, after)
  BY <1>0, UsePoolFields
<1> DEFINE pool == run.pools[id]
           paysA == pool.a = Payment(leg)
           paid == IF leg.side = "Buy" THEN quote ELSE run.rest
           got  == IF leg.side = "Buy" THEN run.rest ELSE quote
           done == Settle(run, trader, leg, Contract, run.rest, quote)
           new == Swapped(pool, paysA, paid, got)
<1> HIDE DEF after
<1>2. /\ got <= IF paysA THEN pool.reserveB ELSE pool.reserveA
      /\ IsRun(after) /\ after.orders = run.orders /\ after.book = run.book
      /\ after.balance = done.balance /\ after.ok = done.ok
      /\ after.rest = run.rest - run.rest /\ after.quoted = run.quoted + quote
      /\ after.pools = [run.pools EXCEPT ![id] = new]
  BY <1>1 DEF IsPoolTrade
<1>3. /\ IsRun(run) /\ run.rest \in Int /\ run.quoted \in Int /\ run.balance \in Balances
      /\ run.orders \in Seq(Placed) /\ Book(run.orders, run.book) /\ leg \in TradeLeg
  BY <1>0 DEF Ready, MatchingLeg
<1>4. run.ok /\ done.ok
  <2>1. done.ok
    BY <1>2 DEF after
  <2> QED BY <1>3, <2>1, SettleFields
<1>5. after.balance \in Balances
  <2>1. Contract \in Accounts /\ quote \in Int
    BY PartyAccounts
  <2> QED BY <1>2, <1>3, <1>4, <2>1, SettleBalance
<1>6. run.pools \in Seq(Pool) /\ pool \in Pool
  BY <1>0 DEF PoolIndex
<1>7. paid \in Nat /\ got \in Nat /\ paysA \in BOOLEAN
  BY <1>3
<1>8. new \in Pool /\ new.a = pool.a /\ new.b = pool.b
  <2> HIDE DEF pool, paysA, paid, got
  <2> QED BY <1>2, <1>6, <1>7, SwappedEffect
<1> HIDE DEF new
<1>9. /\ after.pools \in Seq(Pool) /\ Len(after.pools) = Len(run.pools)
      /\ after.pools[id] = new
      /\ \A k \in DOMAIN run.pools : k # id => after.pools[k] = run.pools[k]
  BY <1>2, <1>6, <1>8, ExceptSeq
<1>10. \A k \in DOMAIN run.pools :
         after.pools[k].a = run.pools[k].a /\ after.pools[k].b = run.pools[k].b
  BY <1>8, <1>9
<1>11. DOMAIN after.pools = DOMAIN run.pools
  BY <1>2
<1>12. PoolIndex(after.pools)
  BY <1>0, <1>9, <1>10, <1>11 DEF PoolIndex
<1>13. after.rest \in Int /\ after.quoted \in Int
  BY <1>2, <1>3
<1> QED BY <1>2, <1>3, <1>4, <1>5, <1>12, <1>13 DEF Trading, Ready, after

\* The record a leg starts from
LegStart(run, leg) == [run EXCEPT !.rest = leg.amount, !.quoted = 0]

LEMMA LegStartReady ==
  ASSUME NEW run, NEW leg, Trading(run), leg \in TradeLeg
  PROVE  LET start == LegStart(run, leg)
         IN /\ Trading(start) /\ start.ok = run.ok /\ start.orders = run.orders
            /\ start.balance = run.balance /\ start.pools = run.pools
            /\ start.rest = leg.amount /\ start.quoted = 0 /\ start.book = run.book
<1>1. leg.amount \in Int
  BY DEF TradeLeg
<1> QED BY <1>1 DEF LegStart, Trading, Ready, IsRun

\* A refusal stands through a book and a pool.
LEMMA MatchBookKeeps ==
  ASSUME NEW run, NEW leg, Ready(run), MatchingLeg(leg), NEW trader \in Parties
  PROVE  IsRun(MatchBook(run, trader, leg))
<1> DEFINE list == Facing(run, leg)
           end == Visits(run, trader, leg, list)[Len(list)]
<1>1. Len(list) \in Nat
  BY FacingList DEF ListOf
<1>2. IsRun(end)
  BY <1>1, VisitsWalk
<1>3. MatchBook(run, trader, leg) =
        [end EXCEPT !.book[PairKey(leg.base, leg.quote)][Opposite(leg.side)] = end.kept]
  BY DEF MatchBook, Facing
<1> HIDE DEF end
<1> QED BY <1>2, <1>3 DEF IsRun

LEMMA UsePoolKeeps ==
  ASSUME NEW run, NEW leg, IsRun(run), NEW trader
  PROVE  IsRun(UsePool(run, trader, leg)) /\ (UsePool(run, trader, leg).ok => run.ok)
<1> DEFINE refused == [run EXCEPT !.ok = FALSE]
<1>1. IsRun(refused) /\ ~ refused.ok
  BY DEF IsRun
<1>2. \A q, k, x : LET done == Settle(run, trader, leg, Contract, run.rest, q)
                       end  == [done EXCEPT !.pools[k] = x]
                   IN IsRun(end) /\ (end.ok => run.ok)
  <2> TAKE q, k, x
  <2> DEFINE done == Settle(run, trader, leg, Contract, run.rest, q)
  <2>1. IsRun(done) /\ (done.ok => run.ok)
    BY SettleFields
  <2> HIDE DEF done
  <2>2. IsRun([done EXCEPT !.pools[k] = x]) /\ ([done EXCEPT !.pools[k] = x].ok => run.ok)
    BY <2>1 DEF IsRun
  <2> QED BY <2>2 DEF done
<1> HIDE DEF refused
<1> QED BY <1>1, <1>2 DEF UsePool, refused

\* What a leg that is matched in full has been through
LEMMA MatchLegParts ==
  ASSUME NEW run, NEW leg, Trading(run), leg \in TradeLeg, NEW trader \in Parties,
         MatchLeg(run, trader, leg).ok
  PROVE  LET booked == MatchBook(LegStart(run, leg), trader, leg)
             done   == IF booked.rest > 0 THEN UsePool(booked, trader, leg) ELSE booked
             after  == MatchLeg(run, trader, leg)
         IN /\ MatchingLeg(leg) /\ leg.amount > 0 /\ done.ok
            /\ Trading(booked) /\ booked.ok /\ Trading(done)
            /\ Advanced(run.orders, done.orders) /\ run.ok
            /\ IsRun(after) /\ after.orders = done.orders /\ after.book = done.book
            /\ after.pools = done.pools /\ after.balance = done.balance
            /\ after.rest = done.rest /\ after.quoted = done.quoted
<1> DEFINE start == LegStart(run, leg)
           booked == MatchBook(start, trader, leg)
           done   == IF booked.rest > 0 THEN UsePool(booked, trader, leg) ELSE booked
           output == IF leg.side = "Buy" THEN leg.amount ELSE done.quoted
           enough == leg.minOutput > 0 => output >= leg.minOutput
           last   == [done EXCEPT !.ok = @ /\ enough]
           after  == MatchLeg(run, trader, leg)
<1>1. IsRun(run)
  BY DEF Trading, Ready
<1>2. [run EXCEPT !.ok = FALSE].ok = FALSE
  BY <1>1 DEF IsRun
<1>3. after = IF leg.amount <= 0 \/ leg.base = leg.quote THEN [run EXCEPT !.ok = FALSE] ELSE last
  BY DEF MatchLeg, LegStart
<1>4. leg.amount \in Int /\ enough \in BOOLEAN
  BY DEF TradeLeg
<1> HIDE DEF last, done
<1>5. leg.amount > 0 /\ leg.base # leg.quote /\ after = last
  BY <1>2, <1>3, <1>4 DEF after
<1>6. MatchingLeg(leg)
  BY <1>5 DEF MatchingLeg
<1> HIDE DEF enough, after
<1>7. last.ok
  BY <1>5 DEF after
<1>8. start.orders = run.orders /\ Trading(start) /\ start.ok = run.ok /\ start.pools = run.pools
  BY LegStartReady
<1> HIDE DEF start, booked
<1>9. IsRun(done)
  <2>1. Ready(start)
    BY <1>8 DEF Trading
  <2>2. IsRun(booked)
    BY <1>6, <2>1, MatchBookKeeps DEF booked
  <2>3. IsRun(UsePool(booked, trader, leg))
    BY <2>2, UsePoolKeeps
  <2> QED BY <2>2, <2>3 DEF done
<1>10. /\ IsRun(last) /\ done.ok /\ last.orders = done.orders /\ last.book = done.book
       /\ last.pools = done.pools /\ last.balance = done.balance
       /\ last.rest = done.rest /\ last.quoted = done.quoted
  BY <1>4, <1>7, <1>9 DEF last, IsRun
<1>11. ASSUME booked.ok
       PROVE  run.ok /\ Trading(booked) /\ Advanced(run.orders, booked.orders)
  <2>1. Ready(start) /\ PoolIndex(start.pools)
    BY <1>8 DEF Trading
  <2>2. MatchBook(start, trader, leg).ok
    BY <1>11 DEF booked
  <2>3. start.ok /\ Ready(booked) /\ booked.pools = start.pools /\ Advanced(start.orders, booked.orders)
    BY <1>6, <2>1, <2>2, MatchBookEffect DEF booked
  <2> QED BY <1>8, <2>1, <2>3 DEF Trading
<1>12. CASE ~ (booked.rest > 0)
  <2>1. done = booked
    BY <1>12 DEF done
  <2> QED BY <1>5, <1>6, <1>10, <1>11, <2>1 DEF booked, start, done, after
<1>13. CASE booked.rest > 0
  <2>1. done = UsePool(booked, trader, leg)
    BY <1>13 DEF done
  <2>2. IsRun(booked)
    <3>1. Ready(start)
      BY <1>8 DEF Trading
    <3> QED BY <1>6, <3>1, MatchBookKeeps DEF booked
  <2>3. booked.ok
    BY <1>10, <2>1, <2>2, UsePoolKeeps
  <2>4. UsePool(booked, trader, leg).ok
    BY <1>10, <2>1
  <2>5. Trading(done) /\ done.orders = booked.orders
    BY <1>6, <1>11, <1>13, <2>1, <2>3, <2>4, UsePoolEffect
  <2> QED BY <1>5, <1>6, <1>10, <1>11, <2>3, <2>5 DEF booked, start, done, after
<1> QED BY <1>12, <1>13

\* A leg that is matched in full leaves all it touches what it should be.
LEMMA MatchLegEffect ==
  ASSUME NEW run, NEW leg, Trading(run), leg \in TradeLeg, NEW trader \in Parties,
         MatchLeg(run, trader, leg).ok
  PROVE  /\ run.ok /\ Trading(MatchLeg(run, trader, leg))
         /\ Advanced(run.orders, MatchLeg(run, trader, leg).orders)
<1> DEFINE booked == MatchBook(LegStart(run, leg), trader, leg)
           done   == IF booked.rest > 0 THEN UsePool(booked, trader, leg) ELSE booked
           after  == MatchLeg(run, trader, leg)
<1>1. /\ Trading(done) /\ Advanced(run.orders, done.orders) /\ run.ok
      /\ IsRun(after) /\ after.orders = done.orders /\ after.book = done.book
      /\ after.pools = done.pools /\ after.balance = done.balance
      /\ after.rest = done.rest /\ after.quoted = done.quoted
  BY MatchLegParts
<1> HIDE DEF done, after
<1>2. Trading(after) /\ Advanced(run.orders, after.orders)
  BY <1>1 DEF Trading, Ready
<1> QED BY <1>1, <1>2 DEF after

\* g is the recursion of LegRuns up to the n-th leg.
IsLegRuns(g, trader, legs, n) ==
  g = [k \in 0..n |-> IF k = 0 THEN Start
                      ELSE IF g[k - 1].ok THEN MatchLeg(g[k - 1], trader, legs[k]) ELSE g[k - 1]]

LEMMA LegRunsExist ==
  ASSUME NEW trader, NEW legs, NEW n \in Nat
  PROVE  \E g : IsLegRuns(g, trader, legs, n)
<1> DEFINE S == {m \in Nat : \E g : IsLegRuns(g, trader, legs, m)}
           After(x, k) == IF x.ok THEN MatchLeg(x, trader, legs[k]) ELSE x
<1>1. 0 \in S
  <2> DEFINE g == [k \in 0..0 |-> Start]
  <2>1. IsLegRuns(g, trader, legs, 0)
    BY DEF IsLegRuns
  <2> QED BY <2>1
<1>2. ASSUME NEW m \in Nat, m \in S PROVE m + 1 \in S
  <2>1. PICK g : IsLegRuns(g, trader, legs, m)
    BY <1>2
  <2>2. g = [k \in 0..m |-> IF k = 0 THEN Start ELSE After(g[k - 1], k)]
    BY <2>1 DEF IsLegRuns
  <2> HIDE DEF After
  <2> DEFINE h == [k \in 0..(m + 1) |-> IF k = m + 1 THEN After(g[m], m + 1) ELSE g[k]]
             r == [k \in 0..(m + 1) |-> IF k = 0 THEN Start ELSE After(h[k - 1], k)]
  <2>3. ASSUME NEW k \in 0..(m + 1) PROVE h[k] = r[k]
    <3>1. CASE k = m + 1
      <4>1. k # 0 /\ k - 1 = m /\ m \in 0..(m + 1) /\ m # m + 1
        BY <3>1
      <4>2. h[k] = After(g[m], m + 1) /\ h[k - 1] = g[m]
        BY <3>1, <4>1
      <4> QED BY <3>1, <4>1, <4>2
    <3>2. CASE k # m + 1
      <4>1. k \in 0..m /\ (k # 0 => k - 1 \in 0..m /\ k - 1 \in 0..(m + 1) /\ k - 1 # m + 1)
        BY <3>2
      <4>2. g[k] = IF k = 0 THEN Start ELSE After(g[k - 1], k)
        BY <2>2, <4>1
      <4>3. h[k] = g[k] /\ (k # 0 => h[k - 1] = g[k - 1])
        BY <3>2, <4>1
      <4> QED BY <4>2, <4>3
    <3> QED BY <3>1, <3>2
  <2>4. h = r
    <3> HIDE DEF r
    <3>1. h = [k \in 0..(m + 1) |-> h[k]] /\ r = [k \in 0..(m + 1) |-> r[k]]
      BY DEF h, r
    <3> HIDE DEF h
    <3> QED BY <2>3, <3>1
  <2>5. IsLegRuns(h, trader, legs, m + 1)
    <3> HIDE DEF h
    <3> QED BY <2>4 DEF IsLegRuns, After
  <2> QED BY <2>5
<1>3. n \in S
  <2> HIDE DEF S
  <2> QED BY <1>1, <1>2, NatSetInduction
<1> QED BY <1>3

LEMMA LegRunsDef ==
  ASSUME NEW trader, NEW legs, Len(legs) \in Nat
  PROVE  LET g == LegRuns(trader, legs)
         IN /\ g[0] = Start
            /\ \A k \in 1..Len(legs) :
                 g[k] = IF g[k - 1].ok THEN MatchLeg(g[k - 1], trader, legs[k]) ELSE g[k - 1]
<1> DEFINE n == Len(legs)
           g == LegRuns(trader, legs)
<1>1. \E h : IsLegRuns(h, trader, legs, n)
  BY LegRunsExist
<1>2. IsLegRuns(g, trader, legs, n)
  BY <1>1 DEF LegRuns, IsLegRuns
<1> HIDE DEF g
<1>3. 0 \in 0..n /\ \A k \in 1..n : k \in 0..n /\ k # 0
  OBVIOUS
<1>4. \A k \in 0..n : g[k] = IF k = 0 THEN Start
                             ELSE IF g[k - 1].ok THEN MatchLeg(g[k - 1], trader, legs[k]) ELSE g[k - 1]
  BY <1>2 DEF IsLegRuns
<1> QED BY <1>3, <1>4 DEF g

\* A trade that succeeds leaves all it touches what it should be, and advances the orders.
LEMMA MatchLegsEffect ==
  ASSUME Trading(Start), NEW trader \in Parties, NEW legs \in Seq(TradeLeg),
         MatchLegs(trader, legs).ok
  PROVE  Trading(MatchLegs(trader, legs)) /\ Advanced(orders, MatchLegs(trader, legs).orders)
<1> DEFINE n == Len(legs)
           g == LegRuns(trader, legs)
           Good(k) == g[k].ok => Trading(g[k]) /\ Advanced(orders, g[k].orders)
           S == {k \in Nat : k <= n => Good(k)}
<1>1. n \in Nat /\ \A k \in 1..n : legs[k] \in TradeLeg
  OBVIOUS
<1>2. /\ g[0] = Start
      /\ \A k \in 1..n :
           g[k] = IF g[k - 1].ok THEN MatchLeg(g[k - 1], trader, legs[k]) ELSE g[k - 1]
  BY <1>1, LegRunsDef
<1> HIDE DEF g
<1>3. orders \in Seq(Placed) /\ Start.orders = orders
  BY DEF Trading, Ready, Start
<1>4. 0 \in S
  BY <1>2, <1>3, AdvancedNone
<1>5. \A k \in Nat : k \in S => k + 1 \in S
  <2> SUFFICES ASSUME NEW k \in Nat, k + 1 <= n, Good(k), g[k + 1].ok
               PROVE  Trading(g[k + 1]) /\ Advanced(orders, g[k + 1].orders)
    BY <1>1
  <2>1. k + 1 \in 1..n /\ (k + 1) - 1 = k
    BY <1>1
  <2>2. g[k].ok /\ g[k + 1] = MatchLeg(g[k], trader, legs[k + 1])
    BY <1>2, <2>1
  <2>3. Trading(g[k]) /\ Advanced(orders, g[k].orders)
    BY <2>2
  <2>4. MatchLeg(g[k], trader, legs[k + 1]).ok /\ legs[k + 1] \in TradeLeg
    BY <1>1, <2>1, <2>2
  <2>5. Trading(g[k + 1]) /\ Advanced(g[k].orders, g[k + 1].orders)
    BY <2>2, <2>3, <2>4, MatchLegEffect
  <2> QED BY <1>3, <2>3, <2>5, AdvancedTwice
<1>6. n \in S
  <2> HIDE DEF S
  <2> QED BY <1>1, <1>4, <1>5, NatSetInduction
<1> QED BY <1>1, <1>6 DEF MatchLegs, g

-----------------------------------------------------------------------------
(* The lists, as orders come and go.                                        *)

\* g is the recursion of Delisted up to the n-th entry.
IsDelisted(g, list, id, n) ==
  g = [k \in 0..n |-> IF k = 0 THEN << >>
                      ELSE IF list[k] = id THEN g[k - 1] ELSE Append(g[k - 1], list[k])]

LEMMA DelistedExist ==
  ASSUME NEW list, NEW id, NEW n \in Nat
  PROVE  \E g : IsDelisted(g, list, id, n)
<1> DEFINE S == {m \in Nat : \E g : IsDelisted(g, list, id, m)}
           After(x, k) == IF list[k] = id THEN x ELSE Append(x, list[k])
<1>1. 0 \in S
  <2> DEFINE g == [k \in 0..0 |-> << >>]
  <2>1. IsDelisted(g, list, id, 0)
    BY DEF IsDelisted
  <2> QED BY <2>1
<1>2. ASSUME NEW m \in Nat, m \in S PROVE m + 1 \in S
  <2>1. PICK g : IsDelisted(g, list, id, m)
    BY <1>2
  <2>2. g = [k \in 0..m |-> IF k = 0 THEN << >> ELSE After(g[k - 1], k)]
    BY <2>1 DEF IsDelisted
  <2> HIDE DEF After
  <2> DEFINE h == [k \in 0..(m + 1) |-> IF k = m + 1 THEN After(g[m], m + 1) ELSE g[k]]
             r == [k \in 0..(m + 1) |-> IF k = 0 THEN << >> ELSE After(h[k - 1], k)]
  <2>3. ASSUME NEW k \in 0..(m + 1) PROVE h[k] = r[k]
    <3>1. CASE k = m + 1
      <4>1. k # 0 /\ k - 1 = m /\ m \in 0..(m + 1) /\ m # m + 1
        BY <3>1
      <4>2. h[k] = After(g[m], m + 1) /\ h[k - 1] = g[m]
        BY <3>1, <4>1
      <4> QED BY <3>1, <4>1, <4>2
    <3>2. CASE k # m + 1
      <4>1. k \in 0..m /\ (k # 0 => k - 1 \in 0..m /\ k - 1 \in 0..(m + 1) /\ k - 1 # m + 1)
        BY <3>2
      <4>2. g[k] = IF k = 0 THEN << >> ELSE After(g[k - 1], k)
        BY <2>2, <4>1
      <4>3. h[k] = g[k] /\ (k # 0 => h[k - 1] = g[k - 1])
        BY <3>2, <4>1
      <4> QED BY <4>2, <4>3
    <3> QED BY <3>1, <3>2
  <2>4. h = r
    <3> HIDE DEF r
    <3>1. h = [k \in 0..(m + 1) |-> h[k]] /\ r = [k \in 0..(m + 1) |-> r[k]]
      BY DEF h, r
    <3> HIDE DEF h
    <3> QED BY <2>3, <3>1
  <2>5. IsDelisted(h, list, id, m + 1)
    <3> HIDE DEF h
    <3> QED BY <2>4 DEF IsDelisted, After
  <2> QED BY <2>5
<1>3. n \in S
  <2> HIDE DEF S
  <2> QED BY <1>1, <1>2, NatSetInduction
<1> QED BY <1>3

LEMMA DelistedDef ==
  ASSUME NEW list, NEW id, Len(list) \in Nat
  PROVE  LET g == Delisted(list, id)
         IN /\ g[0] = << >>
            /\ \A k \in 1..Len(list) :
                 g[k] = IF list[k] = id THEN g[k - 1] ELSE Append(g[k - 1], list[k])
<1> DEFINE n == Len(list)
           g == Delisted(list, id)
<1>1. \E h : IsDelisted(h, list, id, n)
  BY DelistedExist
<1>2. IsDelisted(g, list, id, n)
  BY <1>1 DEF Delisted, IsDelisted
<1> HIDE DEF g
<1>3. 0 \in 0..n /\ \A k \in 1..n : k \in 0..n /\ k # 0
  OBVIOUS
<1>4. \A k \in 0..n : g[k] = IF k = 0 THEN << >>
                             ELSE IF list[k] = id THEN g[k - 1] ELSE Append(g[k - 1], list[k])
  BY <1>2 DEF IsDelisted
<1> QED BY <1>3, <1>4 DEF g

\* Everything but the id stays, where it was.
LEMMA DelistEffect ==
  ASSUME NEW os, NEW list \in Seq(DOMAIN os), Ranked(os, list), NEW id
  PROVE  LET kept == Delist(list, id)
         IN /\ kept \in Seq(DOMAIN os) /\ From(kept, list, Len(list)) /\ Ranked(os, kept)
            /\ \A i : Listed(list, i) /\ i # id => Listed(kept, i)
<1> DEFINE n == Len(list)
           g == Delisted(list, id)
           Good(k) == /\ g[k] \in Seq(DOMAIN os) /\ From(g[k], list, k) /\ Ranked(os, g[k])
                      /\ \A m \in 1..k : list[m] # id => Listed(g[k], list[m])
           S == {k \in Nat : k <= n => Good(k)}
<1>1. n \in Nat /\ DOMAIN list = 1..n
  OBVIOUS
<1>2. /\ g[0] = << >>
      /\ \A k \in 1..n : g[k] = IF list[k] = id THEN g[k - 1] ELSE Append(g[k - 1], list[k])
  BY <1>1, DelistedDef
<1> HIDE DEF g
<1>3. 0 \in S
  <2>1. From(<< >>, list, 0) /\ Ranked(os, << >>) /\ << >> \in Seq(DOMAIN os)
    BY DEF From, Ranked
  <2>2. \A m \in 1..0 : FALSE
    OBVIOUS
  <2>3. Good(0)
    BY <1>2, <2>1, <2>2
  <2> HIDE DEF Good
  <2> QED BY <2>3
<1>4. \A k \in Nat : k \in S => k + 1 \in S
  <2> HIDE DEF Good
  <2> SUFFICES ASSUME NEW k \in Nat, k + 1 <= n, Good(k) PROVE Good(k + 1)
    BY <1>1
  <2> USE DEF Good
  <2>1. k + 1 \in 1..n /\ (k + 1) - 1 = k
    BY <1>1
  <2>2. \A m \in 1..(k + 1) : m \in 1..k \/ m = k + 1
    OBVIOUS
  <2>3. CASE list[k + 1] = id
    <3>1. g[k + 1] = g[k]
      BY <1>2, <2>1, <2>3
    <3>2. From(g[k], list, k + 1)
      <4> SUFFICES ASSUME NEW a \in DOMAIN g[k] PROVE \E m \in 1..(k + 1) : g[k][a] = list[m]
        BY DEF From
      <4>1. PICK m \in 1..k : g[k][a] = list[m]
        BY DEF From
      <4>2. m \in 1..(k + 1)
        OBVIOUS
      <4> QED BY <4>1, <4>2
    <3> QED BY <2>2, <2>3, <3>1, <3>2
  <2>4. CASE list[k + 1] # id
    <3>1. g[k + 1] = Append(g[k], list[k + 1])
      BY <1>2, <2>1, <2>4
    <3>2. From(g[k], list, (k + 1) - 1)
      BY <2>1
    <3>3. /\ g[k + 1] \in Seq(DOMAIN os) /\ From(g[k + 1], list, k + 1) /\ Ranked(os, g[k + 1])
          /\ Listed(g[k + 1], list[k + 1])
          /\ \A i : Listed(g[k], i) => Listed(g[k + 1], i)
      BY <2>1, <3>1, <3>2, KeptGrows
    <3> QED BY <2>2, <3>3
  <2> QED BY <2>3, <2>4
<1>5. n \in S
  <2> HIDE DEF S
  <2> QED BY <1>1, <1>3, <1>4, NatSetInduction
<1>6. Good(n)
  BY <1>1, <1>5
<1>7. \A i : Listed(list, i) /\ i # id => Listed(g[n], i)
  BY <1>1, <1>6 DEF Listed
<1> QED BY <1>6, <1>7 DEF Delist, g

\* Where a new order goes: behind what is ahead of it, in front of the rest.
LEMMA EnlistPlace ==
  ASSUME orders \in Seq(Placed), NEW list \in Seq(DOMAIN orders), Ranked(orders, list),
         NEW order \in Placed, \A k \in DOMAIN list : orders[list[k]].side = order.side, NEW id
  PROVE  \/ /\ Enlist(list, id, order) = Append(list, id)
            /\ \A k \in DOMAIN list : ~ BetterPrice(order.side, order.price, orders[list[k]].price)
         \/ \E p \in 1..Len(list) :
              /\ Enlist(list, id, order) = InsertAt(list, p, id)
              /\ \A k \in 1..(p - 1) : ~ BetterPrice(order.side, order.price, orders[list[k]].price)
              /\ \A k \in p..Len(list) : BetterPrice(order.side, order.price, orders[list[k]].price)
<1> DEFINE worse == {k \in DOMAIN list : BetterPrice(order.side, order.price, orders[list[k]].price)}
           p == CHOOSE k \in worse : \A m \in worse : k <= m
<1>1. CASE worse = {}
  BY <1>1 DEF Enlist
<1>2. CASE worse # {}
  <2>1. worse \subseteq Nat /\ DOMAIN list = 1..Len(list) /\ Len(list) \in Nat
    OBVIOUS
  <2>2. \E k \in worse : \A m \in worse : k <= m
    <3> HIDE DEF worse
    <3> QED BY <1>2, <2>1, LeastNatural
  <2>3. p \in worse /\ \A m \in worse : p <= m
    BY <2>2
  <2>4. Enlist(list, id, order) = InsertAt(list, p, id)
    BY <1>2 DEF Enlist
  <2> HIDE DEF p
  <2>5. p \in 1..Len(list) /\ p \in Nat
    BY <2>1, <2>3
  <2>6. \A k \in 1..(p - 1) : ~ BetterPrice(order.side, order.price, orders[list[k]].price)
    <3> SUFFICES ASSUME NEW k \in 1..(p - 1), k \in worse PROVE FALSE
      BY <2>1, <2>5
    <3> QED BY <2>3, <2>5
  <2>7. \A k \in p..Len(list) : BetterPrice(order.side, order.price, orders[list[k]].price)
    <3> SUFFICES ASSUME NEW k \in p..Len(list), k # p
                 PROVE  BetterPrice(order.side, order.price, orders[list[k]].price)
      BY <2>3
    <3>1. k \in DOMAIN list /\ p \in DOMAIN list /\ p < k
      BY <2>1, <2>5
    <3>2. Ahead(orders, list[p], list[k])
      BY <3>1 DEF Ranked
    <3>3. orders[list[p]] \in Placed /\ orders[list[k]] \in Placed
      BY <3>1
    <3>4. /\ orders[list[p]].price \in Nat /\ orders[list[k]].price \in Nat /\ order.price \in Nat
          /\ orders[list[p]].side = order.side /\ order.side \in Sides
      BY <3>1, <3>3, PlacedTypes
    <3>5. BetterPrice(order.side, order.price, orders[list[p]].price)
      BY <2>3
    <3> QED BY <3>2, <3>4, <3>5 DEF Ahead, BetterPrice
  <2> QED BY <2>4, <2>5, <2>6, <2>7
<1> QED BY <1>1, <1>2

\* What a new order is to the orders before it.
LEMMA AppendedOrders ==
  ASSUME NEW os \in Seq(Placed), NEW order \in Placed
  PROVE  LET ps == Append(os, order)
         IN /\ ps \in Seq(Placed) /\ Len(ps) = Len(os) + 1 /\ DOMAIN ps = 1..(Len(os) + 1)
            /\ Len(os) \in Nat /\ DOMAIN os = 1..Len(os) /\ DOMAIN os \subseteq DOMAIN ps
            /\ ps[Len(os) + 1] = order /\ \A i \in DOMAIN os : ps[i] = os[i]
<1>1. Len(os) \in Nat /\ DOMAIN os = 1..Len(os)
  OBVIOUS
<1> DEFINE ps == Append(os, order)
<1>2. /\ ps \in Seq(Placed) /\ Len(ps) = Len(os) + 1
      /\ \A i \in 1..Len(os) : ps[i] = os[i]
      /\ ps[Len(os) + 1] = order
  BY AppendProperties
<1> HIDE DEF ps
<1>3. DOMAIN ps = 1..(Len(os) + 1)
  BY <1>2
<1> QED BY <1>1, <1>2, <1>3 DEF ps

\* A list takes a new order of its queue.
LEMMA EnlistEffect ==
  ASSUME orders \in Seq(Placed), NEW order \in Placed, NEW list, NEW key, NEW side,
         ListOf(orders, list, key, side), InQueue(order, key, side)
  PROVE  ListOf(Append(orders, order), Enlist(list, Len(orders) + 1, order), key, side)
<1> DEFINE n == Len(list)
           id == Len(orders) + 1
           ps == Append(orders, order)
           t == Enlist(list, id, order)
           D == DOMAIN ps
           Better(k) == BetterPrice(order.side, order.price, orders[list[k]].price)
<1>1. /\ list \in Seq(DOMAIN orders) /\ Ranked(orders, list) /\ n \in Nat /\ DOMAIN list = 1..n
      /\ \A k \in DOMAIN list : InQueue(orders[list[k]], key, side) /\ list[k] \in DOMAIN orders
      /\ \A i \in DOMAIN orders : Live(orders[i]) /\ InQueue(orders[i], key, side) => Listed(list, i)
  BY DEF ListOf
<1>2. /\ ps \in Seq(Placed) /\ D = 1..id /\ Len(orders) \in Nat /\ DOMAIN orders = 1..Len(orders)
      /\ DOMAIN orders \subseteq D
      /\ ps[id] = order /\ \A i \in DOMAIN orders : ps[i] = orders[i]
  BY AppendedOrders
<1> HIDE DEF ps, D
<1>3. list \in Seq(D) /\ id \in D /\ id \in Nat
  <2>1. \A k \in 1..n : list[k] \in D
    BY <1>1, <1>2
  <2> QED BY <1>1, <1>2, <2>1
<1>4. \E p \in 1..(n + 1) :
        /\ t \in Seq(D) /\ Len(t) = n + 1 /\ t[p] = id
        /\ \A k \in 1..(p - 1) : t[k] = list[k] /\ ~ Better(k)
        /\ \A k \in p..n : t[k + 1] = list[k] /\ Better(k)
  <2>0. \A k \in DOMAIN list : orders[list[k]].side = order.side
    BY <1>1 DEF InQueue
  <2>1. CASE t = Append(list, id) /\ \A k \in DOMAIN list : ~ Better(k)
    <3>1. /\ Append(list, id) \in Seq(D) /\ Len(Append(list, id)) = n + 1
          /\ Append(list, id)[n + 1] = id /\ \A k \in 1..n : Append(list, id)[k] = list[k]
      BY <1>3, AppendProperties
    <3>2. n + 1 \in 1..(n + 1) /\ (n + 1) - 1 = n /\ \A k \in (n + 1)..n : FALSE
      BY <1>1
    <3> HIDE DEF t, Better
    <3> QED BY <1>1, <2>1, <3>1, <3>2
  <2>2. CASE \E p \in 1..n : /\ t = InsertAt(list, p, id)
                             /\ \A k \in 1..(p - 1) : ~ Better(k)
                             /\ \A k \in p..n : Better(k)
    <3>1. PICK p \in 1..n : /\ t = InsertAt(list, p, id)
                            /\ \A k \in 1..(p - 1) : ~ Better(k)
                            /\ \A k \in p..n : Better(k)
      BY <2>2
    <3>2. t = SubSeq(list, 1, p - 1) \o <<id>> \o SubSeq(list, p, n)
      BY <3>1 DEF InsertAt
    <3> HIDE DEF t, Better
    <3>3. /\ t \in Seq(D) /\ Len(t) = n + 1 /\ t[p] = id
          /\ \A k \in 1..(p - 1) : t[k] = list[k]
          /\ \A k \in p..n : t[k + 1] = list[k]
      BY <1>3, <3>2, InsertIsShift
    <3>4. p \in 1..(n + 1)
      BY <1>1
    <3> QED BY <3>1, <3>3, <3>4
  <2> QED BY <1>1, <2>0, <2>1, <2>2, EnlistPlace
<1> HIDE DEF t, Better
<1>5. PICK p \in 1..(n + 1) :
        /\ t \in Seq(D) /\ Len(t) = n + 1 /\ t[p] = id
        /\ \A k \in 1..(p - 1) : t[k] = list[k] /\ ~ Better(k)
        /\ \A k \in p..n : t[k + 1] = list[k] /\ Better(k)
  BY <1>4
<1>6. DOMAIN t = 1..(n + 1)
  BY <1>5
<1>7. \A a \in 1..(n + 1) : \/ a = p /\ t[a] = id
                            \/ a < p /\ a \in 1..n /\ t[a] = list[a] /\ ~ Better(a)
                            \/ a > p /\ a - 1 \in 1..n /\ t[a] = list[a - 1] /\ Better(a - 1)
  <2> SUFFICES ASSUME NEW a \in 1..(n + 1), a # p
               PROVE  \/ a < p /\ a \in 1..n /\ t[a] = list[a] /\ ~ Better(a)
                      \/ a > p /\ a - 1 \in 1..n /\ t[a] = list[a - 1] /\ Better(a - 1)
    BY <1>5
  <2>1. CASE a < p
    <3>1. a \in 1..(p - 1) /\ a \in 1..n
      BY <1>1, <2>1
    <3> QED BY <1>5, <2>1, <3>1
  <2>2. CASE a > p
    <3>1. a - 1 \in p..n /\ a - 1 \in 1..n /\ (a - 1) + 1 = a
      BY <1>1, <2>2
    <3>2. t[(a - 1) + 1] = list[a - 1] /\ Better(a - 1)
      BY <1>5, <3>1
    <3> QED BY <2>2, <3>1, <3>2
  <2>3. a \in Int /\ p \in Int
    OBVIOUS
  <2> QED BY <2>1, <2>2, <2>3
<1>8. \A k \in 1..n : /\ list[k] \in D /\ ps[list[k]] = orders[list[k]] /\ ps[list[k]] \in Placed
                      /\ ps[list[k]].price \in Nat /\ ps[list[k]].side = side
                      /\ list[k] < id /\ list[k] # id
  <2> SUFFICES ASSUME NEW k \in 1..n
               PROVE  /\ list[k] \in D /\ ps[list[k]] = orders[list[k]] /\ ps[list[k]] \in Placed
                      /\ ps[list[k]].price \in Nat /\ ps[list[k]].side = side
                      /\ list[k] < id /\ list[k] # id
    OBVIOUS
  <2>1. list[k] \in DOMAIN orders /\ InQueue(orders[list[k]], key, side)
    BY <1>1
  <2>2. list[k] \in D /\ ps[list[k]] = orders[list[k]] /\ orders[list[k]] \in Placed
        /\ list[k] < id /\ list[k] # id
    BY <1>2, <2>1
  <2> QED BY <2>1, <2>2, PlacedTypes DEF InQueue
<1>9. order.price \in Nat /\ order.side = side /\ side \in Sides
  BY PlacedTypes DEF InQueue
<1>10. \A a \in DOMAIN t : InQueue(ps[t[a]], key, side)
  <2> SUFFICES ASSUME NEW a \in 1..(n + 1) PROVE InQueue(ps[t[a]], key, side)
    BY <1>6
  <2>1. \A k \in 1..n : InQueue(ps[list[k]], key, side)
    BY <1>1, <1>8
  <2> QED BY <1>2, <1>7, <2>1
<1>11. Ranked(ps, t)
  <2> SUFFICES ASSUME NEW a \in 1..(n + 1), NEW b \in 1..(n + 1), a < b
               PROVE  Ahead(ps, t[a], t[b])
    BY <1>6 DEF Ranked
  <2>0. \A k, m \in 1..n : k < m => Ahead(ps, list[k], list[m])
    <3> SUFFICES ASSUME NEW k \in 1..n, NEW m \in 1..n, k < m PROVE Ahead(ps, list[k], list[m])
      OBVIOUS
    <3>1. Ahead(orders, list[k], list[m])
      BY <1>1 DEF Ranked
    <3> QED BY <1>8, <3>1 DEF Ahead
  <2>1. \A k \in 1..n : ~ Better(k) => Ahead(ps, list[k], id)
    BY <1>2, <1>8, <1>9 DEF Better, Ahead, BetterPrice, Sides
  <2>2. \A k \in 1..n : Better(k) => Ahead(ps, id, list[k])
    BY <1>2, <1>8, <1>9 DEF Better, Ahead, BetterPrice, Sides
  <2>3. a \in Int /\ b \in Int /\ p \in Int
    OBVIOUS
  <2>4. CASE a < p /\ b < p
    BY <1>7, <2>0, <2>3, <2>4
  <2>5. CASE a < p /\ b = p
    BY <1>7, <2>1, <2>3, <2>5
  <2>6. CASE a < p /\ b > p
    <3>1. a \in 1..n /\ b - 1 \in 1..n /\ a < b - 1 /\ t[a] = list[a] /\ t[b] = list[b - 1]
      BY <1>7, <2>3, <2>6
    <3> QED BY <2>0, <3>1
  <2>7. CASE a = p /\ b > p
    BY <1>7, <2>2, <2>3, <2>7
  <2>8. CASE a > p /\ b > p
    <3>1. a - 1 \in 1..n /\ b - 1 \in 1..n /\ a - 1 < b - 1 /\ t[a] = list[a - 1] /\ t[b] = list[b - 1]
      BY <1>7, <2>3, <2>8
    <3> QED BY <2>0, <3>1
  <2> QED BY <2>3, <2>4, <2>5, <2>6, <2>7, <2>8
<1>12. \A i \in D : Live(ps[i]) /\ InQueue(ps[i], key, side) => Listed(t, i)
  <2> SUFFICES ASSUME NEW i \in D, Live(ps[i]), InQueue(ps[i], key, side) PROVE Listed(t, i)
    OBVIOUS
  <2>1. CASE i = id
    BY <1>5, <1>6, <2>1 DEF Listed
  <2>2. CASE i # id
    <3>1. i \in DOMAIN orders
      BY <1>2, <2>2
    <3>2. Listed(list, i)
      BY <1>1, <1>2, <3>1
    <3>3. PICK k \in 1..n : list[k] = i
      BY <1>1, <3>2 DEF Listed
    <3>4. CASE k < p
      <4>1. k \in 1..(p - 1) /\ k \in 1..(n + 1)
        BY <3>4, <1>1
      <4> QED BY <1>5, <1>6, <3>3, <4>1 DEF Listed
    <3>5. CASE ~ (k < p)
      <4>1. k \in p..n /\ k + 1 \in 1..(n + 1)
        BY <3>5, <1>1
      <4> QED BY <1>5, <1>6, <3>3, <4>1 DEF Listed
    <3> QED BY <3>4, <3>5
  <2> QED BY <2>1, <2>2
<1> QED BY <1>5, <1>10, <1>11, <1>12 DEF ListOf, t, ps, D

\* The lists of the other queues do not see the new order.
LEMMA ListOfAppended ==
  ASSUME NEW os \in Seq(Placed), NEW order \in Placed, NEW list, NEW key, NEW side,
         ListOf(os, list, key, side), ~ InQueue(order, key, side)
  PROVE  ListOf(Append(os, order), list, key, side)
<1> DEFINE ps == Append(os, order)
<1>1. /\ DOMAIN ps = 1..(Len(os) + 1) /\ Len(os) \in Nat /\ DOMAIN os = 1..Len(os)
      /\ DOMAIN os \subseteq DOMAIN ps
      /\ ps[Len(os) + 1] = order /\ \A i \in DOMAIN os : ps[i] = os[i]
  BY AppendedOrders
<1> HIDE DEF ps
<1>2. list \in Seq(DOMAIN os) /\ list \in Seq(DOMAIN ps)
      /\ \A k \in DOMAIN list : list[k] \in DOMAIN os
  <2>1. list \in Seq(DOMAIN os)
    BY DEF ListOf
  <2>2. \A k \in 1..Len(list) : list[k] \in DOMAIN ps
    BY <1>1, <2>1
  <2> QED BY <2>1, <2>2
<1>3. Ranked(ps, list)
  <2> SUFFICES ASSUME NEW k \in DOMAIN list, NEW m \in DOMAIN list, k < m
               PROVE  Ahead(ps, list[k], list[m])
    BY DEF Ranked
  <2>1. Ahead(os, list[k], list[m])
    BY DEF ListOf, Ranked
  <2> QED BY <1>1, <1>2, <2>1 DEF Ahead
<1>4. \A k \in DOMAIN list : InQueue(ps[list[k]], key, side)
  BY <1>1, <1>2 DEF ListOf
<1>5. \A i \in DOMAIN ps : Live(ps[i]) /\ InQueue(ps[i], key, side) => Listed(list, i)
  <2> SUFFICES ASSUME NEW i \in DOMAIN ps, Live(ps[i]), InQueue(ps[i], key, side)
               PROVE  Listed(list, i)
    OBVIOUS
  <2>1. i \in DOMAIN os
    BY <1>1
  <2> QED BY <1>1, <2>1 DEF ListOf
<1> QED BY <1>2, <1>3, <1>4, <1>5 DEF ListOf, ps

-----------------------------------------------------------------------------
(* The invariant.  A list is only ranked and complete because every order   *)
(* on it is of its queue and no two share a place; an order is only filled  *)
(* within its amount because an open one is not yet filled; and a pool only *)
(* answers for the legs it can settle because the index names its pair.     *)

TradeInv ==
  /\ orders \in Seq(Placed) /\ Book(orders, book)
  /\ PoolIndex(pools)
  /\ admin \in Parties \cup {NoAdmin} /\ balance \in Balances /\ now \in 0..MaxTime

LEMMA TradeInvTypes == TradeInv => TypeOK
<1> SUFFICES ASSUME TradeInv PROVE TypeOK
  OBVIOUS
<1>1. \A i \in DOMAIN orders : orders[i] \in Placed
  BY DEF TradeInv
<1>2. \A i \in 1..Len(orders) : orders[i] \in Order /\ orders[i].filled <= orders[i].amount
  <2>1. DOMAIN orders = 1..Len(orders)
    BY DEF TradeInv
  <2> QED BY <1>1, <2>1, PlacedTypes
<1>3. orders \in Seq(Order)
  BY <1>2 DEF TradeInv
<1>4. DOMAIN orders = 1..Len(orders)
  BY <1>3
<1> QED BY <1>2, <1>3, <1>4 DEF TradeInv, TypeOK, Book, PoolIndex, Balances

LEMMA TradeInvInit == Init => TradeInv
<1> SUFFICES ASSUME Init PROVE TradeInv
  OBVIOUS
<1>1. orders = << >> /\ orders \in Seq(Placed) /\ DOMAIN orders = {}
  BY DEF Init
<1>2. \A key \in PairKeys, side \in Sides : book[key][side] = << >>
  BY DEF Init
<1>3. book \in [PairKeys -> [Sides -> Seq(DOMAIN orders)]]
  BY DEF Init
<1>4. \A key, side : ListOf(orders, << >>, key, side)
  BY <1>1 DEF ListOf, Ranked
<1>5. Book(orders, book)
  BY <1>2, <1>3, <1>4 DEF Book
<1>6. PoolIndex(pools)
  BY DEF Init, PoolIndex
<1>7. balance \in Balances /\ now \in 0..MaxTime
  BY InputAssumption DEF Init, Balances
<1> QED BY <1>1, <1>5, <1>6, <1>7 DEF TradeInv, Init

\* Liveness of an order depends on the time only.
LEMMA BookNext == ASSUME now' = now, Book(orders', book') PROVE Book(orders, book)'
  BY DEF Book, ListOf, Live

LEMMA TradeInvTick == ASSUME TradeInv, Tick PROVE TradeInv'
<1>1. orders' = orders /\ book' = book /\ pools' = pools /\ pairPool' = pairPool
      /\ admin' = admin /\ balance' = balance /\ now' = now + 1 /\ now' \in 0..MaxTime
  BY InputAssumption DEF Tick, TradeInv
<1>2. \A i \in DOMAIN orders : Live(orders[i])' => Live(orders[i])
  <2> SUFFICES ASSUME NEW i \in DOMAIN orders, Live(orders[i])' PROVE Live(orders[i])
    OBVIOUS
  <2>1. orders[i] \in Placed
    BY DEF TradeInv
  <2>2. orders[i].expiresAt \in Nat /\ now \in Nat
    BY <2>1, PlacedTypes DEF TradeInv
  <2> QED BY <1>1, <2>2 DEF Live, Open
<1>3. \A list, key, side : ListOf(orders, list, key, side) => ListOf(orders, list, key, side)'
  <2> SUFFICES ASSUME NEW list, NEW key, NEW side, ListOf(orders, list, key, side)
               PROVE  ListOf(orders, list, key, side)'
    OBVIOUS
  <2> QED BY <1>1, <1>2 DEF ListOf
<1>4. Book(orders, book)'
  BY <1>1, <1>3 DEF Book, TradeInv
<1> QED BY <1>1, <1>4 DEF TradeInv, PoolIndex

LEMMA TradeInvInitialize == ASSUME TradeInv, NEW p \in Parties, Initialize(p) PROVE TradeInv'
<1>1. Book(orders, book)'
  BY BookNext DEF Initialize, TradeInv
<1> QED BY <1>1 DEF TradeInv, PoolIndex, Initialize

\* The order a call places
NewOrder(owner, base, quote, side, price, amount, expiresAt) ==
  [owner |-> owner, base |-> base, quote |-> quote, side |-> side, price |-> price,
   amount |-> amount, filled |-> 0, status |-> "Pending", expiresAt |-> expiresAt]

LEMMA NewOrderPlaced ==
  ASSUME NEW p \in Parties, NEW pair \in Pairs, NEW side \in Sides, NEW price \in Prices,
         NEW amount \in Amounts, NEW expiry \in Expiries, amount > 0, pair[1] # pair[2]
  PROVE  LET order == NewOrder(p, pair[1], pair[2], side, price, amount, expiry)
         IN /\ order \in Placed /\ LockedAsset(order) \in Assets
            /\ Locked(order, amount) \in Nat
<1> DEFINE order == NewOrder(p, pair[1], pair[2], side, price, amount, expiry)
<1>1. /\ pair[1] \in Assets /\ pair[2] \in Assets /\ pair = <<pair[1], pair[2]>>
      /\ price \in Nat /\ amount \in Nat \ {0} /\ expiry \in Nat
  BY InputAssumption
<1>2. order \in Order
  BY <1>1 DEF Order, NewOrder
<1>3. order \in Placed
  BY <1>1, <1>2 DEF Placed, NewOrder
<1>4. LockedAsset(order) \in Assets
  BY <1>1 DEF LockedAsset, NewOrder
<1>5. Locked(order, amount) \in Nat
  <2>1. QuoteOf(amount, price) \in Nat
    BY <1>1, QuoteNat
  <2> QED BY <1>1, <2>1 DEF Locked, NewOrder
<1> QED BY <1>3, <1>4, <1>5

LEMMA TradeInvPlace ==
  ASSUME TradeInv, NEW p \in Parties, NEW pair \in Pairs, NEW side \in Sides,
         NEW type \in OrderTypes, NEW price \in Prices, NEW amount \in Amounts,
         NEW expiry \in Expiries,
         PlaceOrder(p, pair[1], pair[2], side, type, price, amount, expiry)
  PROVE  TradeInv'
<1> DEFINE order == NewOrder(p, pair[1], pair[2], side, price, amount, expiry)
           id == Len(orders) + 1
           key == PairKey(pair[1], pair[2])
           list == book[key][side]
           asset == LockedAsset(order)
           locks == Locked(order, amount)
<1>1. /\ amount > 0 /\ pair[1] # pair[2]
      /\ CanMove(balance, asset, p, Contract, locks)
      /\ balance' = Move(balance, asset, p, Contract, locks)
      /\ orders' = Append(orders, order)
      /\ book' = [book EXCEPT ![key][side] = Enlist(list, id, order)]
      /\ UNCHANGED <<pools, pairPool, admin, now>>
  BY DEF PlaceOrder, NewOrder
<1>2. order \in Placed /\ asset \in Assets /\ locks \in Nat
  BY <1>1, NewOrderPlaced
<1>3. key \in PairKeys /\ InQueue(order, key, side)
  <2>1. pair \in AssetPairs
    BY <1>1, InputAssumption DEF AssetPairs
  <2> QED BY <2>1 DEF PairKeys, InQueue, NewOrder
<1>4. \A k, s : InQueue(order, k, s) => k = key /\ s = side
  BY DEF InQueue, NewOrder
<1> HIDE DEF order, asset, locks, key
<1>5. orders \in Seq(Placed) /\ Book(orders, book) /\ balance \in Balances
      /\ book \in [PairKeys -> [Sides -> Seq(DOMAIN orders)]]
  BY DEF TradeInv, Book
<1>6. /\ orders' \in Seq(Placed) /\ DOMAIN orders \subseteq DOMAIN orders'
  BY <1>1, <1>2, <1>5, AppendedOrders
<1>7. ListOf(orders', Enlist(list, id, order), key, side)
  <2>1. ListOf(orders, list, key, side)
    BY <1>3, <1>5 DEF Book
  <2> QED BY <1>1, <1>2, <1>3, <1>5, <2>1, EnlistEffect
<1>8. \A k \in PairKeys, s \in Sides :
        book'[k][s] = IF k = key /\ s = side THEN Enlist(list, id, order) ELSE book[k][s]
  BY <1>1, <1>3, <1>5
<1>9. \A k \in PairKeys, s \in Sides : ListOf(orders', book'[k][s], k, s)
  <2> SUFFICES ASSUME NEW k \in PairKeys, NEW s \in Sides PROVE ListOf(orders', book'[k][s], k, s)
    OBVIOUS
  <2>1. CASE k = key /\ s = side
    BY <1>7, <1>8, <2>1
  <2>2. CASE ~ (k = key /\ s = side)
    <3>1. ListOf(orders, book[k][s], k, s) /\ ~ InQueue(order, k, s)
      BY <1>4, <1>5, <2>2 DEF Book
    <3>2. ListOf(orders', book[k][s], k, s)
      BY <1>1, <1>2, <1>5, <3>1, ListOfAppended
    <3> QED BY <1>8, <2>2, <3>2
  <2> QED BY <2>1, <2>2
<1>10. book' \in [PairKeys -> [Sides -> Seq(DOMAIN orders')]]
  <2>1. /\ book' = [k \in PairKeys |-> book'[k]]
        /\ \A k \in PairKeys : book'[k] = [s \in Sides |-> book'[k][s]]
    BY <1>1, <1>5
  <2>2. \A k \in PairKeys, s \in Sides : book'[k][s] \in Seq(DOMAIN orders')
    BY <1>9 DEF ListOf
  <2> QED BY <2>1, <2>2
<1>11. Book(orders, book)'
  <2>1. Book(orders', book')
    BY <1>9, <1>10 DEF Book
  <2> QED BY <1>1, <2>1, BookNext
<1>12. balance' \in Balances
  BY <1>1, <1>2, <1>5, MoveEffect, PartyAccounts
<1> QED BY <1>1, <1>6, <1>11, <1>12 DEF TradeInv, PoolIndex

\* A list without the order that is cancelled.
LEMMA ListOfCancelled ==
  ASSUME NEW os \in Seq(Placed), NEW ps, NoMoreLive(os, ps), NEW list, NEW key, NEW side,
         ListOf(os, list, key, side), NEW id, ~ Live(ps[id])
  PROVE  ListOf(ps, Delist(list, id), key, side)
<1> DEFINE kept == Delist(list, id)
<1>1. ListOf(ps, list, key, side)
  BY ListOfKept
<1>2. DOMAIN ps = DOMAIN os
  BY DEF NoMoreLive
<1>3. list \in Seq(DOMAIN os) /\ list \in Seq(DOMAIN ps) /\ Ranked(ps, list)
      /\ \A k \in DOMAIN list : InQueue(ps[list[k]], key, side)
      /\ \A i \in DOMAIN ps : Live(ps[i]) /\ InQueue(ps[i], key, side) => Listed(list, i)
  BY <1>1, <1>2 DEF ListOf
<1>4. /\ kept \in Seq(DOMAIN ps) /\ From(kept, list, Len(list)) /\ Ranked(ps, kept)
      /\ \A i : Listed(list, i) /\ i # id => Listed(kept, i)
  BY <1>3, DelistEffect
<1> HIDE DEF kept
<1>5. \A k \in DOMAIN kept : InQueue(ps[kept[k]], key, side)
  <2> SUFFICES ASSUME NEW k \in DOMAIN kept PROVE InQueue(ps[kept[k]], key, side)
    OBVIOUS
  <2>1. PICK m \in 1..Len(list) : kept[k] = list[m]
    BY <1>4 DEF From
  <2> QED BY <1>3, <2>1
<1>6. \A i \in DOMAIN ps : Live(ps[i]) /\ InQueue(ps[i], key, side) => Listed(kept, i)
  <2> SUFFICES ASSUME NEW i \in DOMAIN ps, Live(ps[i]), InQueue(ps[i], key, side)
               PROVE  Listed(kept, i)
    OBVIOUS
  <2>1. i # id
    BY <1>2
  <2>2. Listed(list, i)
    BY <1>1, <1>2 DEF ListOf
  <2> QED BY <1>4, <2>1, <2>2
<1> QED BY <1>4, <1>5, <1>6 DEF ListOf, kept

\* What cancelling makes of an order
CancelledForm(order) == [order EXCEPT !.status = "Cancelled"]

LEMMA CancelledPlaced ==
  ASSUME NEW o \in Placed
  PROVE  /\ CancelledForm(o) \in Placed /\ SameTerms(o, CancelledForm(o))
         /\ ~ Open(CancelledForm(o)) /\ CancelledForm(o).filled = o.filled
<1> DEFINE p == CancelledForm(o)
<1>1. o \in Order
  BY PlacedTypes
<1>2. p \in Order /\ SameTerms(o, p) /\ p.status = "Cancelled" /\ p.filled = o.filled
  BY <1>1 DEF CancelledForm, Order, SameTerms
<1> HIDE DEF p
<1>3. ~ Open(p)
  BY <1>2 DEF Open
<1>4. p \in Placed
  BY <1>2, <1>3 DEF Placed, SameTerms
<1> QED BY <1>2, <1>3, <1>4 DEF p

\* The orders after a cancellation
LEMMA CancelledOrders ==
  ASSUME NEW os \in Seq(Placed), NEW id \in DOMAIN os
  PROVE  LET ps == [os EXCEPT ![id].status = "Cancelled"]
         IN /\ ps \in Seq(Placed) /\ Len(ps) = Len(os) /\ NoMoreLive(os, ps) /\ ~ Live(ps[id])
            /\ ps[id] = CancelledForm(os[id])
            /\ \A i \in DOMAIN os : i # id => ps[i] = os[i]
<1> DEFINE p == CancelledForm(os[id])
           ps == [os EXCEPT ![id] = p]
<1>1. [os EXCEPT ![id].status = "Cancelled"] = ps
  BY DEF CancelledForm
<1>2. p \in Placed /\ SameTerms(os[id], p) /\ ~ Open(p)
  BY CancelledPlaced
<1> HIDE DEF p
<1>3. /\ ps \in Seq(Placed) /\ Len(ps) = Len(os) /\ ps[id] = p
      /\ \A i \in DOMAIN os : i # id => ps[i] = os[i]
  BY <1>2, ExceptSeq
<1>4. DOMAIN ps = DOMAIN os
  OBVIOUS
<1> HIDE DEF ps
<1>5. NoMoreLive(os, ps) /\ ~ Live(ps[id])
  BY <1>2, <1>3, <1>4 DEF NoMoreLive, Live, SameTerms
<1> QED BY <1>1, <1>3, <1>5 DEF p, ps

LEMMA TradeInvCancel == ASSUME TradeInv, NEW id \in DOMAIN orders, CancelOrder(id) PROVE TradeInv'
<1> DEFINE order == orders[id]
           key == PairKey(order.base, order.quote)
           side == order.side
           list == book[key][side]
           asset == LockedAsset(order)
           back == Locked(order, Unfilled(order))
<1>1. /\ CanMove(balance, asset, Contract, order.owner, back)
      /\ balance' = Move(balance, asset, Contract, order.owner, back)
      /\ orders' = [orders EXCEPT ![id].status = "Cancelled"]
      /\ book' = [book EXCEPT ![key][side] = Delist(list, id)]
      /\ UNCHANGED <<pools, pairPool, admin, now>>
  BY DEF CancelOrder
<1>2. orders \in Seq(Placed) /\ order \in Placed /\ Book(orders, book) /\ balance \in Balances
  BY DEF TradeInv
<1>3. /\ order.owner \in Parties /\ order.base \in Assets /\ order.quote \in Assets
      /\ side \in Sides /\ order.base # order.quote /\ order.price \in Nat
      /\ Unfilled(order) \in Nat
  BY <1>2, PlacedTypes DEF Unfilled
<1>4. key \in PairKeys
  <2>1. <<order.base, order.quote>> \in AssetPairs
    BY <1>3 DEF AssetPairs
  <2> QED BY <2>1 DEF PairKeys
<1>5. asset \in Assets /\ back \in Nat
  BY <1>3, QuoteNat DEF LockedAsset, Locked
<1>6. balance' \in Balances
  <2>1. order.owner \in Accounts /\ Contract \in Accounts
    BY <1>3, PartyAccounts
  <2> HIDE DEF order, asset, back
  <2> QED BY <1>1, <1>2, <1>5, <2>1, MoveEffect
<1> HIDE DEF order, key, side, list, asset, back
<1>7. /\ orders' \in Seq(Placed) /\ NoMoreLive(orders, orders') /\ ~ Live(orders'[id])
  BY <1>1, <1>2, CancelledOrders
<1>8. ListOf(orders', Delist(list, id), key, side)
  <2>1. ListOf(orders, list, key, side)
    BY <1>2, <1>3, <1>4 DEF Book, list
  <2> QED BY <1>2, <1>7, <2>1, ListOfCancelled
<1>9. Book(orders, book)'
  <2>1. Book(orders', book')
    BY <1>1, <1>2, <1>3, <1>4, <1>7, <1>8, BookAfter
  <2> QED BY <1>1, <2>1, BookNext
<1> QED BY <1>1, <1>6, <1>7, <1>9 DEF TradeInv, PoolIndex

LEMMA StartTrading ==
  ASSUME TradeInv
  PROVE  /\ Trading(Start) /\ Start.ok /\ Start.orders = orders /\ Start.balance = balance
         /\ Start.pools = pools
  BY DEF TradeInv, Trading, Ready, IsRun, Start

LEMMA TradeInvExecute ==
  ASSUME TradeInv, NEW p \in Parties, NEW legs \in Trades, ExecuteTrade(p, legs)
  PROVE  TradeInv' /\ Advanced(orders, orders')
<1> DEFINE end == MatchLegs(p, legs)
<1>1. /\ end.ok /\ orders' = end.orders /\ book' = end.book /\ pools' = end.pools
      /\ balance' = end.balance /\ UNCHANGED <<pairPool, admin, now>>
  BY DEF ExecuteTrade
<1>2. legs \in Seq(TradeLeg)
  BY InputAssumption
<1>3. Trading(end) /\ Advanced(orders, end.orders)
  BY <1>1, <1>2, StartTrading, MatchLegsEffect
<1> HIDE DEF end
<1>4. /\ orders' \in Seq(Placed) /\ Book(orders', book') /\ balance' \in Balances
      /\ PoolIndex(pools')
  BY <1>1, <1>3 DEF Trading, Ready
<1>5. Book(orders, book)'
  BY <1>1, <1>4, BookNext
<1>6. PoolIndex(pools)'
  BY <1>1, <1>4 DEF PoolIndex
<1> QED BY <1>1, <1>3, <1>4, <1>5, <1>6 DEF TradeInv

LEMMA TradeInvPool ==
  ASSUME TradeInv, NEW offer \in PoolOffers, AddLiquidityPool(offer) PROVE TradeInv'
<1> DEFINE id == Len(pools) + 1
           mid == Move(balance, offer.a, admin, Contract, offer.reserveA)
<1>1. /\ offer.reserveA > 0 /\ offer.reserveB > 0 /\ offer.a # offer.b /\ admin # NoAdmin
      /\ CanMove(balance, offer.a, admin, Contract, offer.reserveA)
      /\ CanMove(mid, offer.b, admin, Contract, offer.reserveB)
      /\ balance' = Move(mid, offer.b, admin, Contract, offer.reserveB)
      /\ pools' = Append(pools, offer)
      /\ pairPool' = [pairPool EXCEPT ![<<offer.a, offer.b>>] = id]
      /\ UNCHANGED <<orders, book, admin, now>>
  BY DEF AddLiquidityPool
<1>2. offer \in Pool
  <2>1. offer \in [a : Assets, b : Assets, reserveA : Int, reserveB : Int, fee : Nat]
    BY InputAssumption
  <2> QED BY <1>1, <2>1 DEF Pool
<1>3. /\ admin \in Accounts /\ Contract \in Accounts /\ offer.a \in Assets /\ offer.b \in Assets
      /\ offer.reserveA \in Int /\ offer.reserveB \in Int /\ balance \in Balances
  BY <1>1, <1>2, PartyAccounts DEF TradeInv, Pool
<1>4. mid \in Balances
  BY <1>1, <1>3, MoveEffect
<1> HIDE DEF mid
<1>5. balance' \in Balances
  BY <1>1, <1>3, <1>4, MoveEffect
<1>6. PoolIndex(pools)'
  <2>1. /\ pools \in Seq(Pool) /\ \A k \in DOMAIN pools : pools[k].a # pools[k].b
        /\ pairPool \in [AssetPairs -> {0} \cup DOMAIN pools]
        /\ \A ab \in AssetPairs :
             pairPool[ab] # 0 => pools[pairPool[ab]].a = ab[1] /\ pools[pairPool[ab]].b = ab[2]
    BY DEF TradeInv, PoolIndex
  <2>2. /\ pools' \in Seq(Pool) /\ DOMAIN pools = 1..Len(pools) /\ Len(pools) \in Nat
        /\ Len(pools') = id /\ pools'[id] = offer
        /\ \A k \in 1..Len(pools) : pools'[k] = pools[k]
    BY <1>1, <1>2, <2>1, AppendProperties
  <2>3. DOMAIN pools' = 1..id /\ DOMAIN pools \subseteq DOMAIN pools' /\ id \in DOMAIN pools'
    BY <2>2
  <2>4. \A k \in DOMAIN pools' : pools'[k].a # pools'[k].b
    <3> SUFFICES ASSUME NEW k \in 1..id PROVE pools'[k].a # pools'[k].b
      BY <2>3
    <3>1. k = id \/ k \in 1..Len(pools)
      BY <2>2
    <3> QED BY <1>1, <2>1, <2>2, <3>1
  <2>5. pairPool' \in [AssetPairs -> {0} \cup DOMAIN pools']
    BY <1>1, <2>1, <2>3
  <2>6. \A ab \in AssetPairs :
          pairPool'[ab] # 0 => pools'[pairPool'[ab]].a = ab[1] /\ pools'[pairPool'[ab]].b = ab[2]
    <3> SUFFICES ASSUME NEW ab \in AssetPairs, pairPool'[ab] # 0
                 PROVE  pools'[pairPool'[ab]].a = ab[1] /\ pools'[pairPool'[ab]].b = ab[2]
      OBVIOUS
    <3>1. CASE ab = <<offer.a, offer.b>>
      <4>1. pairPool'[ab] = id
        BY <1>1, <2>1, <3>1
      <4> QED BY <2>2, <3>1, <4>1
    <3>2. CASE ab # <<offer.a, offer.b>>
      <4>1. pairPool'[ab] = pairPool[ab]
        BY <1>1, <2>1, <3>2
      <4>2. pairPool[ab] \in 1..Len(pools)
        BY <2>1, <2>2, <4>1
      <4> QED BY <2>1, <2>2, <4>1, <4>2
    <3> QED BY <3>1, <3>2
  <2> QED BY <2>2, <2>4, <2>5, <2>6 DEF PoolIndex
<1>7. Book(orders, book)'
  BY <1>1, BookNext DEF TradeInv
<1> QED BY <1>1, <1>5, <1>6, <1>7 DEF TradeInv

LEMMA TradeInvStep == TradeInv /\ [Next]_vars => TradeInv'
<1> SUFFICES ASSUME TradeInv, [Next]_vars PROVE TradeInv'
  OBVIOUS
<1>1. ASSUME NEW p \in Parties, Initialize(p) PROVE TradeInv'
  BY <1>1, TradeInvInitialize
<1>2. ASSUME NEW p \in Parties, NEW pair \in Pairs, NEW side \in Sides, NEW type \in OrderTypes,
             NEW price \in Prices, NEW amount \in Amounts, NEW expiry \in Expiries,
             PlaceOrder(p, pair[1], pair[2], side, type, price, amount, expiry)
      PROVE  TradeInv'
  BY <1>2, TradeInvPlace
<1>3. ASSUME NEW id \in DOMAIN orders, CancelOrder(id) PROVE TradeInv'
  BY <1>3, TradeInvCancel
<1>4. ASSUME NEW p \in Parties, NEW legs \in Trades, ExecuteTrade(p, legs) PROVE TradeInv'
  BY <1>4, TradeInvExecute
<1>5. ASSUME NEW offer \in PoolOffers, AddLiquidityPool(offer) PROVE TradeInv'
  BY <1>5, TradeInvPool
<1>6. CASE Tick
  BY <1>6, TradeInvTick
<1>7. CASE UNCHANGED vars
  <2>1. Book(orders, book)'
    BY <1>7, BookNext DEF TradeInv, vars
  <2> QED BY <1>7, <2>1 DEF TradeInv, PoolIndex, vars
<1> QED BY <1>1, <1>2, <1>3, <1>4, <1>5, <1>6, <1>7 DEF Next

LEMMA TradeInvAlways == Spec => []TradeInv
  BY TradeInvInit, TradeInvStep, PTL DEF Spec

\* The trade engine keeps its types: no balance, reserve or fill ever leaves its range
\* (transfer_token, fill_order and the pool arithmetic).
THEOREM TypeCorrect == Spec => []TypeOK
  BY TradeInvAlways, TradeInvTypes, PTL

-----------------------------------------------------------------------------
(* The lists implement price-time priority: every call is a step of         *)
(* PriceTimeBook or leaves the orders alone.                                *)

LEMMA PlaceIsPlace ==
  ASSUME TradeInv, NEW p \in Parties, NEW pair \in Pairs, NEW side \in Sides,
         NEW type \in OrderTypes, NEW price \in Prices, NEW amount \in Amounts,
         NEW expiry \in Expiries,
         PlaceOrder(p, pair[1], pair[2], side, type, price, amount, expiry)
  PROVE  PriceTime!Place
<1> DEFINE order == NewOrder(p, pair[1], pair[2], side, price, amount, expiry)
<1>1. amount > 0 /\ pair[1] # pair[2] /\ orders' = Append(orders, order) /\ now' = now
  BY DEF PlaceOrder, NewOrder
<1>2. order \in Placed
  BY <1>1, NewOrderPlaced
<1>3. order.status = "Pending" /\ order.filled = 0
  BY DEF NewOrder
<1> HIDE DEF order
<1>4. orders \in Seq(Placed)
  BY DEF TradeInv
<1>5. Len(orders') = Len(orders) + 1 /\ orders'[Len(orders')] = order
  BY <1>1, <1>2, <1>4, AppendedOrders
<1> QED BY <1>1, <1>3, <1>5 DEF PriceTime!Place

LEMMA ExecuteIsTrade ==
  ASSUME TradeInv, Advanced(orders, orders'), now' = now
  PROVE  PriceTime!Trade
<1> DEFINE taken == {i \in DOMAIN orders : orders'[i] # orders[i]}
<1>1. orders \in Seq(Placed) /\ DOMAIN orders' = DOMAIN orders
  BY DEF TradeInv, Advanced
<1>2. ASSUME NEW j \in taken
      PROVE  /\ PriceTime!Live(orders[j])
             /\ \E amount \in 1..(orders[j].amount - orders[j].filled) :
                  orders'[j] = PriceTime!FilledBy(orders[j], amount)
             /\ \A i \in DOMAIN orders :
                  PriceTime!Before(i, j) /\ PriceTime!Live(orders[i]) => orders'[i].status = "Filled"
  <2>1. j \in DOMAIN orders /\ orders'[j] # orders[j] /\ orders[j] \in Placed
    BY <1>1
  <2>2. FilledOn(orders[j], orders'[j])
    BY <2>1 DEF Advanced
  <2>3. Live(orders[j]) /\ Open(orders[j])
    BY <2>1, <2>2 DEF FilledOn, Live
  <2>4. PICK amount \in 1..Unfilled(orders[j]) : orders'[j] = FilledBy(orders[j], amount)
    BY <2>1, <2>2 DEF FilledOn
  <2>5. orders[j].amount \in Nat /\ orders[j].filled \in Nat
    BY <2>1, PlacedTypes
  <2>6. orders[j].filled + amount >= orders[j].amount <=> orders[j].filled + amount = orders[j].amount
    BY <2>5 DEF Unfilled
  <2>7. FilledBy(orders[j], amount) = PriceTime!FilledBy(orders[j], amount)
    BY <2>6 DEF FilledBy, PriceTime!FilledBy
  <2>8. ASSUME NEW i \in DOMAIN orders, PriceTime!Before(i, j), PriceTime!Live(orders[i])
        PROVE  orders'[i].status = "Filled"
    <3>1. Live(orders[i])
      BY <2>8 DEF PriceTime!Live, PriceTime!Open, Live, Open
    <3>2. InQueue(orders[i], PairKey(orders[j].base, orders[j].quote), orders[j].side)
      BY <2>8 DEF PriceTime!Before, PriceTime!SameQueue, InQueue, PairKey
    <3>3. Ahead(orders, i, j)
      BY <2>8 DEF PriceTime!Before, PriceTime!SameQueue, Ahead, BetterPrice
    <3> QED BY <2>1, <3>1, <3>2, <3>3 DEF Advanced
  <2> QED BY <2>3, <2>4, <2>7, <2>8 DEF PriceTime!Live, PriceTime!Open, Live, Open, Unfilled
<1> HIDE DEF taken
<1> QED BY <1>1, <1>2 DEF PriceTime!Trade, taken

LEMMA PriceTimeStep == TradeInv /\ [Next]_vars => [PriceTime!Next]_(PriceTime!vars)
<1> SUFFICES ASSUME TradeInv, [Next]_vars PROVE [PriceTime!Next]_(PriceTime!vars)
  OBVIOUS
<1>1. ASSUME NEW p \in Parties, NEW pair \in Pairs, NEW side \in Sides, NEW type \in OrderTypes,
             NEW price \in Prices, NEW amount \in Amounts, NEW expiry \in Expiries,
             PlaceOrder(p, pair[1], pair[2], side, type, price, amount, expiry)
      PROVE  PriceTime!Next
  <2>1. PriceTime!Place
    BY <1>1, PlaceIsPlace
  <2> QED BY <2>1 DEF PriceTime!Next
<1>2. ASSUME NEW id \in DOMAIN orders, CancelOrder(id) PROVE PriceTime!Next
  <2>1. PriceTime!Open(orders[id]) /\ orders' = [orders EXCEPT ![id].status = "Cancelled"]
        /\ now' = now
    BY <1>2 DEF CancelOrder, Open, PriceTime!Open
  <2> QED BY <2>1 DEF PriceTime!Next, PriceTime!Cancel
<1>3. ASSUME NEW p \in Parties, NEW legs \in Trades, ExecuteTrade(p, legs) PROVE PriceTime!Next
  <2>1. Advanced(orders, orders') /\ now' = now
    BY <1>3, TradeInvExecute DEF ExecuteTrade
  <2>2. PriceTime!Trade
    BY <2>1, ExecuteIsTrade
  <2> QED BY <2>2 DEF PriceTime!Next
<1>4. CASE Tick
  BY <1>4 DEF Tick, PriceTime!Next, PriceTime!Tick
<1>5. CASE UNCHANGED vars \/ (\E p \in Parties : Initialize(p))
           \/ (\E offer \in PoolOffers : AddLiquidityPool(offer))
  BY <1>5 DEF vars, Initialize, AddLiquidityPool, PriceTime!vars
<1> QED BY <1>1, <1>2, <1>3, <1>4, <1>5 DEF Next

\* The lists of the trade engine implement price-time priority (add_order and match_leg):
\* a trade reaches an order only when every live order in front of it is filled, nothing
\* is filled beyond its amount or after it expired, and a closed order never changes.
THEOREM PriceTimeKept == Spec => ImplementsPriceTime
<1>1. Init => PriceTime!Init
  BY DEF Init, PriceTime!Init
<1> QED BY <1>1, TradeInvAlways, PriceTimeStep, PTL DEF Spec, ImplementsPriceTime, PriceTime!Spec

-----------------------------------------------------------------------------
(* Solvency.  Two things the code leaves to its callers are hypotheses: the *)
(* amounts never saturate a quote, and no leg trades a pair the other way   *)
(* round than its orders were placed.  Then no step lowers what the         *)
(* contract holds beyond what it owes, and only the rounding of bids raises *)
(* it, because the quotes of the parts of a bid sum to no more than the     *)
(* quote of the whole.                                                      *)

NoSaturation == \A amount \in Amounts, price \in Prices : amount * price <= MaxU128

OneOrientation ==
  \A legs \in Trades : \A k \in DOMAIN legs : <<legs[k].quote, legs[k].base>> \notin Pairs

OnlyBase(a) == \A pair \in Pairs : pair[2] # a

\* The quotes of two parts are covered by the quote of the whole.
LEMMA QuoteSplit ==
  ASSUME NEW b \in Nat, NEW c \in Nat, NEW price \in Nat, (b + c) * price <= MaxU128
  PROVE  QuoteOf(b, price) + QuoteOf(c, price) <= QuoteOf(b + c, price)
<1>1. b * price \in Nat /\ c * price \in Nat /\ (b + c) * price = b * price + c * price
  OBVIOUS
<1> DEFINE x == b * price
           y == c * price
<1>2. x \in Nat /\ y \in Nat /\ (b + c) * price = x + y /\ x + y <= MaxU128
  BY <1>1
<1>3. /\ QuoteOf(b, price) = Least(x, MaxU128) \div Precision
      /\ QuoteOf(c, price) = Least(y, MaxU128) \div Precision
      /\ QuoteOf(b + c, price) = Least(x + y, MaxU128) \div Precision
  BY <1>2 DEF QuoteOf
<1> HIDE DEF x, y
<1>4. Least(x, MaxU128) = x /\ Least(y, MaxU128) = y /\ Least(x + y, MaxU128) = x + y
  BY <1>2, ScaleAssumption DEF Least
<1>5. (x \div Precision) + (y \div Precision) <= (x + y) \div Precision
  BY <1>2, ScaleAssumption
<1> QED BY <1>3, <1>4, <1>5

LEMMA QuoteNone == ASSUME NEW price \in Nat PROVE QuoteOf(0, price) = 0
<1>1. 0 * price = 0 /\ Least(0, MaxU128) = 0
  BY ScaleAssumption DEF Least
<1> QED BY <1>1, ScaleAssumption DEF QuoteOf

\* What is owed over given orders and pools
OwedFor(os, pls, a) ==
  Total([i \in DOMAIN os |-> OrderClaim(a, os[i])], Len(os))
    + Total([k \in DOMAIN pls |-> PoolClaim(a, pls[k])], Len(pls))

LEMMA ClaimTypes ==
  ASSUME NEW a
  PROVE  /\ \A o \in Placed : OrderClaim(a, o) \in Nat
         /\ \A pool \in Pool : PoolClaim(a, pool) \in Nat
<1>1. ASSUME NEW o \in Placed PROVE OrderClaim(a, o) \in Nat
  <2>1. o.amount - o.filled \in Nat /\ o.price \in Nat
    BY PlacedTypes
  <2>2. QuoteOf(o.amount - o.filled, o.price) \in Nat
    BY <2>1, QuoteNat
  <2> QED BY <2>1, <2>2 DEF OrderClaim, Locked
<1>2. ASSUME NEW pool \in Pool PROVE PoolClaim(a, pool) \in Nat
  BY DEF PoolClaim, Pool
<1> QED BY <1>1, <1>2

LEMMA OrderClaims ==
  ASSUME NEW os \in Seq(Placed), NEW a
  PROVE  LET f == [i \in DOMAIN os |-> OrderClaim(a, os[i])]
         IN /\ Len(os) \in Nat /\ DOMAIN os = 1..Len(os)
            /\ \A i \in 1..Len(os) : f[i] = OrderClaim(a, os[i]) /\ f[i] \in Int
<1>1. Len(os) \in Nat /\ DOMAIN os = 1..Len(os) /\ \A i \in 1..Len(os) : os[i] \in Placed
  OBVIOUS
<1>2. \A i \in 1..Len(os) : OrderClaim(a, os[i]) \in Int
  BY <1>1, ClaimTypes
<1> QED BY <1>1, <1>2

LEMMA PoolClaims ==
  ASSUME NEW pls \in Seq(Pool), NEW a
  PROVE  LET f == [k \in DOMAIN pls |-> PoolClaim(a, pls[k])]
         IN /\ Len(pls) \in Nat /\ DOMAIN pls = 1..Len(pls)
            /\ \A k \in 1..Len(pls) : f[k] = PoolClaim(a, pls[k]) /\ f[k] \in Int
<1>1. Len(pls) \in Nat /\ DOMAIN pls = 1..Len(pls) /\ \A k \in 1..Len(pls) : pls[k] \in Pool
  OBVIOUS
<1>2. \A k \in 1..Len(pls) : PoolClaim(a, pls[k]) \in Int
  <2>1. \A pool \in Pool : PoolClaim(a, pool) \in Nat
    BY ClaimTypes
  <2> QED BY <1>1, <2>1
<1> QED BY <1>1, <1>2

LEMMA OwedForInt ==
  ASSUME NEW os \in Seq(Placed), NEW pls \in Seq(Pool), NEW a
  PROVE  OwedFor(os, pls, a) \in Int
<1> DEFINE f == [i \in DOMAIN os |-> OrderClaim(a, os[i])]
           g == [k \in DOMAIN pls |-> PoolClaim(a, pls[k])]
<1>1. /\ Len(os) \in Nat /\ \A i \in 1..Len(os) : f[i] \in Int
      /\ Len(pls) \in Nat /\ \A k \in 1..Len(pls) : g[k] \in Int
  BY OrderClaims, PoolClaims
<1> HIDE DEF f, g
<1>2. Total(f, Len(os)) \in Int /\ Total(g, Len(pls)) \in Int
  BY <1>1, TotalInt
<1> QED BY <1>2 DEF OwedFor, f, g

\* One order changes.
LEMMA OwedForOrder ==
  ASSUME NEW os \in Seq(Placed), NEW ps \in Seq(Placed), NEW pls \in Seq(Pool), NEW a,
         Len(ps) = Len(os), NEW id \in DOMAIN os, \A i \in DOMAIN os : i # id => ps[i] = os[i]
  PROVE  OwedFor(ps, pls, a) = OwedFor(os, pls, a) + OrderClaim(a, ps[id]) - OrderClaim(a, os[id])
<1> DEFINE f == [i \in DOMAIN os |-> OrderClaim(a, os[i])]
           g == [i \in DOMAIN ps |-> OrderClaim(a, ps[i])]
           h == [k \in DOMAIN pls |-> PoolClaim(a, pls[k])]
           n == Len(os)
<1>1. n \in Nat /\ DOMAIN os = 1..n /\ DOMAIN ps = 1..n
  OBVIOUS
<1>2. \A i \in 1..n : os[i] \in Placed /\ ps[i] \in Placed
  BY <1>1
<1>3. /\ \A i \in 1..n : f[i] \in Int /\ f[i] = OrderClaim(a, os[i])
      /\ \A i \in 1..n : g[i] \in Int /\ g[i] = OrderClaim(a, ps[i])
      /\ \A i \in 1..n : i # id => g[i] = f[i]
      /\ id \in 1..n /\ g[id] \in Int
  <2>1. \A i \in 1..n : f[i] \in Int /\ f[i] = OrderClaim(a, os[i])
    BY OrderClaims
  <2>2. \A i \in 1..n : g[i] \in Int /\ g[i] = OrderClaim(a, ps[i])
    BY OrderClaims
  <2> HIDE DEF f, g
  <2> QED BY <1>1, <2>1, <2>2
<1>4. Len(pls) \in Nat /\ \A k \in 1..Len(pls) : h[k] \in Int
  BY PoolClaims
<1> HIDE DEF f, g, h
<1>5. Total(g, n) = Total(f, n) + g[id] - f[id] /\ Total(f, n) \in Int /\ Total(h, Len(pls)) \in Int
  BY <1>1, <1>3, <1>4, TotalUpdate, TotalInt
<1>6. OwedFor(ps, pls, a) = Total(g, n) + Total(h, Len(pls))
      /\ OwedFor(os, pls, a) = Total(f, n) + Total(h, Len(pls))
  BY DEF OwedFor, f, g, h
<1>7. g[id] = OrderClaim(a, ps[id]) /\ f[id] = OrderClaim(a, os[id])
  BY <1>3
<1> QED BY <1>3, <1>5, <1>6, <1>7

\* One pool changes.
LEMMA OwedForPool ==
  ASSUME NEW os \in Seq(Placed), NEW pls \in Seq(Pool), NEW qls \in Seq(Pool), NEW a,
         Len(qls) = Len(pls), NEW id \in DOMAIN pls, \A k \in DOMAIN pls : k # id => qls[k] = pls[k]
  PROVE  OwedFor(os, qls, a) = OwedFor(os, pls, a) + PoolClaim(a, qls[id]) - PoolClaim(a, pls[id])
<1> DEFINE f == [k \in DOMAIN pls |-> PoolClaim(a, pls[k])]
           g == [k \in DOMAIN qls |-> PoolClaim(a, qls[k])]
           h == [i \in DOMAIN os |-> OrderClaim(a, os[i])]
           n == Len(pls)
<1>1. n \in Nat /\ DOMAIN pls = 1..n /\ DOMAIN qls = 1..n
  OBVIOUS
<1>2. \A i \in 1..n : pls[i] \in Pool /\ qls[i] \in Pool
  BY <1>1
<1>3. /\ \A i \in 1..n : f[i] \in Int /\ f[i] = PoolClaim(a, pls[i])
      /\ \A i \in 1..n : g[i] \in Int /\ g[i] = PoolClaim(a, qls[i])
      /\ \A i \in 1..n : i # id => g[i] = f[i]
      /\ id \in 1..n /\ g[id] \in Int
  <2>1. \A i \in 1..n : f[i] \in Int /\ f[i] = PoolClaim(a, pls[i])
    BY PoolClaims
  <2>2. \A i \in 1..n : g[i] \in Int /\ g[i] = PoolClaim(a, qls[i])
    BY PoolClaims
  <2> HIDE DEF f, g
  <2> QED BY <1>1, <2>1, <2>2
<1>4. Len(os) \in Nat /\ \A k \in 1..Len(os) : h[k] \in Int
  BY OrderClaims
<1> HIDE DEF f, g, h
<1>5. Total(g, n) = Total(f, n) + g[id] - f[id] /\ Total(f, n) \in Int /\ Total(h, Len(os)) \in Int
  BY <1>1, <1>3, <1>4, TotalUpdate, TotalInt
<1>6. OwedFor(os, qls, a) = Total(h, Len(os)) + Total(g, n)
      /\ OwedFor(os, pls, a) = Total(h, Len(os)) + Total(f, n)
  BY DEF OwedFor, f, g, h
<1>7. g[id] = PoolClaim(a, qls[id]) /\ f[id] = PoolClaim(a, pls[id])
  BY <1>3
<1> QED BY <1>3, <1>5, <1>6, <1>7

\* One order, or one pool, is new.
LEMMA OwedForNewOrder ==
  ASSUME NEW os \in Seq(Placed), NEW pls \in Seq(Pool), NEW a, NEW o \in Placed
  PROVE  OwedFor(Append(os, o), pls, a) = OwedFor(os, pls, a) + OrderClaim(a, o)
<1> DEFINE ps == Append(os, o)
           f == [i \in DOMAIN os |-> OrderClaim(a, os[i])]
           g == [i \in DOMAIN ps |-> OrderClaim(a, ps[i])]
           h == [k \in DOMAIN pls |-> PoolClaim(a, pls[k])]
           n == Len(os)
<1>1. /\ ps \in Seq(Placed) /\ Len(ps) = n + 1 /\ DOMAIN ps = 1..(n + 1)
      /\ n \in Nat /\ DOMAIN os = 1..n
      /\ ps[n + 1] = o /\ \A i \in DOMAIN os : ps[i] = os[i]
  BY AppendedOrders
<1> HIDE DEF ps
<1>2. \A i \in 1..(n + 1) : ps[i] \in Placed
  BY <1>1
<1>3. /\ \A i \in 1..(n + 1) : g[i] \in Int
      /\ \A i \in 1..n : f[i] \in Int /\ g[i] = f[i]
      /\ g[n + 1] = OrderClaim(a, o)
  <2>1. \A i \in 1..n : f[i] \in Int /\ f[i] = OrderClaim(a, os[i])
    BY OrderClaims
  <2>2. \A i \in 1..(n + 1) : g[i] \in Int /\ g[i] = OrderClaim(a, ps[i])
    BY <1>1, OrderClaims
  <2>3. n + 1 \in 1..(n + 1) /\ \A i \in 1..n : i \in 1..(n + 1)
    BY <1>1
  <2> HIDE DEF f, g
  <2> QED BY <1>1, <2>1, <2>2, <2>3
<1>4. Len(pls) \in Nat /\ \A k \in 1..Len(pls) : h[k] \in Int
  BY PoolClaims
<1> HIDE DEF f, g, h
<1>5. /\ Total(g, n + 1) = Total(g, n) + g[n + 1] /\ Total(g, n) = Total(f, n)
      /\ Total(f, n) \in Int /\ Total(h, Len(pls)) \in Int
  BY <1>1, <1>3, <1>4, TotalStep, TotalSame, TotalInt
<1>6. OwedFor(ps, pls, a) = Total(g, n + 1) + Total(h, Len(pls))
      /\ OwedFor(os, pls, a) = Total(f, n) + Total(h, Len(pls))
  BY <1>1 DEF OwedFor, f, g, h
<1>7. g[n + 1] \in Int
  BY <1>1, <1>3
<1> QED BY <1>3, <1>5, <1>6, <1>7 DEF ps

LEMMA OwedForNewPool ==
  ASSUME NEW os \in Seq(Placed), NEW pls \in Seq(Pool), NEW a, NEW pool \in Pool
  PROVE  OwedFor(os, Append(pls, pool), a) = OwedFor(os, pls, a) + PoolClaim(a, pool)
<1> DEFINE qls == Append(pls, pool)
           f == [k \in DOMAIN pls |-> PoolClaim(a, pls[k])]
           g == [k \in DOMAIN qls |-> PoolClaim(a, qls[k])]
           h == [i \in DOMAIN os |-> OrderClaim(a, os[i])]
           n == Len(pls)
<1>1. /\ qls \in Seq(Pool) /\ Len(qls) = n + 1
      /\ n \in Nat /\ DOMAIN pls = 1..n
      /\ qls[n + 1] = pool /\ \A i \in 1..n : qls[i] = pls[i]
  BY AppendProperties
<1> HIDE DEF qls
<1>2. DOMAIN qls = 1..(n + 1) /\ \A i \in 1..(n + 1) : qls[i] \in Pool
  BY <1>1
<1>3. /\ \A i \in 1..(n + 1) : g[i] \in Int
      /\ \A i \in 1..n : f[i] \in Int /\ g[i] = f[i]
      /\ g[n + 1] = PoolClaim(a, pool)
  <2>1. \A i \in 1..n : f[i] \in Int /\ f[i] = PoolClaim(a, pls[i])
    BY PoolClaims
  <2>2. \A i \in 1..(n + 1) : g[i] \in Int /\ g[i] = PoolClaim(a, qls[i])
    BY <1>1, PoolClaims
  <2>3. n + 1 \in 1..(n + 1) /\ \A i \in 1..n : i \in 1..(n + 1)
    BY <1>1
  <2> HIDE DEF f, g
  <2> QED BY <1>1, <2>1, <2>2, <2>3
<1>4. Len(os) \in Nat /\ \A k \in 1..Len(os) : h[k] \in Int
  BY OrderClaims
<1> HIDE DEF f, g, h
<1>5. /\ Total(g, n + 1) = Total(g, n) + g[n + 1] /\ Total(g, n) = Total(f, n)
      /\ Total(f, n) \in Int /\ Total(h, Len(os)) \in Int
  BY <1>1, <1>3, <1>4, TotalStep, TotalSame, TotalInt
<1>6. OwedFor(os, qls, a) = Total(h, Len(os)) + Total(g, n + 1)
      /\ OwedFor(os, pls, a) = Total(h, Len(os)) + Total(f, n)
  BY <1>1 DEF OwedFor, f, g, h
<1>7. g[n + 1] \in Int
  BY <1>1, <1>3
<1> QED BY <1>3, <1>5, <1>6, <1>7 DEF qls

\* What the contract holds beyond what it owes, in a run
Slack(run, a) == run.balance[a][Contract] - OwedFor(run.orders, run.pools, a)

\* Nothing is lost, and nothing is left over in an asset that is only a base.
NoLoss(run, after) ==
  \A a \in Assets : /\ Slack(after, a) >= Slack(run, a)
                    /\ OnlyBase(a) => Slack(after, a) = Slack(run, a)

\* The parts of a run that say what is owed and held
Funded(run) == run.orders \in Seq(Placed) /\ run.pools \in Seq(Pool) /\ run.balance \in Balances

LEMMA SlackInt == ASSUME NEW run, Funded(run), NEW a \in Assets PROVE Slack(run, a) \in Int
<1>1. Contract \in Accounts
  BY PartyAccounts
<1>2. run.balance[a][Contract] \in Nat
  BY <1>1 DEF Funded, Balances
<1>3. OwedFor(run.orders, run.pools, a) \in Int
  BY OwedForInt DEF Funded
<1> QED BY <1>2, <1>3 DEF Slack

LEMMA NoLossTwice ==
  ASSUME NEW r, NEW s, NEW t, Funded(r), Funded(s), Funded(t), NoLoss(r, s), NoLoss(s, t)
  PROVE  NoLoss(r, t)
<1>1. \A a \in Assets : Slack(r, a) \in Int /\ Slack(s, a) \in Int /\ Slack(t, a) \in Int
  BY SlackInt
<1> QED BY <1>1 DEF NoLoss

\* Two runs that hold and owe the same
LEMMA NoLossSame ==
  ASSUME NEW r, NEW s, Funded(r), s.orders = r.orders, s.pools = r.pools, s.balance = r.balance
  PROVE  NoLoss(r, s)
<1>1. \A a \in Assets : Slack(r, a) \in Int /\ Slack(s, a) = Slack(r, a)
  BY SlackInt DEF Slack
<1> QED BY <1>1 DEF NoLoss

\* What an order locked
Given(o, amount) == IF o.side = "Sell" THEN amount ELSE QuoteOf(amount, o.price)

\* A fill takes at least its quote off the claim of the order, and an ask its exact amount.
LEMMA ClaimTaken ==
  ASSUME NoSaturation, NEW o \in Placed, Open(o), NEW b \in 1..Unfilled(o), NEW a
  PROVE  LET taken == OrderClaim(a, o) - OrderClaim(a, FilledBy(o, b))
         IN /\ LockedAsset(o) # a => taken = 0
            /\ LockedAsset(o) = a => taken >= Given(o, b)
            /\ LockedAsset(o) = a /\ o.side = "Sell" => taken = Given(o, b)
<1> DEFINE p == FilledBy(o, b)
           u == Unfilled(o)
           c == u - b
<1>1. /\ p \in Placed /\ SameTerms(o, p) /\ p.filled = o.filled + b
      /\ p.status = IF o.filled + b = o.amount THEN "Filled" ELSE "PartiallyFilled"
  BY FilledByEffect
<1> HIDE DEF p
<1>2. /\ o.amount \in Nat /\ o.filled \in Nat /\ o.price \in Nat /\ o.side \in Sides
      /\ o.amount \in Amounts /\ o.price \in Prices
  BY PlacedTypes DEF Placed
<1>3. u \in Nat /\ b \in Nat /\ c \in Nat /\ b + c = u /\ u <= o.amount /\ u = o.amount - o.filled
      /\ p.amount - p.filled = c
  BY <1>1, <1>2 DEF Unfilled, SameTerms
<1>4. LockedAsset(p) = LockedAsset(o) /\ p.side = o.side /\ p.price = o.price
  BY <1>1 DEF LockedAsset, SameTerms
<1> HIDE DEF u, c
<1>5. QuoteOf(b, o.price) + QuoteOf(c, o.price) <= QuoteOf(u, o.price)
      /\ QuoteOf(b, o.price) \in Nat /\ QuoteOf(c, o.price) \in Nat /\ QuoteOf(u, o.price) \in Nat
  <2>1. o.amount * o.price <= MaxU128
    BY <1>2 DEF NoSaturation
  <2>2. u * o.price <= o.amount * o.price
    <3>1. o.amount = u + o.filled
      BY <1>2, <1>3
    <3>2. (u + o.filled) * o.price = u * o.price + o.filled * o.price /\ o.filled * o.price \in Nat
          /\ u * o.price \in Nat
      BY <1>2, <1>3
    <3> QED BY <3>1, <3>2
  <2>3. (b + c) * o.price <= MaxU128
    <3>1. u * o.price \in Nat /\ o.amount * o.price \in Nat /\ MaxU128 \in Nat
      BY <1>2, <1>3, ScaleAssumption
    <3> QED BY <1>3, <2>1, <2>2, <3>1
  <2>4. QuoteOf(b, o.price) + QuoteOf(c, o.price) <= QuoteOf(b + c, o.price)
    BY <1>2, <1>3, <2>3, QuoteSplit
  <2> QED BY <1>2, <1>3, <2>4, QuoteNat
<1>6. c = 0 => QuoteOf(c, o.price) = 0
  BY <1>2, QuoteNone
<1>7. Open(p) <=> c # 0
  BY <1>1, <1>2, <1>3 DEF Open
<1>8. OrderClaim(a, o) = IF LockedAsset(o) = a THEN Given(o, u) ELSE 0
  BY <1>3 DEF OrderClaim, Locked, Given
<1>9. OrderClaim(a, p) = IF LockedAsset(o) = a THEN Given(o, c) ELSE 0
  <2>1. CASE c # 0
    BY <1>3, <1>4, <1>7, <2>1 DEF OrderClaim, Locked, Given
  <2>2. CASE c = 0
    BY <1>6, <1>7, <2>2 DEF OrderClaim, Given
  <2> QED BY <2>1, <2>2
<1>10. Given(o, b) + Given(o, c) <= Given(o, u) /\ Given(o, b) \in Nat /\ Given(o, c) \in Nat
       /\ Given(o, u) \in Nat
       /\ (o.side = "Sell" => Given(o, b) + Given(o, c) = Given(o, u))
  BY <1>3, <1>5 DEF Given
<1> QED BY <1>8, <1>9, <1>10 DEF p

\* With one orientation, the orders a leg meets are for its own base and quote.
LEMMA SameOrientation ==
  ASSUME NEW o \in Placed, NEW leg, <<leg.quote, leg.base>> \notin Pairs,
         InQueue(o, PairKey(leg.base, leg.quote), Opposite(leg.side))
  PROVE  o.base = leg.base /\ o.quote = leg.quote
<1>1. {o.base, o.quote} = {leg.base, leg.quote} /\ <<o.base, o.quote>> \in Pairs
  BY DEF InQueue, PairKey, Placed
<1> QED BY <1>1

\* What a settlement with a party does to the account of the contract
LEMMA SettleHeld ==
  ASSUME NEW run, IsRun(run), run.balance \in Balances, NEW trader \in Parties,
         NEW leg \in TradeLeg, NEW to \in Accounts, NEW base \in Nat, NEW quote \in Nat,
         Settle(run, trader, leg, to, base, quote).ok, NEW a \in Assets
  PROVE  LET paid == IF leg.side = "Buy" THEN quote ELSE base
             got  == IF leg.side = "Buy" THEN base ELSE quote
         IN Settle(run, trader, leg, to, base, quote).balance[a][Contract] =
              run.balance[a][Contract]
                + (IF a = Payment(leg) /\ to = Contract THEN paid ELSE 0)
                - (IF a = Product(leg) THEN got ELSE 0)
<1> DEFINE paid == IF leg.side = "Buy" THEN quote ELSE base
           got  == IF leg.side = "Buy" THEN base ELSE quote
           after == Settle(run, trader, leg, to, base, quote)
<1>1. paid \in Nat /\ got \in Nat /\ base \in Int /\ quote \in Int
  OBVIOUS
<1>2. Contract \in Accounts /\ trader # Contract
  BY PartyAccounts
<1>3. after.balance[a][Contract] = run.balance[a][Contract]
        + Moved(a, Contract, Payment(leg), trader, to, paid)
        + Moved(a, Contract, Product(leg), Contract, trader, got)
  BY <1>1, <1>2, SettleBalance
<1>4. run.balance[a][Contract] \in Nat
  BY <1>2 DEF Balances
<1> HIDE DEF paid, got, after
<1>5. Positive(paid) = paid /\ Positive(got) = got
  BY <1>1 DEF Positive
<1>6. Moved(a, Contract, Payment(leg), trader, to, paid)
        = IF a = Payment(leg) /\ to = Contract THEN paid ELSE 0
  BY <1>1, <1>2, <1>5 DEF Moved
<1>7. Moved(a, Contract, Product(leg), Contract, trader, got) = - (IF a = Product(leg) THEN got ELSE 0)
  BY <1>1, <1>2, <1>5 DEF Moved
<1>8. after.balance[a][Contract] = run.balance[a][Contract]
        + (IF a = Payment(leg) /\ to = Contract THEN paid ELSE 0)
        - (IF a = Product(leg) THEN got ELSE 0)
  BY <1>1, <1>3, <1>4, <1>6, <1>7
<1> QED BY <1>8 DEF paid, got, after

\* The leg meets orders of its own orientation.
Oriented(leg) == <<leg.quote, leg.base>> \notin Pairs

\* A fill pays out no more than the claim it takes off.
LEMMA FillNoLoss ==
  ASSUME NoSaturation, NEW os, NEW run, NEW leg, NEW list, NEW n, Walking(os, run, leg, list, n),
         Oriented(leg), run.pools \in Seq(Pool),
         run.rest > 0, Live(run.orders[list[n]]), WithinLimit(leg, run.orders[list[n]].price),
         NEW trader \in Parties, Fill(run, trader, leg, list[n]).ok
  PROVE  NoLoss(run, Fill(run, trader, leg, list[n]))
<1> DEFINE id == list[n]
           o == run.orders[id]
           base == Least(run.rest, Unfilled(o))
           quote == QuoteOf(base, o.price)
           p == FilledBy(o, base)
           after == Fill(run, trader, leg, id)
           done == Settle(run, trader, leg, o.owner, base, quote)
           got == IF leg.side = "Buy" THEN base ELSE quote
<1>0. /\ IsRun(run) /\ leg \in TradeLeg /\ run.rest \in Int /\ run.balance \in Balances
  BY DEF Walking, Walked
<1>1. /\ run.orders \in Seq(Placed) /\ id \in DOMAIN run.orders /\ o \in Placed
      /\ InQueue(o, PairKey(leg.base, leg.quote), Opposite(leg.side))
  BY NextEntry
<1>2. Open(o) /\ base \in 1..Unfilled(o) /\ base \in Nat
  <2>1. Open(o)
    BY DEF Live
  <2>2. base \in 1..Unfilled(o)
    BY <1>0, <1>1, <2>1, TakenOfRest
  <2> HIDE DEF base
  <2> QED BY <2>1, <2>2
<1>3. o.owner \in Parties /\ o.owner \in Accounts /\ o.owner # Contract /\ quote \in Nat
      /\ o.price \in Nat /\ <<o.base, o.quote>> \in Pairs
  <2>1. o.owner \in Parties /\ o.price \in Nat
    BY <1>1, PlacedTypes
  <2> QED BY <1>1, <1>2, <2>1, PartyAccounts, QuoteNat DEF Placed
<1>4. IsFill(run, trader, leg, id, after)
  BY <1>0, <1>1, FillFields
<1>5. /\ after.orders = [run.orders EXCEPT ![id] = p]
      /\ after.pools = run.pools /\ after.balance = done.balance /\ after.ok = done.ok
  BY <1>4 DEF IsFill
<1>6. p \in Placed
  BY <1>1, <1>2, FilledByEffect
<1>7. /\ LockedAsset(o) = Product(leg) /\ got = Given(o, base)
      /\ (o.side = "Buy" => LockedAsset(o) = o.quote)
      /\ o.side \in Sides
  <2>1. o.base = leg.base /\ o.quote = leg.quote /\ o.side = Opposite(leg.side)
    BY <1>1, SameOrientation DEF Oriented, InQueue
  <2>2. leg.side \in Sides
    BY <1>0 DEF TradeLeg
  <2> QED BY <2>1, <2>2 DEF LockedAsset, Product, Given, Opposite, Sides
<1> HIDE DEF o, base, quote, p, after, done
<1>8. /\ after.orders \in Seq(Placed) /\ Len(after.orders) = Len(run.orders) /\ after.orders[id] = p
      /\ \A i \in DOMAIN run.orders : i # id => after.orders[i] = run.orders[i]
  BY <1>1, <1>5, <1>6, ExceptSeq
<1> SUFFICES ASSUME NEW a \in Assets
             PROVE  /\ Slack(after, a) >= Slack(run, a)
                    /\ OnlyBase(a) => Slack(after, a) = Slack(run, a)
  BY DEF NoLoss, after
<1>9. after.balance[a][Contract] = run.balance[a][Contract] - (IF a = Product(leg) THEN got ELSE 0)
  <2>1. done.ok
    BY <1>5 DEF after
  <2>2. done.balance[a][Contract] = run.balance[a][Contract]
          + (IF a = Payment(leg) /\ o.owner = Contract
             THEN (IF leg.side = "Buy" THEN quote ELSE base) ELSE 0)
          - (IF a = Product(leg) THEN got ELSE 0)
    BY <1>0, <1>2, <1>3, <2>1, SettleHeld DEF done
  <2>3. run.balance[a][Contract] \in Int
    BY <1>0, PartyAccounts DEF Balances
  <2>4. got \in Int
    BY <1>2, <1>3
  <2> QED BY <1>3, <1>5, <2>2, <2>3, <2>4
<1>10. OwedFor(after.orders, after.pools, a) =
         OwedFor(run.orders, run.pools, a) + OrderClaim(a, p) - OrderClaim(a, o)
  BY <1>1, <1>5, <1>8, OwedForOrder DEF o
<1>11. LET taken == OrderClaim(a, o) - OrderClaim(a, p)
       IN /\ LockedAsset(o) # a => taken = 0
          /\ LockedAsset(o) = a => taken >= Given(o, base)
          /\ LockedAsset(o) = a /\ o.side = "Sell" => taken = Given(o, base)
  BY <1>1, <1>2, ClaimTaken DEF p
<1>12. OnlyBase(a) /\ LockedAsset(o) = a => o.side = "Sell"
  BY <1>3, <1>7 DEF OnlyBase, Sides
<1>13. /\ OrderClaim(a, o) \in Int /\ OrderClaim(a, p) \in Int
       /\ OwedFor(run.orders, run.pools, a) \in Int /\ run.balance[a][Contract] \in Int
       /\ got \in Int
  <2>1. OrderClaim(a, o) \in Int /\ OrderClaim(a, p) \in Int
    <3>1. \A w \in Placed : OrderClaim(a, w) \in Nat
      BY ClaimTypes
    <3> QED BY <1>1, <1>6, <3>1
  <2>2. OwedFor(run.orders, run.pools, a) \in Int
    BY <1>1, OwedForInt
  <2>3. run.balance[a][Contract] \in Int
    BY <1>0, PartyAccounts DEF Balances
  <2>4. got \in Int
    BY <1>2, <1>3
  <2> QED BY <2>1, <2>2, <2>3, <2>4
<1> HIDE DEF got
<1>14. Slack(after, a) = run.balance[a][Contract] - (IF a = Product(leg) THEN got ELSE 0)
         - (OwedFor(run.orders, run.pools, a) + OrderClaim(a, p) - OrderClaim(a, o))
  BY <1>9, <1>10 DEF Slack
<1>15. Slack(run, a) = run.balance[a][Contract] - OwedFor(run.orders, run.pools, a)
  BY DEF Slack
<1> QED BY <1>7, <1>11, <1>12, <1>13, <1>14, <1>15

\* The orders of a walk
LEMMA WalkingFunded ==
  ASSUME NEW os, NEW run, NEW leg, NEW list, NEW n, Walking(os, run, leg, list, n),
         run.pools \in Seq(Pool)
  PROVE  Funded(run) /\ IsRun(run) /\ run.rest \in Int
  BY DEF Walking, Walked, Advanced, Funded

LEMMA VisitNoLoss ==
  ASSUME NoSaturation, NEW os, NEW run, NEW leg, NEW list, NEW n, Walking(os, run, leg, list, n),
         Oriented(leg), run.pools \in Seq(Pool),
         NEW trader \in Parties, Visit(run, trader, leg, list[n]).ok
  PROVE  NoLoss(run, Visit(run, trader, leg, list[n]))
<1> DEFINE after == Visit(run, trader, leg, list[n])
           passed == [run EXCEPT !.kept = Append(@, list[n])]
<1>1. Funded(run) /\ IsRun(run) /\ run.rest \in Int
  BY WalkingFunded
<1>2. passed.orders = run.orders /\ passed.pools = run.pools /\ passed.balance = run.balance
  BY <1>1 DEF IsRun
<1>3. NoLoss(run, passed) /\ NoLoss(run, run)
  <2> HIDE DEF passed
  <2> QED BY <1>1, <1>2, NoLossSame
<1>4. CASE /\ after = Fill(run, trader, leg, list[n]) /\ run.rest > 0
           /\ Live(run.orders[list[n]]) /\ WithinLimit(leg, run.orders[list[n]].price)
  BY <1>4, FillNoLoss
<1> HIDE DEF after, passed
<1>5. \/ after = passed \/ after = run
      \/ /\ after = Fill(run, trader, leg, list[n]) /\ run.rest > 0
         /\ Live(run.orders[list[n]]) /\ WithinLimit(leg, run.orders[list[n]].price)
  BY <1>1, VisitCases DEF after, passed
<1> QED BY <1>3, <1>4, <1>5 DEF after

\* The whole walk loses nothing.
LEMMA VisitsNoLoss ==
  ASSUME NoSaturation, NEW run, NEW leg, Ready(run), MatchingLeg(leg), Oriented(leg),
         run.pools \in Seq(Pool), NEW trader \in Parties, NEW n \in 0..Len(Facing(run, leg)),
         Visits(run, trader, leg, Facing(run, leg))[n].ok
  PROVE  NoLoss(run, Visits(run, trader, leg, Facing(run, leg))[n])
<1> DEFINE list == Facing(run, leg)
           os == run.orders
           v == Visits(run, trader, leg, list)
           Good(m) == v[m].ok => Funded(v[m]) /\ NoLoss(run, v[m])
           S == {m \in Nat : m <= Len(list) => Good(m)}
<1>0. /\ os \in Seq(Placed) /\ IsRun(run) /\ leg \in TradeLeg
      /\ ListOf(os, list, PairKey(leg.base, leg.quote), Opposite(leg.side))
      /\ Len(list) \in Nat /\ Funded(run)
  <2>1. ListOf(os, list, PairKey(leg.base, leg.quote), Opposite(leg.side))
    BY FacingList
  <2>2. list \in Seq(DOMAIN os)
    BY <2>1 DEF ListOf
  <2> QED BY <2>1, <2>2 DEF Ready, MatchingLeg, Funded
<1>1. /\ v[0] = [run EXCEPT !.kept = << >>]
      /\ \A k \in 1..Len(list) : v[k] = Visit(v[k - 1], trader, leg, list[k])
  BY <1>0, VisitsDef
<1>2. \A k \in 0..Len(list) :
        /\ IsRun(v[k]) /\ v[k].pools = run.pools
        /\ v[k].ok => Walked(os, v[k], leg, list, k)
  BY VisitsWalk
<1> HIDE DEF v, list
<1>3. 0 \in S
  <2>1. v[0].orders = run.orders /\ v[0].pools = run.pools /\ v[0].balance = run.balance
    BY <1>0, <1>1 DEF IsRun
  <2>2. NoLoss(run, v[0]) /\ Funded(v[0])
    BY <1>0, <2>1, NoLossSame DEF Funded
  <2> QED BY <2>2
<1>4. \A m \in Nat : m \in S => m + 1 \in S
  <2> SUFFICES ASSUME NEW m \in Nat, m + 1 <= Len(list), Good(m), v[m + 1].ok
               PROVE  Funded(v[m + 1]) /\ NoLoss(run, v[m + 1])
    BY <1>0
  <2>1. m + 1 \in 1..Len(list) /\ (m + 1) - 1 = m /\ m \in 0..Len(list) /\ m + 1 \in 0..Len(list)
    BY <1>0
  <2>2. v[m + 1] = Visit(v[m], trader, leg, list[m + 1])
    BY <1>1, <2>1
  <2>3. v[m].ok /\ IsRun(v[m])
    <3>1. IsRun(v[m])
      BY <1>2, <2>1
    <3> QED BY <2>2, <3>1, VisitKeeps
  <2>4. Walked(os, v[m], leg, list, m) /\ v[m].pools = run.pools
    BY <1>2, <2>1, <2>3
  <2>5. Walking(os, v[m], leg, list, m + 1)
    BY <1>0, <2>1, <2>3, <2>4 DEF Walking
  <2>6. v[m].pools \in Seq(Pool) /\ Visit(v[m], trader, leg, list[m + 1]).ok
    BY <1>0, <2>2, <2>4 DEF Funded
  <2>7. NoLoss(v[m], v[m + 1])
    BY <2>2, <2>5, <2>6, VisitNoLoss
  <2>8. Funded(v[m + 1])
    <3>1. Walked(os, v[m + 1], leg, list, m + 1) /\ v[m + 1].pools = run.pools
      BY <1>2, <2>1
    <3> QED BY <1>0, <3>1 DEF Funded, Walked, Advanced
  <2>9. Funded(v[m]) /\ NoLoss(run, v[m])
    BY <2>3
  <2> QED BY <1>0, <2>7, <2>8, <2>9, NoLossTwice
<1>5. n \in S
  <2> HIDE DEF S
  <2> QED BY <1>0, <1>3, <1>4, NatSetInduction DEF list
<1>6. v[n].ok
  BY DEF v, list
<1>7. NoLoss(run, v[n])
  BY <1>0, <1>5, <1>6 DEF list
<1> QED BY <1>7 DEF v, list

LEMMA MatchBookNoLoss ==
  ASSUME NoSaturation, NEW run, NEW leg, Trading(run), MatchingLeg(leg), Oriented(leg),
         NEW trader \in Parties, MatchBook(run, trader, leg).ok
  PROVE  NoLoss(run, MatchBook(run, trader, leg))
<1> DEFINE list == Facing(run, leg)
           end == Visits(run, trader, leg, list)[Len(list)]
           after == MatchBook(run, trader, leg)
<1>1. Ready(run) /\ run.pools \in Seq(Pool) /\ Funded(run)
  BY DEF Trading, Ready, PoolIndex, Funded
<1>2. Len(list) \in Nat
  BY <1>1, FacingList DEF ListOf
<1>3. IsRun(end)
  BY <1>1, <1>2, VisitsWalk
<1>4. after = [end EXCEPT !.book[PairKey(leg.base, leg.quote)][Opposite(leg.side)] = end.kept]
  BY DEF MatchBook, Facing
<1> HIDE DEF end, after
<1>5. /\ after.ok = end.ok /\ after.orders = end.orders /\ after.pools = end.pools
      /\ after.balance = end.balance
  BY <1>3, <1>4 DEF IsRun
<1>6. NoLoss(run, end)
  <2>1. end.ok
    BY <1>5 DEF after
  <2>2. Len(list) \in 0..Len(list)
    BY <1>2
  <2> QED BY <1>1, <2>1, <2>2, VisitsNoLoss DEF end
<1>7. \A a : Slack(after, a) = Slack(end, a)
  BY <1>5 DEF Slack
<1> QED BY <1>6, <1>7 DEF NoLoss, after

\* The pool after it is paid and pays
IsSwap(pool, leg, paid, got, new) ==
  /\ new \in Pool /\ new.a = pool.a /\ new.b = pool.b
  /\ pool.a = Payment(leg) =>
       new.reserveA = pool.reserveA + paid /\ new.reserveB = pool.reserveB - got
  /\ pool.a # Payment(leg) =>
       new.reserveA = pool.reserveA - got /\ new.reserveB = pool.reserveB + paid

\* What a pool claims moves by what it is paid and what it pays.
LEMMA PoolClaimMoved ==
  ASSUME NEW pool \in Pool, NEW leg, MatchingLeg(leg), Serves(pool, leg),
         NEW paid \in Nat, NEW got \in Nat, NEW new, IsSwap(pool, leg, paid, got, new), NEW a
  PROVE  PoolClaim(a, new) = PoolClaim(a, pool) + (IF a = Payment(leg) THEN paid ELSE 0)
                               - (IF a = Product(leg) THEN got ELSE 0)
<1>1. Payment(leg) # Product(leg)
  BY DEF MatchingLeg, Payment, Product
<1>2. pool.reserveA \in Nat /\ pool.reserveB \in Nat
  BY DEF Pool
<1>3. CASE pool.a = Payment(leg)
  <2>1. pool.b = Product(leg)
    BY <1>1, <1>3 DEF Serves
  <2>2. /\ new.a = pool.a /\ new.b = pool.b
        /\ new.reserveA = pool.reserveA + paid /\ new.reserveB = pool.reserveB - got
    BY <1>3 DEF IsSwap
  <2> QED BY <1>1, <1>2, <1>3, <2>1, <2>2 DEF PoolClaim
<1>4. CASE pool.a # Payment(leg)
  <2>1. pool.a = Product(leg) /\ pool.b = Payment(leg)
    BY <1>4 DEF Serves
  <2>2. /\ new.a = pool.a /\ new.b = pool.b
        /\ new.reserveA = pool.reserveA - got /\ new.reserveB = pool.reserveB + paid
    BY <1>4 DEF IsSwap
  <2> QED BY <1>1, <1>2, <1>4, <2>1, <2>2 DEF PoolClaim
<1> QED BY <1>3, <1>4

\* A pool trade moves what is held and what is owed alike.
LEMMA UsePoolNoLoss ==
  ASSUME NEW run, NEW leg, Trading(run), MatchingLeg(leg), run.rest > 0, NEW trader \in Parties,
         UsePool(run, trader, leg).ok
  PROVE  NoLoss(run, UsePool(run, trader, leg))
<1> DEFINE after == UsePool(run, trader, leg)
<1>0. Ready(run) /\ PoolIndex(run.pools)
  BY DEF Trading
<1>1. PICK id \in DOMAIN run.pools, quote \in Nat \ {0} :
        IsPoolTrade(run, trader, leg, id, quote, after)
  BY <1>0, UsePoolFields
<1> DEFINE pool == run.pools[id]
           paid == IF leg.side = "Buy" THEN quote ELSE run.rest
           got  == IF leg.side = "Buy" THEN run.rest ELSE quote
           done == Settle(run, trader, leg, Contract, run.rest, quote)
           new == Swapped(pool, pool.a = Payment(leg), paid, got)
<1>2. /\ Serves(pool, leg)
      /\ got <= IF pool.a = Payment(leg) THEN pool.reserveB ELSE pool.reserveA
      /\ after.orders = run.orders /\ after.balance = done.balance /\ after.ok = done.ok
      /\ after.pools = [run.pools EXCEPT ![id] = new]
  BY <1>1 DEF IsPoolTrade
<1>3. /\ IsRun(run) /\ run.rest \in Nat /\ run.balance \in Balances
      /\ run.orders \in Seq(Placed) /\ leg \in TradeLeg
  BY <1>0 DEF Ready, MatchingLeg
<1>4. run.pools \in Seq(Pool) /\ pool \in Pool
  BY <1>0 DEF PoolIndex
<1>5. paid \in Nat /\ got \in Nat
  BY <1>3
<1>6. IsSwap(pool, leg, paid, got, new)
  <2> DEFINE paysA == pool.a = Payment(leg)
  <2>1. paysA \in BOOLEAN /\ (paysA <=> pool.a = Payment(leg)) /\ new = Swapped(pool, paysA, paid, got)
    OBVIOUS
  <2>2. got <= IF paysA THEN pool.reserveB ELSE pool.reserveA
    BY <1>2
  <2> HIDE DEF pool, paid, got, paysA, new
  <2>3. /\ new \in Pool /\ new.a = pool.a /\ new.b = pool.b
        /\ new.reserveA = IF paysA THEN pool.reserveA + paid ELSE pool.reserveA - got
        /\ new.reserveB = IF paysA THEN pool.reserveB - got ELSE pool.reserveB + paid
    BY <1>4, <1>5, <2>1, <2>2, SwappedEffect
  <2> QED BY <2>1, <2>3 DEF IsSwap
<1>7. done.ok
  BY <1>2
<1> HIDE DEF after, new, pool
<1>8. /\ after.pools \in Seq(Pool) /\ Len(after.pools) = Len(run.pools) /\ after.pools[id] = new
      /\ \A k \in DOMAIN run.pools : k # id => after.pools[k] = run.pools[k]
  <2>1. new \in Pool
    BY <1>6 DEF IsSwap
  <2> QED BY <1>2, <1>4, <2>1, ExceptSeq
<1> SUFFICES ASSUME NEW a \in Assets PROVE Slack(after, a) = Slack(run, a) /\ Slack(run, a) \in Int
  BY DEF NoLoss, after
<1>9. done.balance[a][Contract] = run.balance[a][Contract]
        + (IF a = Payment(leg) THEN paid ELSE 0) - (IF a = Product(leg) THEN got ELSE 0)
  <2>1. Contract \in Accounts /\ quote \in Nat
    BY PartyAccounts
  <2>2. /\ IsRun(run) /\ run.balance \in Balances /\ leg \in TradeLeg /\ run.rest \in Nat
        /\ done.ok
    BY <1>3, <1>7
  <2> HIDE DEF done
  <2>3. done.balance[a][Contract] = run.balance[a][Contract]
          + (IF a = Payment(leg) THEN (IF leg.side = "Buy" THEN quote ELSE run.rest) ELSE 0)
          - (IF a = Product(leg) THEN (IF leg.side = "Buy" THEN run.rest ELSE quote) ELSE 0)
    BY <2>1, <2>2, SettleHeld DEF done
  <2> QED BY <2>3
<1>10. OwedFor(after.orders, after.pools, a) =
         OwedFor(run.orders, run.pools, a) + PoolClaim(a, new) - PoolClaim(a, pool)
  <2>1. OwedFor(run.orders, after.pools, a) =
          OwedFor(run.orders, run.pools, a) + PoolClaim(a, new) - PoolClaim(a, run.pools[id])
    BY <1>3, <1>4, <1>8, OwedForPool
  <2> QED BY <1>2, <2>1 DEF pool
<1>11. PoolClaim(a, new) = PoolClaim(a, pool) + (IF a = Payment(leg) THEN paid ELSE 0)
         - (IF a = Product(leg) THEN got ELSE 0)
  <2> HIDE DEF paid, got
  <2> QED BY <1>2, <1>4, <1>5, <1>6, PoolClaimMoved
<1>12. /\ OwedFor(run.orders, run.pools, a) \in Int /\ run.balance[a][Contract] \in Int
       /\ PoolClaim(a, pool) \in Int /\ Slack(run, a) \in Int
  <2>1. Funded(run)
    BY <1>3, <1>4 DEF Funded
  <2>2. PoolClaim(a, pool) \in Int
    BY <1>4, ClaimTypes
  <2>3. run.balance[a][Contract] \in Int
    BY <1>3, PartyAccounts DEF Balances
  <2>4. OwedFor(run.orders, run.pools, a) \in Int
    BY <1>3, <1>4, OwedForInt
  <2> QED BY <2>1, <2>2, <2>3, <2>4, SlackInt
<1>13. Slack(after, a) = done.balance[a][Contract] - OwedFor(after.orders, after.pools, a)
  BY <1>2 DEF Slack
<1>14. Slack(run, a) = run.balance[a][Contract] - OwedFor(run.orders, run.pools, a)
  BY DEF Slack
<1> HIDE DEF pool, paid, got, done
<1> QED BY <1>5, <1>9, <1>10, <1>11, <1>12, <1>13, <1>14

LEMMA TradingFunded == ASSUME NEW run, Trading(run) PROVE Funded(run)
  BY DEF Trading, Ready, PoolIndex, Funded

LEMMA MatchLegNoLoss ==
  ASSUME NoSaturation, NEW run, NEW leg, Trading(run), leg \in TradeLeg, Oriented(leg),
         NEW trader \in Parties, MatchLeg(run, trader, leg).ok
  PROVE  NoLoss(run, MatchLeg(run, trader, leg))
<1> DEFINE start == LegStart(run, leg)
           booked == MatchBook(start, trader, leg)
           done   == IF booked.rest > 0 THEN UsePool(booked, trader, leg) ELSE booked
           after  == MatchLeg(run, trader, leg)
<1>1. /\ MatchingLeg(leg) /\ done.ok /\ Trading(booked) /\ booked.ok /\ Trading(done)
      /\ after.orders = done.orders /\ after.pools = done.pools /\ after.balance = done.balance
  BY MatchLegParts
<1>2. /\ Trading(start) /\ start.orders = run.orders /\ start.balance = run.balance
      /\ start.pools = run.pools
  BY LegStartReady
<1> HIDE DEF start
<1>3. NoLoss(start, booked)
  BY <1>1, <1>2, MatchBookNoLoss
<1> HIDE DEF booked
<1>4. NoLoss(booked, done)
  <2>1. CASE booked.rest > 0
    BY <1>1, <2>1, UsePoolNoLoss
  <2>2. CASE ~ (booked.rest > 0)
    <3>1. done = booked /\ Funded(booked)
      BY <1>1, <2>2, TradingFunded
    <3> QED BY <3>1, NoLossSame
  <2> QED BY <2>1, <2>2
<1> HIDE DEF done, after
<1>5. Funded(start) /\ Funded(booked) /\ Funded(done)
  BY <1>1, <1>2, TradingFunded
<1>6. NoLoss(start, done)
  BY <1>3, <1>4, <1>5, NoLossTwice
<1>7. \A a : Slack(after, a) = Slack(done, a) /\ Slack(run, a) = Slack(start, a)
  BY <1>1, <1>2 DEF Slack
<1> QED BY <1>6, <1>7 DEF NoLoss, after

\* A whole trade loses nothing.
LEMMA MatchLegsNoLoss ==
  ASSUME NoSaturation, OneOrientation, Trading(Start), NEW trader \in Parties, NEW legs \in Trades,
         MatchLegs(trader, legs).ok
  PROVE  NoLoss(Start, MatchLegs(trader, legs))
<1> DEFINE n == Len(legs)
           g == LegRuns(trader, legs)
           Good(k) == g[k].ok => Trading(g[k]) /\ NoLoss(Start, g[k])
           S == {k \in Nat : k <= n => Good(k)}
<1>1. n \in Nat /\ \A k \in 1..n : legs[k] \in TradeLeg /\ Oriented(legs[k])
  <2>1. legs \in Seq(TradeLeg)
    BY InputAssumption
  <2>2. n \in Nat /\ DOMAIN legs = 1..n /\ \A k \in 1..n : legs[k] \in TradeLeg
    BY <2>1
  <2> QED BY <2>2 DEF OneOrientation, Oriented
<1>2. /\ g[0] = Start
      /\ \A k \in 1..n :
           g[k] = IF g[k - 1].ok THEN MatchLeg(g[k - 1], trader, legs[k]) ELSE g[k - 1]
  BY <1>1, LegRunsDef
<1> HIDE DEF g
<1>3. 0 \in S
  <2>1. Funded(Start)
    BY TradingFunded
  <2>2. NoLoss(Start, Start)
    BY <2>1, NoLossSame
  <2> QED BY <1>2, <2>2
<1>4. \A k \in Nat : k \in S => k + 1 \in S
  <2> SUFFICES ASSUME NEW k \in Nat, k + 1 <= n, Good(k), g[k + 1].ok
               PROVE  Trading(g[k + 1]) /\ NoLoss(Start, g[k + 1])
    BY <1>1
  <2>1. k + 1 \in 1..n /\ (k + 1) - 1 = k
    BY <1>1
  <2>2. g[k].ok /\ g[k + 1] = MatchLeg(g[k], trader, legs[k + 1])
    BY <1>2, <2>1
  <2>3. Trading(g[k]) /\ NoLoss(Start, g[k])
    BY <2>2
  <2>4. MatchLeg(g[k], trader, legs[k + 1]).ok /\ legs[k + 1] \in TradeLeg /\ Oriented(legs[k + 1])
    BY <1>1, <2>1, <2>2
  <2>5. Trading(g[k + 1])
    BY <2>2, <2>3, <2>4, MatchLegEffect
  <2>6. NoLoss(g[k], g[k + 1])
    BY <2>2, <2>3, <2>4, MatchLegNoLoss
  <2>7. Funded(Start) /\ Funded(g[k]) /\ Funded(g[k + 1])
    BY <2>3, <2>5, TradingFunded
  <2>8. NoLoss(Start, g[k + 1])
    BY <2>3, <2>6, <2>7, NoLossTwice
  <2> QED BY <2>5, <2>8
<1>5. n \in S
  <2> HIDE DEF S
  <2> QED BY <1>1, <1>3, <1>4, NatSetInduction
<1> QED BY <1>1, <1>5 DEF MatchLegs, g

-----------------------------------------------------------------------------
(* What a call does to what the contract holds beyond what it owes.         *)

Net(bal, os, pls, a) == bal[a][Contract] - OwedFor(os, pls, a)

\* No call lowers it, and none changes it in an asset that is only a base.
NetKept ==
  \A a \in Assets :
    /\ Net(balance', orders', pools', a) >= Net(balance, orders, pools, a)
    /\ OnlyBase(a) => Net(balance', orders', pools', a) = Net(balance, orders, pools, a)

\* The tokens that reach and leave the account of the contract
LEMMA HeldAfterMove ==
  ASSUME NEW bal \in Balances, NEW asset \in Assets, NEW p \in Parties, NEW amount \in Nat, NEW a \in Assets
  PROVE  /\ CanMove(bal, asset, p, Contract, amount) =>
              /\ Move(bal, asset, p, Contract, amount) \in Balances
              /\ Move(bal, asset, p, Contract, amount)[a][Contract] =
                   bal[a][Contract] + (IF a = asset THEN amount ELSE 0)
         /\ CanMove(bal, asset, Contract, p, amount) =>
              Move(bal, asset, Contract, p, amount)[a][Contract] =
                bal[a][Contract] - (IF a = asset THEN amount ELSE 0)
         /\ bal[a][Contract] \in Nat
<1>1. p \in Accounts /\ Contract \in Accounts /\ p # Contract /\ Positive(amount) = amount
  BY PartyAccounts DEF Positive
<1>2. bal[a][Contract] \in Nat
  BY <1>1 DEF Balances
<1>3. ASSUME CanMove(bal, asset, p, Contract, amount)
      PROVE  /\ Move(bal, asset, p, Contract, amount) \in Balances
             /\ Move(bal, asset, p, Contract, amount)[a][Contract] =
                  bal[a][Contract] + (IF a = asset THEN amount ELSE 0)
  <2>1. /\ Move(bal, asset, p, Contract, amount) \in Balances
        /\ Move(bal, asset, p, Contract, amount)[a][Contract] =
             bal[a][Contract] + Moved(a, Contract, asset, p, Contract, amount)
    BY <1>1, <1>3, MoveEffect
  <2>2. Moved(a, Contract, asset, p, Contract, amount) = IF a = asset THEN amount ELSE 0
    BY <1>1 DEF Moved
  <2> QED BY <2>1, <2>2
<1>4. ASSUME CanMove(bal, asset, Contract, p, amount)
      PROVE  Move(bal, asset, Contract, p, amount)[a][Contract] =
               bal[a][Contract] - (IF a = asset THEN amount ELSE 0)
  <2>1. Move(bal, asset, Contract, p, amount)[a][Contract] =
          bal[a][Contract] + Moved(a, Contract, asset, Contract, p, amount)
    BY <1>1, <1>4, MoveEffect
  <2>2. Moved(a, Contract, asset, Contract, p, amount) = 0 - (IF a = asset THEN amount ELSE 0)
    BY <1>1 DEF Moved
  <2> QED BY <1>2, <2>1, <2>2
<1> QED BY <1>2, <1>3, <1>4

\* An order locks exactly what it may claim.
LEMMA PlaceNet ==
  ASSUME TradeInv, NEW p \in Parties, NEW pair \in Pairs, NEW side \in Sides,
         NEW type \in OrderTypes, NEW price \in Prices, NEW amount \in Amounts,
         NEW expiry \in Expiries,
         PlaceOrder(p, pair[1], pair[2], side, type, price, amount, expiry)
  PROVE  NetKept
<1> DEFINE order == NewOrder(p, pair[1], pair[2], side, price, amount, expiry)
           asset == LockedAsset(order)
           locks == Locked(order, amount)
<1>1. /\ amount > 0 /\ pair[1] # pair[2]
      /\ CanMove(balance, asset, p, Contract, locks)
      /\ balance' = Move(balance, asset, p, Contract, locks)
      /\ orders' = Append(orders, order) /\ pools' = pools
  BY DEF PlaceOrder, NewOrder
<1>2. order \in Placed /\ asset \in Assets /\ locks \in Nat
  BY <1>1, NewOrderPlaced
<1>3. \A a : OrderClaim(a, order) = IF a = asset THEN locks ELSE 0
  <2>1. order.amount - order.filled = amount /\ Open(order)
    BY InputAssumption DEF NewOrder, Open
  <2> QED BY <2>1 DEF OrderClaim
<1> HIDE DEF order, asset, locks
<1>4. orders \in Seq(Placed) /\ pools \in Seq(Pool) /\ balance \in Balances
  BY DEF TradeInv, PoolIndex
<1> SUFFICES ASSUME NEW a \in Assets
             PROVE  /\ Net(balance', orders', pools', a) = Net(balance, orders, pools, a)
                    /\ Net(balance, orders, pools, a) \in Int
  BY DEF NetKept
<1>5. /\ balance'[a][Contract] = balance[a][Contract] + (IF a = asset THEN locks ELSE 0)
      /\ balance[a][Contract] \in Nat
  BY <1>1, <1>2, <1>4, HeldAfterMove
<1>6. /\ OwedFor(orders', pools', a) = OwedFor(orders, pools, a) + OrderClaim(a, order)
      /\ OwedFor(orders, pools, a) \in Int
  BY <1>1, <1>2, <1>4, OwedForNewOrder, OwedForInt
<1> QED BY <1>2, <1>3, <1>5, <1>6 DEF Net

\* A cancelled order is paid exactly what it claimed.
LEMMA CancelNet == ASSUME TradeInv, NEW id \in DOMAIN orders, CancelOrder(id) PROVE NetKept
<1> DEFINE order == orders[id]
           asset == LockedAsset(order)
           back == Locked(order, Unfilled(order))
<1>1. /\ Open(order) /\ CanMove(balance, asset, Contract, order.owner, back)
      /\ balance' = Move(balance, asset, Contract, order.owner, back)
      /\ orders' = [orders EXCEPT ![id].status = "Cancelled"]
      /\ pools' = pools
  BY DEF CancelOrder
<1>2. orders \in Seq(Placed) /\ order \in Placed /\ pools \in Seq(Pool) /\ balance \in Balances
  BY DEF TradeInv, PoolIndex
<1>3. /\ order.owner \in Parties /\ order.base \in Assets /\ order.quote \in Assets
      /\ order.price \in Nat /\ Unfilled(order) \in Nat
  BY <1>2, PlacedTypes DEF Unfilled
<1>4. asset \in Assets /\ back \in Nat
  BY <1>3, QuoteNat DEF LockedAsset, Locked
<1>5. /\ orders' \in Seq(Placed) /\ Len(orders') = Len(orders)
      /\ orders'[id] = CancelledForm(order)
      /\ \A i \in DOMAIN orders : i # id => orders'[i] = orders[i]
  BY <1>1, <1>2, CancelledOrders
<1>6. ~ Open(CancelledForm(order))
  BY <1>2, CancelledPlaced
<1>7. \A a : /\ OrderClaim(a, order) = IF a = asset THEN back ELSE 0
             /\ OrderClaim(a, CancelledForm(order)) = 0
  BY <1>1, <1>6 DEF OrderClaim, Unfilled
<1> HIDE DEF asset, back, order
<1> SUFFICES ASSUME NEW a \in Assets
             PROVE  /\ Net(balance', orders', pools', a) = Net(balance, orders, pools, a)
                    /\ Net(balance, orders, pools, a) \in Int
  BY DEF NetKept
<1>8. /\ balance'[a][Contract] = balance[a][Contract] - (IF a = asset THEN back ELSE 0)
      /\ balance[a][Contract] \in Nat
  BY <1>1, <1>2, <1>3, <1>4, HeldAfterMove
<1>9. OwedFor(orders, pools, a) \in Int
  BY <1>2, OwedForInt
<1>10. OwedFor(orders', pools, a) =
         OwedFor(orders, pools, a) + OrderClaim(a, orders'[id]) - OrderClaim(a, orders[id])
  BY <1>2, <1>5, OwedForOrder
<1>11. OwedFor(orders', pools', a) =
         OwedFor(orders, pools, a) + 0 - (IF a = asset THEN back ELSE 0)
  BY <1>1, <1>5, <1>7, <1>10 DEF order
<1> QED BY <1>4, <1>8, <1>9, <1>11 DEF Net

\* A trade keeps it, however many legs, orders and pools fill it.
LEMMA ExecuteNet ==
  ASSUME NoSaturation, OneOrientation, TradeInv,
         NEW p \in Parties, NEW legs \in Trades, ExecuteTrade(p, legs)
  PROVE  NetKept
<1> DEFINE end == MatchLegs(p, legs)
<1>1. end.ok /\ orders' = end.orders /\ pools' = end.pools /\ balance' = end.balance
  BY DEF ExecuteTrade
<1>2. /\ Trading(Start) /\ Start.orders = orders /\ Start.balance = balance /\ Start.pools = pools
  BY StartTrading
<1>3. NoLoss(Start, end)
  BY <1>1, <1>2, MatchLegsNoLoss
<1> HIDE DEF end
<1>4. \A a : /\ Slack(end, a) = Net(balance', orders', pools', a)
             /\ Slack(Start, a) = Net(balance, orders, pools, a)
  BY <1>1, <1>2 DEF Slack, Net
<1> QED BY <1>3, <1>4 DEF NoLoss, NetKept

\* A pool starts with what its admin paid in.
LEMMA PoolNet ==
  ASSUME TradeInv, NEW offer \in PoolOffers, AddLiquidityPool(offer) PROVE NetKept
<1> DEFINE mid == Move(balance, offer.a, admin, Contract, offer.reserveA)
<1>1. /\ offer.reserveA > 0 /\ offer.reserveB > 0 /\ offer.a # offer.b /\ admin # NoAdmin
      /\ CanMove(balance, offer.a, admin, Contract, offer.reserveA)
      /\ CanMove(mid, offer.b, admin, Contract, offer.reserveB)
      /\ balance' = Move(mid, offer.b, admin, Contract, offer.reserveB)
      /\ pools' = Append(pools, offer) /\ orders' = orders
  BY DEF AddLiquidityPool
<1>2. offer \in Pool
  <2>1. offer \in [a : Assets, b : Assets, reserveA : Int, reserveB : Int, fee : Nat]
    BY InputAssumption
  <2> QED BY <1>1, <2>1 DEF Pool
<1>3. /\ admin \in Parties /\ offer.a \in Assets /\ offer.b \in Assets
      /\ offer.reserveA \in Nat /\ offer.reserveB \in Nat /\ balance \in Balances
      /\ orders \in Seq(Placed) /\ pools \in Seq(Pool)
  BY <1>1, <1>2 DEF TradeInv, Pool, PoolIndex
<1> SUFFICES ASSUME NEW a \in Assets
             PROVE  /\ Net(balance', orders', pools', a) = Net(balance, orders, pools, a)
                    /\ Net(balance, orders, pools, a) \in Int
  BY DEF NetKept
<1>4. /\ mid \in Balances /\ balance[a][Contract] \in Nat
      /\ mid[a][Contract] = balance[a][Contract] + (IF a = offer.a THEN offer.reserveA ELSE 0)
  BY <1>1, <1>3, HeldAfterMove
<1> HIDE DEF mid
<1>5. balance'[a][Contract] = mid[a][Contract] + (IF a = offer.b THEN offer.reserveB ELSE 0)
  BY <1>1, <1>3, <1>4, HeldAfterMove
<1>6. /\ OwedFor(orders', pools', a) = OwedFor(orders, pools, a) + PoolClaim(a, offer)
      /\ OwedFor(orders, pools, a) \in Int
  BY <1>1, <1>2, <1>3, OwedForNewPool, OwedForInt
<1>7. PoolClaim(a, offer) = (IF a = offer.a THEN offer.reserveA ELSE 0)
                              + (IF a = offer.b THEN offer.reserveB ELSE 0)
  BY DEF PoolClaim
<1> QED BY <1>3, <1>4, <1>5, <1>6, <1>7 DEF Net

LEMMA OtherNet ==
  ASSUME TradeInv, orders' = orders, pools' = pools, balance' = balance PROVE NetKept
<1>1. orders \in Seq(Placed) /\ pools \in Seq(Pool) /\ balance \in Balances
  BY DEF TradeInv, PoolIndex
<1>2. \A a \in Assets : Net(balance, orders, pools, a) \in Int
  <2> SUFFICES ASSUME NEW a \in Assets PROVE Net(balance, orders, pools, a) \in Int
    OBVIOUS
  <2>1. balance[a][Contract] \in Int
    BY <1>1, PartyAccounts DEF Balances
  <2> QED BY <1>1, <2>1, OwedForInt DEF Net
<1> QED BY <1>2 DEF NetKept

LEMMA NetStep ==
  ASSUME NoSaturation, OneOrientation, TradeInv, [Next]_vars PROVE NetKept
<1>1. ASSUME NEW p \in Parties, NEW pair \in Pairs, NEW side \in Sides, NEW type \in OrderTypes,
             NEW price \in Prices, NEW amount \in Amounts, NEW expiry \in Expiries,
             PlaceOrder(p, pair[1], pair[2], side, type, price, amount, expiry)
      PROVE  NetKept
  BY <1>1, PlaceNet
<1>2. ASSUME NEW id \in DOMAIN orders, CancelOrder(id) PROVE NetKept
  BY <1>2, CancelNet
<1>3. ASSUME NEW p \in Parties, NEW legs \in Trades, ExecuteTrade(p, legs) PROVE NetKept
  BY <1>3, ExecuteNet
<1>4. ASSUME NEW offer \in PoolOffers, AddLiquidityPool(offer) PROVE NetKept
  BY <1>4, PoolNet
<1>5. ASSUME NEW p \in Parties, Initialize(p) PROVE NetKept
  BY <1>5, OtherNet DEF Initialize
<1>6. CASE Tick
  BY <1>6, OtherNet DEF Tick
<1>7. CASE UNCHANGED vars
  BY <1>7, OtherNet DEF vars
<1> QED BY <1>1, <1>2, <1>3, <1>4, <1>5, <1>6, <1>7 DEF Next

\* Beyond what it owes, the contract holds what it held before the first order, and in an
\* asset that is only a base exactly that.
NetInv ==
  \A a \in Assets :
    /\ Net(balance, orders, pools, a) >= InitBalance[a][Contract]
    /\ OnlyBase(a) => Net(balance, orders, pools, a) = InitBalance[a][Contract]

LEMMA NetInit == Init => NetInv
<1> SUFFICES ASSUME Init, NEW a \in Assets
             PROVE  Net(balance, orders, pools, a) = InitBalance[a][Contract] /\ InitBalance[a][Contract] \in Nat
  BY DEF NetInv
<1>1. orders = << >> /\ pools = << >> /\ balance = InitBalance
  BY DEF Init
<1>2. InitBalance[a][Contract] \in Nat
  BY InputAssumption, PartyAccounts
<1>3. Len(orders) = 0 /\ Len(pools) = 0
  BY <1>1
<1>4. OwedFor(orders, pools, a) = 0
  BY <1>3, TotalEmpty DEF OwedFor
<1> QED BY <1>1, <1>2, <1>4 DEF Net

LEMMA NetInvStep ==
  ASSUME NoSaturation, OneOrientation, TradeInv, NetInv, [Next]_vars PROVE NetInv'
<1> SUFFICES ASSUME NEW a \in Assets
             PROVE  /\ Net(balance', orders', pools', a) >= InitBalance[a][Contract]
                    /\ OnlyBase(a) => Net(balance', orders', pools', a) = InitBalance[a][Contract]
  BY DEF NetInv, OnlyBase
<1>1. /\ Net(balance', orders', pools', a) >= Net(balance, orders, pools, a)
      /\ OnlyBase(a) => Net(balance', orders', pools', a) = Net(balance, orders, pools, a)
  BY NetStep DEF NetKept
<1>2. /\ Net(balance, orders, pools, a) >= InitBalance[a][Contract]
      /\ OnlyBase(a) => Net(balance, orders, pools, a) = InitBalance[a][Contract]
  BY DEF NetInv
<1>3. Net(balance, orders, pools, a) \in Int /\ InitBalance[a][Contract] \in Int
  <2>1. orders \in Seq(Placed) /\ pools \in Seq(Pool) /\ balance \in Balances
    BY DEF TradeInv, PoolIndex
  <2>2. balance[a][Contract] \in Int /\ InitBalance[a][Contract] \in Int
    BY <2>1, InputAssumption, PartyAccounts DEF Balances
  <2> QED BY <2>1, <2>2, OwedForInt DEF Net
<1>4. Net(balance', orders', pools', a) \in Int
  <2>1. TradeInv'
    BY TradeInvStep
  <2>2. orders' \in Seq(Placed) /\ pools' \in Seq(Pool) /\ balance' \in Balances
    BY <2>1 DEF TradeInv, PoolIndex
  <2>3. balance'[a][Contract] \in Int
    BY <2>2, PartyAccounts DEF Balances
  <2> QED BY <2>2, <2>3, OwedForInt DEF Net
<1> QED BY <1>1, <1>2, <1>3, <1>4

LEMMA NetInvAlways == ASSUME NoSaturation, OneOrientation PROVE Spec => []NetInv
<1>1. TradeInv /\ NetInv /\ [Next]_vars => NetInv'
  BY NetInvStep
<1> QED BY <1>1, NetInit, TradeInvAlways, PTL DEF Spec

\* What is owed in one asset, as the properties state it
LEMMA OwedIs == ASSUME NEW a PROVE Owed(a) = OwedFor(orders, pools, a)
  BY DEF Owed, OwedFor

\* The contract always covers every open order and every reserve: no rounding of fills,
\* refunds and pool trades (quote_from_base, cancel_order, match_leg) ever eats into what
\* another order or pool is owed, as long as no quote saturates and no leg trades a pair
\* the other way round than its orders were placed, which the code leaves to its callers.
THEOREM SolvencyAlways ==
  ASSUME NoSaturation, OneOrientation PROVE Spec => []Solvency
<1>1. TradeInv /\ NetInv => Solvency
  <2> SUFFICES ASSUME TradeInv, NetInv, NEW a \in Assets PROVE balance[a][Contract] >= Owed(a)
    BY DEF Solvency
  <2>1. orders \in Seq(Placed) /\ pools \in Seq(Pool) /\ balance \in Balances
    BY DEF TradeInv, PoolIndex
  <2>2. /\ balance[a][Contract] \in Int /\ InitBalance[a][Contract] \in Nat
        /\ OwedFor(orders, pools, a) \in Int
    BY <2>1, InputAssumption, PartyAccounts, OwedForInt DEF Balances
  <2>3. balance[a][Contract] - OwedFor(orders, pools, a) >= InitBalance[a][Contract]
    BY DEF NetInv, Net
  <2> QED BY <2>2, <2>3, OwedIs
<1> QED BY <1>1, TradeInvAlways, NetInvAlways, PTL

\* Under the same hypotheses only the rounding of bids stays behind: an asset that is only
\* ever a base, and of which the contract held nothing before, is held to the unit.
THEOREM NoStrandedBaseAlways ==
  ASSUME NoSaturation, OneOrientation, \A a \in Assets : InitBalance[a][Contract] = 0
  PROVE  Spec => []NoStrandedBase
<1>1. TradeInv /\ NetInv => NoStrandedBase
  <2> SUFFICES ASSUME TradeInv, NetInv, NEW a \in Assets, OnlyBase(a)
               PROVE  balance[a][Contract] = Owed(a)
    BY DEF NoStrandedBase, OnlyBase
  <2>1. orders \in Seq(Placed) /\ pools \in Seq(Pool) /\ balance \in Balances
    BY DEF TradeInv, PoolIndex
  <2>2. balance[a][Contract] \in Int /\ OwedFor(orders, pools, a) \in Int
    BY <2>1, PartyAccounts, OwedForInt DEF Balances
  <2>3. balance[a][Contract] - OwedFor(orders, pools, a) = 0
    BY DEF NetInv, Net
  <2> QED BY <2>2, <2>3, OwedIs
<1> QED BY <1>1, TradeInvAlways, NetInvAlways, PTL

-----------------------------------------------------------------------------
(* The limit of a leg.  A fill is quoted to the unit below its price, a pool *)
(* trade to the unit above it, so that a buyer may pay up to a unit of price *)
(* more and a seller may lose one unit of quote for every fill.              *)

\* The limits of trades, too, are small enough for their amounts.
LimitsFit ==
  \A legs \in Trades : \A k \in DOMAIN legs : (legs[k].limit + 1) * legs[k].amount <= MaxU128

LEMMA QuoteBounds ==
  ASSUME NEW b \in Nat, NEW price \in Nat
  PROVE  /\ QuoteOf(b, price) * Precision <= b * price
         /\ b * price <= MaxU128 => QuoteOf(b, price) * Precision > b * price - Precision
<1> DEFINE x == b * price
           y == Least(x, MaxU128)
           q == y \div Precision
<1>1. x \in Nat
  OBVIOUS
<1>2. QuoteOf(b, price) = q
  BY DEF QuoteOf
<1> HIDE DEF x
<1>3. y \in Nat /\ y <= x /\ (x <= MaxU128 => y = x)
  BY <1>1, ScaleAssumption DEF Least
<1> HIDE DEF y
<1>4. q * Precision <= y /\ q * Precision > y - Precision /\ q \in Nat
  BY <1>3, ScaleAssumption
<1> HIDE DEF q
<1>5. q * Precision \in Int
  BY <1>4, ScaleAssumption
<1> QED BY <1>1, <1>2, <1>3, <1>4, <1>5, ScaleAssumption DEF x

LEMMA MoreOf == ASSUME NEW a \in Nat, NEW b \in Nat, NEW c \in Nat, a <= b PROVE a * c <= b * c
<1>1. PICK d \in Nat : b = a + d
  <2>1. b - a \in Nat /\ b = a + (b - a)
    OBVIOUS
  <2> QED BY <2>1
<1>2. b * c = a * c + d * c /\ d * c \in Nat /\ a * c \in Nat
  BY <1>1
<1> QED BY <1>2

\* `traded` units for `quoted`, in so many fills, at the limit
AtLimit(leg, traded, quoted, fills) ==
  IF leg.side = "Buy" THEN quoted * Precision <= leg.limit * traded
  ELSE quoted * Precision >= leg.limit * traded - Precision * fills

LEMMA FillAtLimit ==
  ASSUME NoSaturation, NEW o \in Placed, Open(o), NEW b \in 1..Unfilled(o),
         NEW leg \in TradeLeg, leg.limit > 0, WithinLimit(leg, o.price)
  PROVE  AtLimit(leg, b, QuoteOf(b, o.price), 1)
<1>1. /\ o.price \in Nat /\ b \in Nat /\ o.amount \in Nat /\ b <= o.amount
      /\ o.price \in Prices /\ o.amount \in Amounts /\ leg.limit \in Nat
  BY PlacedTypes DEF Placed, Unfilled, TradeLeg
<1>2. b * o.price <= MaxU128
  <2>1. b * o.price <= o.amount * o.price
    BY <1>1, MoreOf
  <2>2. o.amount * o.price <= MaxU128
    BY <1>1 DEF NoSaturation
  <2> QED BY <1>1, <2>1, <2>2, ScaleAssumption
<1>3. /\ QuoteOf(b, o.price) * Precision <= b * o.price
      /\ QuoteOf(b, o.price) * Precision > b * o.price - Precision
  BY <1>1, <1>2, QuoteBounds
<1>4. QuoteOf(b, o.price) * Precision \in Int /\ b * o.price \in Int /\ leg.limit * b \in Int
      /\ Precision * 1 = Precision
  <2>1. QuoteOf(b, o.price) \in Nat
    BY <1>1, QuoteNat
  <2> QED BY <1>1, <2>1, ScaleAssumption
<1>5. CASE leg.side = "Buy"
  <2>1. o.price <= leg.limit
    BY <1>1, <1>5 DEF WithinLimit, BetterPrice, Opposite
  <2>2. o.price * b <= leg.limit * b /\ b * o.price = o.price * b
    BY <1>1, <2>1, MoreOf
  <2> QED BY <1>3, <1>4, <1>5, <2>2 DEF AtLimit
<1>6. CASE leg.side # "Buy"
  <2>1. leg.limit <= o.price
    BY <1>1, <1>6 DEF WithinLimit, BetterPrice, Opposite
  <2>2. leg.limit * b <= o.price * b /\ b * o.price = o.price * b
    BY <1>1, <2>1, MoreOf
  <2> QED BY <1>3, <1>4, <1>6, <2>2, ScaleAssumption DEF AtLimit
<1> QED BY <1>5, <1>6

\* Two parts at the limit are at the limit.
LEMMA AtLimitTogether ==
  ASSUME NEW leg \in TradeLeg, NEW s \in Nat, NEW t \in Nat, NEW q \in Int, NEW r \in Int,
         NEW m \in Nat, NEW n \in Nat, AtLimit(leg, s, q, m), AtLimit(leg, t, r, n)
  PROVE  AtLimit(leg, s + t, q + r, m + n)
<1>1. leg.limit \in Nat /\ Precision \in Nat
  BY ScaleAssumption DEF TradeLeg
<1>2. (q + r) * Precision = q * Precision + r * Precision
  BY <1>1
<1>3. leg.limit * (s + t) = leg.limit * s + leg.limit * t
  BY <1>1
<1>4. Precision * (m + n) = Precision * m + Precision * n
  BY <1>1
<1>5. /\ q * Precision \in Int /\ r * Precision \in Int /\ leg.limit * s \in Int
      /\ leg.limit * t \in Int /\ Precision * m \in Int /\ Precision * n \in Int
  BY <1>1
<1> QED BY <1>2, <1>3, <1>4, <1>5 DEF AtLimit

LEMMA AtLimitNone == ASSUME NEW leg \in TradeLeg, NEW n \in Nat PROVE AtLimit(leg, 0, 0, n)
<1>1. leg.limit \in Nat /\ Precision \in Nat
  BY ScaleAssumption DEF TradeLeg
<1>2. leg.limit * 0 = 0 /\ 0 * Precision = 0 /\ Precision * n \in Nat
  BY <1>1
<1> QED BY <1>2 DEF AtLimit

\* What a leg has traded after n entries of its list is at its limit.
InLimit(run, leg, n) ==
  /\ run.rest \in Nat /\ run.rest <= leg.amount /\ run.quoted \in Int
  /\ AtLimit(leg, leg.amount - run.rest, run.quoted, n)

LEMMA FillInLimit ==
  ASSUME NoSaturation, NEW os, NEW run, NEW leg, NEW list, NEW n, Walking(os, run, leg, list, n),
         leg.limit > 0, InLimit(run, leg, n - 1), run.rest > 0, Live(run.orders[list[n]]),
         WithinLimit(leg, run.orders[list[n]].price), NEW trader \in Parties
  PROVE  InLimit(Fill(run, trader, leg, list[n]), leg, n)
<1> DEFINE id == list[n]
           o == run.orders[id]
           base == Least(run.rest, Unfilled(o))
           quote == QuoteOf(base, o.price)
           after == Fill(run, trader, leg, id)
<1>0. /\ IsRun(run) /\ leg \in TradeLeg /\ run.rest \in Nat /\ run.quoted \in Int
      /\ run.rest <= leg.amount /\ leg.amount \in Int /\ n - 1 \in Nat /\ 1 \in Nat
      /\ AtLimit(leg, leg.amount - run.rest, run.quoted, n - 1)
  BY DEF Walking, InLimit, TradeLeg
<1>1. id \in DOMAIN run.orders /\ o \in Placed /\ o.price \in Nat /\ Open(o)
  <2>1. id \in DOMAIN run.orders /\ o \in Placed
    BY NextEntry
  <2>2. Open(o)
    BY DEF Live
  <2> QED BY <2>1, <2>2, PlacedTypes
<1>2. base \in 1..Unfilled(o) /\ run.rest - base >= 0
  BY <1>0, <1>1, TakenOfRest
<1>3. IsFill(run, trader, leg, id, after)
  BY <1>0, <1>1, FillFields
<1>4. after.rest = run.rest - base /\ after.quoted = run.quoted + quote
  BY <1>3 DEF IsFill
<1> HIDE DEF o, base, after
<1>5. AtLimit(leg, base, quote, 1) /\ base \in Nat /\ quote \in Int
  <2>1. AtLimit(leg, base, quote, 1)
    BY <1>0, <1>1, <1>2, FillAtLimit DEF o
  <2>2. base \in Nat
    BY <1>2
  <2>3. quote \in Nat
    BY <1>1, <2>2, QuoteNat
  <2> HIDE DEF quote
  <2> QED BY <2>1, <2>2, <2>3
<1> HIDE DEF quote
<1>6. AtLimit(leg, (leg.amount - run.rest) + base, run.quoted + quote, (n - 1) + 1)
  <2>1. leg.amount - run.rest \in Nat
    BY <1>0
  <2> QED BY <1>0, <1>5, <2>1, AtLimitTogether
<1>7. (leg.amount - run.rest) + base = leg.amount - (run.rest - base) /\ (n - 1) + 1 = n
  BY <1>0, <1>5 DEF Walking
<1>8. after.rest \in Nat /\ after.rest <= leg.amount /\ after.quoted \in Int
  BY <1>0, <1>2, <1>4, <1>5
<1> QED BY <1>4, <1>6, <1>7, <1>8 DEF InLimit, after

LEMMA VisitInLimit ==
  ASSUME NoSaturation, NEW os, NEW run, NEW leg, NEW list, NEW n, Walking(os, run, leg, list, n),
         leg.limit > 0, InLimit(run, leg, n - 1), NEW trader \in Parties
  PROVE  InLimit(Visit(run, trader, leg, list[n]), leg, n)
<1> DEFINE after == Visit(run, trader, leg, list[n])
           passed == [run EXCEPT !.kept = Append(@, list[n])]
<1>1. IsRun(run) /\ run.rest \in Int /\ leg \in TradeLeg /\ n - 1 \in Nat /\ n \in Nat
  BY DEF Walking, Walked
<1>2. passed.rest = run.rest /\ passed.quoted = run.quoted
  BY <1>1 DEF IsRun
<1>3. InLimit(run, leg, n)
  <2>1. /\ run.rest \in Nat /\ run.rest <= leg.amount /\ run.quoted \in Int /\ leg.amount \in Int
        /\ AtLimit(leg, leg.amount - run.rest, run.quoted, n - 1)
    BY <1>1 DEF InLimit, TradeLeg
  <2>2. AtLimit(leg, 0, 0, 1)
    BY <1>1, AtLimitNone
  <2>3. leg.amount - run.rest \in Nat
    BY <2>1
  <2>4. AtLimit(leg, (leg.amount - run.rest) + 0, run.quoted + 0, (n - 1) + 1)
    BY <1>1, <2>1, <2>2, <2>3, AtLimitTogether
  <2>5. (leg.amount - run.rest) + 0 = leg.amount - run.rest /\ run.quoted + 0 = run.quoted
        /\ (n - 1) + 1 = n
    BY <1>1, <2>1
  <2> QED BY <2>1, <2>4, <2>5 DEF InLimit
<1> HIDE DEF passed
<1>4. InLimit(passed, leg, n)
  BY <1>2, <1>3 DEF InLimit
<1>5. CASE /\ after = Fill(run, trader, leg, list[n]) /\ run.rest > 0
           /\ Live(run.orders[list[n]]) /\ WithinLimit(leg, run.orders[list[n]].price)
  BY <1>5, FillInLimit
<1> HIDE DEF after
<1>6. \/ after = passed \/ after = run
      \/ /\ after = Fill(run, trader, leg, list[n]) /\ run.rest > 0
         /\ Live(run.orders[list[n]]) /\ WithinLimit(leg, run.orders[list[n]].price)
  BY <1>1, VisitCases DEF after, passed
<1> QED BY <1>3, <1>4, <1>5, <1>6 DEF after

\* The whole list, met at the limit
LEMMA VisitsInLimit ==
  ASSUME NoSaturation, NEW run, NEW leg, Ready(run), MatchingLeg(leg), leg.limit > 0,
         leg.amount > 0, run.rest = leg.amount, run.quoted = 0,
         NEW trader \in Parties, NEW n \in 0..Len(Facing(run, leg)),
         Visits(run, trader, leg, Facing(run, leg))[n].ok
  PROVE  InLimit(Visits(run, trader, leg, Facing(run, leg))[n], leg, n)
<1> DEFINE list == Facing(run, leg)
           os == run.orders
           v == Visits(run, trader, leg, list)
           Good(m) == v[m].ok => InLimit(v[m], leg, m)
           S == {m \in Nat : m <= Len(list) => Good(m)}
<1>0. /\ os \in Seq(Placed) /\ IsRun(run) /\ leg \in TradeLeg
      /\ ListOf(os, list, PairKey(leg.base, leg.quote), Opposite(leg.side))
      /\ Len(list) \in Nat
  <2>1. ListOf(os, list, PairKey(leg.base, leg.quote), Opposite(leg.side))
    BY FacingList
  <2>2. list \in Seq(DOMAIN os)
    BY <2>1 DEF ListOf
  <2> QED BY <2>1, <2>2 DEF Ready, MatchingLeg
<1>1. /\ v[0] = [run EXCEPT !.kept = << >>]
      /\ \A k \in 1..Len(list) : v[k] = Visit(v[k - 1], trader, leg, list[k])
  BY <1>0, VisitsDef
<1>2. \A k \in 0..Len(list) : IsRun(v[k]) /\ (v[k].ok => Walked(os, v[k], leg, list, k))
  BY VisitsWalk
<1> HIDE DEF v, list
<1>3. 0 \in S
  <2>1. v[0].rest = leg.amount /\ v[0].quoted = 0
    BY <1>0, <1>1 DEF IsRun
  <2>2. leg.amount \in Nat /\ leg.amount - leg.amount = 0
    BY <1>0 DEF TradeLeg
  <2>3. AtLimit(leg, 0, 0, 0)
    BY <1>0, AtLimitNone
  <2>4. InLimit(v[0], leg, 0)
    BY <2>1, <2>2, <2>3 DEF InLimit
  <2> QED BY <2>4
<1>4. \A m \in Nat : m \in S => m + 1 \in S
  <2> SUFFICES ASSUME NEW m \in Nat, m + 1 <= Len(list), Good(m), v[m + 1].ok
               PROVE  InLimit(v[m + 1], leg, m + 1)
    BY <1>0
  <2>1. m + 1 \in 1..Len(list) /\ (m + 1) - 1 = m /\ m \in 0..Len(list)
    BY <1>0
  <2>2. v[m + 1] = Visit(v[m], trader, leg, list[m + 1])
    BY <1>1, <2>1
  <2>3. v[m].ok /\ IsRun(v[m])
    <3>1. IsRun(v[m])
      BY <1>2, <2>1
    <3> QED BY <2>2, <3>1, VisitKeeps
  <2>4. Walked(os, v[m], leg, list, m)
    BY <1>2, <2>1, <2>3
  <2>5. Walking(os, v[m], leg, list, m + 1)
    BY <1>0, <2>1, <2>3, <2>4 DEF Walking
  <2>6. InLimit(v[m], leg, (m + 1) - 1)
    BY <2>1, <2>3
  <2> QED BY <2>2, <2>5, <2>6, VisitInLimit
<1>5. n \in S
  <2> HIDE DEF S
  <2> QED BY <1>0, <1>3, <1>4, NatSetInduction DEF list
<1>6. v[n].ok
  BY DEF v, list
<1>7. InLimit(v[n], leg, n)
  BY <1>0, <1>5, <1>6 DEF list
<1> QED BY <1>7 DEF v, list

LEMMA MatchBookInLimit ==
  ASSUME NoSaturation, NEW run, NEW leg, Ready(run), MatchingLeg(leg), leg.limit > 0,
         leg.amount > 0, run.rest = leg.amount, run.quoted = 0,
         NEW trader \in Parties, MatchBook(run, trader, leg).ok
  PROVE  InLimit(MatchBook(run, trader, leg), leg, Len(Facing(run, leg)))
<1> DEFINE list == Facing(run, leg)
           end == Visits(run, trader, leg, list)[Len(list)]
           after == MatchBook(run, trader, leg)
<1>1. Len(list) \in Nat /\ Len(list) \in 0..Len(list)
  <2>1. Len(list) \in Nat
    BY FacingList DEF ListOf
  <2> QED BY <2>1
<1>2. IsRun(end)
  BY <1>1, VisitsWalk
<1>3. after = [end EXCEPT !.book[PairKey(leg.base, leg.quote)][Opposite(leg.side)] = end.kept]
  BY DEF MatchBook, Facing
<1> HIDE DEF end, after
<1>4. after.ok = end.ok /\ after.rest = end.rest /\ after.quoted = end.quoted
  BY <1>2, <1>3 DEF IsRun
<1>5. InLimit(end, leg, Len(list))
  <2>1. end.ok
    BY <1>4 DEF after
  <2> QED BY <1>1, <2>1, VisitsInLimit DEF end
<1> QED BY <1>4, <1>5 DEF InLimit, after

\* A leg that is traded in full, as LimitKept asks
FullAtLimit(leg, quoted, fills) ==
  IF leg.side = "Buy" THEN quoted * Precision < (leg.limit + 1) * leg.amount
  ELSE quoted * Precision > leg.limit * leg.amount - Precision * (fills + 1)

\* A pool trade is at the limit but for a unit of price.
LEMMA PoolAtLimit ==
  ASSUME NEW leg \in TradeLeg, leg.limit > 0, NEW rest \in Nat \ {0}, NEW quote \in Nat,
         (leg.limit + 1) * rest <= MaxU128, WithinLimit(leg, PriceOf(quote, rest))
  PROVE  IF leg.side = "Buy" THEN quote * Precision < (leg.limit + 1) * rest
         ELSE quote * Precision >= leg.limit * rest
<1> DEFINE x == quote * Precision
           y == Least(x, MaxU128)
           p == y \div rest
<1>1. x \in Nat /\ leg.limit \in Nat
  BY ScaleAssumption DEF TradeLeg
<1>2. PriceOf(quote, rest) = p
  BY DEF PriceOf
<1> HIDE DEF x
<1>3. y \in Nat /\ y <= x /\ (y = x \/ y = MaxU128)
  BY <1>1, ScaleAssumption DEF Least
<1> HIDE DEF y
<1>4. p \in Nat /\ p * rest <= y /\ y < p * rest + rest
  BY <1>3
<1> HIDE DEF p
<1>5. CASE leg.side = "Buy"
  <2>1. p <= leg.limit
    BY <1>1, <1>2, <1>4, <1>5 DEF WithinLimit, BetterPrice, Opposite
  <2>2. p * rest <= leg.limit * rest /\ (leg.limit + 1) * rest = leg.limit * rest + rest
    <3>1. p * rest <= leg.limit * rest
      BY <1>1, <1>4, <2>1, MoreOf
    <3> QED BY <1>1, <3>1
  <2>3. p * rest \in Int /\ leg.limit * rest \in Int
    BY <1>1, <1>4
  <2>4. y < (leg.limit + 1) * rest
    BY <1>3, <1>4, <2>2, <2>3
  <2>5. (leg.limit + 1) * rest \in Int /\ MaxU128 \in Int
    BY <1>1, ScaleAssumption
  <2> QED BY <1>3, <1>5, <2>4, <2>5 DEF x
<1>6. CASE leg.side # "Buy"
  <2>1. leg.limit <= p
    BY <1>1, <1>2, <1>4, <1>6 DEF WithinLimit, BetterPrice, Opposite
  <2>2. leg.limit * rest <= p * rest
    BY <1>1, <1>4, <2>1, MoreOf
  <2>3. p * rest \in Int /\ leg.limit * rest \in Int
    BY <1>1, <1>4
  <2> QED BY <1>1, <1>3, <1>4, <1>6, <2>2, <2>3 DEF x
<1> QED BY <1>5, <1>6

LEMMA BookedAtLimit ==
  ASSUME NEW run, NEW leg \in TradeLeg, NEW n \in Nat, InLimit(run, leg, n), run.rest <= 0,
         leg.amount > 0
  PROVE  FullAtLimit(leg, run.quoted, n)
<1>1. /\ run.rest = 0 /\ leg.amount \in Nat /\ leg.limit \in Nat /\ leg.amount - 0 = leg.amount
      /\ run.quoted \in Int /\ Precision \in Nat /\ Precision > 0
  BY ScaleAssumption DEF InLimit, TradeLeg
<1>2. AtLimit(leg, leg.amount, run.quoted, n)
  BY <1>1 DEF InLimit
<1>3. /\ (leg.limit + 1) * leg.amount = leg.limit * leg.amount + leg.amount
      /\ Precision * (n + 1) = Precision * n + Precision
      /\ leg.limit * leg.amount \in Int /\ Precision * n \in Int /\ run.quoted * Precision \in Int
  BY <1>1
<1> QED BY <1>1, <1>2, <1>3 DEF AtLimit, FullAtLimit

LEMMA PooledAtLimit ==
  ASSUME NEW run, NEW leg \in TradeLeg, leg.limit > 0, NEW n \in Nat, InLimit(run, leg, n),
         run.rest > 0, (leg.limit + 1) * leg.amount <= MaxU128, NEW quote \in Nat,
         WithinLimit(leg, PriceOf(quote, run.rest))
  PROVE  FullAtLimit(leg, run.quoted + quote, n)
<1> DEFINE rest == run.rest
           traded == leg.amount - rest
<1>1. /\ rest \in Nat \ {0} /\ traded \in Nat /\ leg.limit \in Nat /\ leg.amount \in Nat
      /\ leg.amount = traded + rest /\ rest <= leg.amount
      /\ run.quoted \in Int /\ Precision \in Nat /\ Precision > 0
      /\ AtLimit(leg, traded, run.quoted, n)
  BY ScaleAssumption DEF InLimit, TradeLeg
<1> HIDE DEF rest, traded
<1>2. (leg.limit + 1) * rest <= MaxU128
  <2>1. leg.limit + 1 \in Nat /\ rest \in Nat
    BY <1>1
  <2>2. rest * (leg.limit + 1) <= leg.amount * (leg.limit + 1)
    BY <1>1, <2>1, MoreOf
  <2>3. /\ rest * (leg.limit + 1) = (leg.limit + 1) * rest
        /\ leg.amount * (leg.limit + 1) = (leg.limit + 1) * leg.amount
        /\ (leg.limit + 1) * rest \in Int /\ (leg.limit + 1) * leg.amount \in Int
    BY <1>1, <2>1
  <2> QED BY <2>2, <2>3, ScaleAssumption
<1>3. IF leg.side = "Buy" THEN quote * Precision < (leg.limit + 1) * rest
      ELSE quote * Precision >= leg.limit * rest
  BY <1>1, <1>2, PoolAtLimit DEF rest
<1>4. (run.quoted + quote) * Precision = run.quoted * Precision + quote * Precision
  BY <1>1
<1>5. /\ (leg.limit + 1) * rest = leg.limit * rest + rest
      /\ leg.limit * leg.amount = leg.limit * traded + leg.limit * rest
      /\ (leg.limit + 1) * leg.amount = leg.limit * leg.amount + leg.amount
      /\ Precision * (n + 1) = Precision * n + Precision
  <2>1. (leg.limit + 1) * rest = leg.limit * rest + rest
    BY <1>1
  <2>2. leg.limit * (traded + rest) = leg.limit * traded + leg.limit * rest
    BY <1>1
  <2>3. (leg.limit + 1) * leg.amount = leg.limit * leg.amount + leg.amount
    BY <1>1
  <2> QED BY <1>1, <2>1, <2>2, <2>3
<1>6. /\ leg.limit * rest \in Int /\ leg.limit * traded \in Int /\ Precision * n \in Int
      /\ run.quoted * Precision \in Int /\ quote * Precision \in Int
  BY <1>1
<1> QED BY <1>1, <1>3, <1>4, <1>5, <1>6 DEF AtLimit, FullAtLimit

LEMMA MatchLegAtLimit ==
  ASSUME NoSaturation, NEW run, NEW leg, Trading(run), leg \in TradeLeg, leg.limit > 0,
         (leg.limit + 1) * leg.amount <= MaxU128,
         NEW trader \in Parties, MatchLeg(run, trader, leg).ok
  PROVE  FullAtLimit(leg, MatchLeg(run, trader, leg).quoted, Len(Facing(run, leg)))
<1> DEFINE start == LegStart(run, leg)
           booked == MatchBook(start, trader, leg)
           done   == IF booked.rest > 0 THEN UsePool(booked, trader, leg) ELSE booked
           after  == MatchLeg(run, trader, leg)
           n == Len(Facing(run, leg))
<1>1. /\ MatchingLeg(leg) /\ leg.amount > 0 /\ done.ok /\ Trading(booked) /\ booked.ok
      /\ after.quoted = done.quoted
  BY MatchLegParts
<1>2. /\ Trading(start) /\ start.rest = leg.amount /\ start.quoted = 0 /\ start.book = run.book
  BY LegStartReady
<1> HIDE DEF start
<1>3. InLimit(booked, leg, Len(Facing(start, leg))) /\ n \in Nat
  <2>1. Ready(start) /\ Ready(run)
    BY <1>2 DEF Trading
  <2>2. InLimit(booked, leg, Len(Facing(start, leg)))
    BY <1>1, <1>2, <2>1, MatchBookInLimit
  <2>3. n \in Nat
    BY <1>1, <2>1, FacingList DEF ListOf
  <2> HIDE DEF booked
  <2> QED BY <2>2, <2>3
<1>4. Facing(start, leg) = Facing(run, leg)
  BY <1>2 DEF Facing
<1> HIDE DEF booked
<1>5. InLimit(booked, leg, n)
  BY <1>3, <1>4
<1> HIDE DEF n, after
<1>6. CASE booked.rest <= 0
  <2>1. done = booked
    BY <1>5, <1>6 DEF InLimit
  <2> QED BY <1>1, <1>3, <1>5, <1>6, <2>1, BookedAtLimit DEF n, after
<1>7. CASE booked.rest > 0
  <2>1. done = UsePool(booked, trader, leg)
    BY <1>7
  <2>2. Ready(booked) /\ PoolIndex(booked.pools) /\ UsePool(booked, trader, leg).ok
    BY <1>1, <2>1 DEF Trading
  <2>3. PICK id \in DOMAIN booked.pools, quote \in Nat \ {0} :
          IsPoolTrade(booked, trader, leg, id, quote, done)
    BY <1>1, <1>7, <2>1, <2>2, UsePoolFields
  <2>4. done.quoted = booked.quoted + quote /\ WithinLimit(leg, PriceOf(quote, booked.rest))
    BY <2>3 DEF IsPoolTrade
  <2>5. FullAtLimit(leg, booked.quoted + quote, n)
    BY <1>3, <1>5, <1>7, <2>4, PooledAtLimit
  <2> QED BY <1>1, <2>4, <2>5 DEF n, after
<1>8. booked.rest \in Int
  BY <1>5 DEF InLimit
<1> QED BY <1>6, <1>7, <1>8

\* Whatever mixture of orders and pool fills a leg, a buyer pays less than a unit of price
\* above the limit and a seller loses at most the rounding of each fill (match_leg,
\* limit_satisfied), as long as no order, and no limit with its amount, saturates a quote.
THEOREM LimitKeptAlways ==
  ASSUME NoSaturation, LimitsFit PROVE Spec => []LimitKept
<1>1. TradeInv => LimitKept
  <2> SUFFICES ASSUME TradeInv, NEW p \in Parties, NEW legs \in Trades,
                      legs # << >>, MatchLegs(p, <<legs[1]>>).ok, legs[1].limit > 0
               PROVE  LET leg == legs[1]
                          end == MatchLegs(p, <<leg>>)
                          list == book[PairKey(leg.base, leg.quote)][Opposite(leg.side)]
                      IN IF leg.side = "Buy"
                         THEN end.quoted * Precision < (leg.limit + 1) * leg.amount
                         ELSE end.quoted * Precision >
                                leg.limit * leg.amount - Precision * (Len(list) + 1)
    BY DEF LimitKept
  <2> DEFINE leg == legs[1]
             one == <<leg>>
             g == LegRuns(p, one)
  <2>1. leg \in TradeLeg /\ (leg.limit + 1) * leg.amount <= MaxU128
    <3>1. legs \in Seq(TradeLeg)
      BY InputAssumption
    <3>2. 1 \in DOMAIN legs
      BY <3>1
    <3> QED BY <3>1, <3>2 DEF LimitsFit
  <2>2. Len(one) = 1 /\ one[1] = leg /\ Len(one) \in Nat /\ 1 \in 1..Len(one) /\ 1 - 1 = 0
    OBVIOUS
  <2>3. Trading(Start) /\ Start.ok
    BY StartTrading
  <2> HIDE DEF one
  <2>4. g[1] = MatchLeg(Start, p, leg)
    <3>1. g[0] = Start
      BY <2>2, LegRunsDef
    <3>2. \A k \in 1..Len(one) :
            g[k] = IF g[k - 1].ok THEN MatchLeg(g[k - 1], p, one[k]) ELSE g[k - 1]
      <4>1. Len(one) \in Nat
        BY <2>2
      <4> QED BY ONLY <4>1, LegRunsDef
    <3>3. g[1] = IF g[0].ok THEN MatchLeg(g[0], p, one[1]) ELSE g[0]
      BY <2>2, <3>2
    <3> QED BY <2>2, <2>3, <3>1, <3>3
  <2>5. MatchLegs(p, one) = MatchLeg(Start, p, leg)
    BY <2>2, <2>4 DEF MatchLegs
  <2>6. Facing(Start, leg) = book[PairKey(leg.base, leg.quote)][Opposite(leg.side)]
    BY DEF Facing, Start
  <2>7. MatchLeg(Start, p, leg).ok
    BY <2>5 DEF one
  <2>8. FullAtLimit(leg, MatchLeg(Start, p, leg).quoted, Len(Facing(Start, leg)))
    BY <2>1, <2>3, <2>7, MatchLegAtLimit
  <2> QED BY <2>5, <2>6, <2>8 DEF FullAtLimit, one
<1> QED BY <1>1, TradeInvAlways, PTL
=============================================================================
