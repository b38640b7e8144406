---------------------------- MODULE MCTradeEngine ----------------------------
(***************************************************************************)
(* Instances of TradeEngine for TLC.                                       *)
(***************************************************************************)
EXTENDS TradeEngine, TLC

CONSTANTS alice, bob, gold, usd

MCInitBalance ==
  [a \in Assets |-> [h \in Accounts |-> IF h = Contract THEN 0 ELSE 3]]

AllTrust == Parties \X Assets

\* The parties start alike and no argument names one: permuting them changes nothing.
PartySymmetry == Permutations(Parties)

GoldUsd == {<<gold, usd>>}
BothWays == {<<gold, usd>>, <<usd, gold>>}

Leg(base, quote, side, amount, limit, minOutput) ==
  [base |-> base, quote |-> quote, side |-> side, amount |-> amount, limit |-> limit,
   minOutput |-> minOutput]

Buy(amount, limit, minOutput) == Leg(gold, usd, "Buy", amount, limit, minOutput)
Sell(amount, limit, minOutput) == Leg(gold, usd, "Sell", amount, limit, minOutput)

\* One leg each way with a limit, and a round trip that buys without one
GoldTrades == {<<Buy(1, 3, 1)>>, <<Sell(2, 1, 1)>>,
               <<Sell(1, 1, 0), Buy(2, 0, 0)>>}

Offer(a, b, reserveA, reserveB, fee) ==
  [a |-> a, b |-> b, reserveA |-> reserveA, reserveB |-> reserveB, fee |-> fee]

\* A pool listed the other way round, with a fee of 10 per cent
GoldPools == {Offer(usd, gold, 3, 2, 1000)}
=============================================================================
