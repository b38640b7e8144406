------------------------- MODULE BilateralExchange --------------------------
(***************************************************************************)
(* What a swap contract promises, without escrow, funding or time: a deal  *)
(* is offered, and later either both legs move in one step or nothing ever *)
(* moves.  `wealth` is what a party owns, wherever it is kept, so that a   *)
(* deposit into custody, or its return, changes nothing here.              *)
(***************************************************************************)
EXTENDS Integers, Sequences

CONSTANTS Parties, Assets, Amounts, InitWealth

VARIABLES deals, wealth

vars == <<deals, wealth>>

Terms == [creator : Parties, counterparty : Parties,
          assetA : Assets, amountA : Amounts, assetB : Assets, amountB : Amounts]

Init == deals = << >> /\ wealth = InitWealth

Offer(terms) ==
  /\ terms.creator # terms.counterparty
  /\ terms.assetA # terms.assetB
  /\ terms.amountA > 0 /\ terms.amountB > 0
  /\ deals' = Append(deals, [terms |-> terms, phase |-> "open"])
  /\ UNCHANGED wealth

\* What p owns of asset a once deal t is exchanged
After(t, a, p) ==
  CASE p = t.creator /\ a = t.assetA -> wealth[a][p] - t.amountA
    [] p = t.creator /\ a = t.assetB -> wealth[a][p] + t.amountB
    [] p = t.counterparty /\ a = t.assetA -> wealth[a][p] + t.amountA
    [] p = t.counterparty /\ a = t.assetB -> wealth[a][p] - t.amountB
    [] OTHER -> wealth[a][p]

Exchange(i) ==
  /\ deals[i].phase = "open"
  /\ deals' = [deals EXCEPT ![i].phase = "exchanged"]
  /\ wealth' = [a \in Assets |-> [p \in Parties |-> After(deals[i].terms, a, p)]]

Void(i) ==
  /\ deals[i].phase = "open"
  /\ deals' = [deals EXCEPT ![i].phase = "void"]
  /\ UNCHANGED wealth

Next == \/ \E terms \in Terms : Offer(terms)
        \/ \E i \in 1..Len(deals) : Exchange(i) \/ Void(i)

Spec == Init /\ [][Next]_vars
=============================================================================
