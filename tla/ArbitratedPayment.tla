------------------------- MODULE ArbitratedPayment --------------------------
(***************************************************************************)
(* What an escrow contract promises, without custody, votes or time: a     *)
(* payment is offered by its payee, the payer may commit to it, and a      *)
(* committed payment is either made, once, or void.  `wealth` is what a    *)
(* party owns, wherever it is kept: committing and voiding change nothing  *)
(* here.                                                                   *)
(***************************************************************************)
EXTENDS Integers, Sequences

CONSTANTS Parties, Assets, Amounts, InitWealth

VARIABLES payments, wealth

vars == <<payments, wealth>>

Terms == [payee : Parties, payer : Parties, asset : Assets, amount : Amounts]

Init == payments = << >> /\ wealth = InitWealth

Offer(terms) ==
  /\ terms.payee # terms.payer
  /\ terms.amount > 0
  /\ payments' = Append(payments, [terms |-> terms, phase |-> "offered"])
  /\ UNCHANGED wealth

Commit(i) ==
  /\ payments[i].phase = "offered"
  /\ payments' = [payments EXCEPT ![i].phase = "committed"]
  /\ UNCHANGED wealth

\* What p owns of asset a once payment t is made
After(t, a, p) ==
  CASE a = t.asset /\ p = t.payer -> wealth[a][p] - t.amount
    [] a = t.asset /\ p = t.payee -> wealth[a][p] + t.amount
    [] OTHER -> wealth[a][p]

Pay(i) ==
  /\ payments[i].phase = "committed"
  /\ payments' = [payments EXCEPT ![i].phase = "paid"]
  /\ wealth' = [a \in Assets |-> [p \in Parties |-> After(payments[i].terms, a, p)]]

Void(i) ==
  /\ payments[i].phase \in {"offered", "committed"}
  /\ payments' = [payments EXCEPT ![i].phase = "void"]
  /\ UNCHANGED wealth

Next == \/ \E terms \in Terms : Offer(terms)
        \/ \E i \in 1..Len(payments) : Commit(i) \/ Pay(i) \/ Void(i)

Spec == Init /\ [][Next]_vars
=============================================================================
