---------------------------- MODULE AssetLedger -----------------------------
(***************************************************************************)
(* The token contracts as the custody contracts use them: `balance` traps  *)
(* when the address has no trustline, and `transfer` succeeds when the     *)
(* sender holds the amount and both ends may hold the asset.  The account  *)
(* of a contract needs no trustline.                                       *)
(***************************************************************************)
EXTENDS Sums

CONSTANTS Parties,     \* the addresses that call the contract
          Contract,    \* the custody account of the contract itself
          Assets       \* the token contracts

ASSUME ContractAssumption == Contract \notin Parties

Accounts == Parties \cup {Contract}

\* storage::has_trustline
HasTrustline(trust, holder, asset) == holder = Contract \/ <<holder, asset>> \in trust

\* The token accepts the transfer.
TransferOk(balance, trust, asset, from, to, amount) ==
  /\ balance[asset][from] >= amount
  /\ HasTrustline(trust, from, asset)
  /\ HasTrustline(trust, to, asset)

\* The balances after the token carried the transfer out.
Transfer(balance, asset, from, to, amount) ==
  [balance EXCEPT ![asset][from] = @ - amount, ![asset][to] = @ + amount]

Balances == [Assets -> [Accounts -> Nat]]
=============================================================================
