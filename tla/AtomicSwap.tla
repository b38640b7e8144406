----------------------------- MODULE AtomicSwap -----------------------------
(***************************************************************************)
(* The atomic-swap contract (swaptrade-contracts/atomic-swap): a creator   *)
(* offers asset A for asset B of a named counterparty, both deposit into   *)
(* the contract's one account, the counterparty accepts before the expiry  *)
(* or the creator refunds from the expiry on.                              *)
(*                                                                         *)
(* A Soroban call is atomic and an Err rolls all of it back, so every      *)
(* action below is one successful call; a call that fails is a stuttering  *)
(* step.  Time and trustlines belong to the environment and move between   *)
(* any two calls.                                                          *)
(***************************************************************************)
EXTENDS AssetLedger, Sequences

CONSTANTS Amounts,          \* the amounts callers ask for (i128)
          Nonces,           \* the client-supplied nonces
          Expiries,         \* the expiry timestamps callers ask for
          MinExpiries,      \* the values set_min_expiry is called with
          DefaultMinExpiry, \* min_expiry before it is ever set
          MaxTime,          \* bound: the last ledger timestamp
          MaxSwaps,         \* bound: swaps ever created
          InitBalance,      \* token balances at the start
          InitTrust,        \* trustlines open at the start
          MutableTrust      \* trustlines the environment opens and closes

ASSUME AmountsAssumption == Amounts \subseteq Int
ASSUME TimesAssumption == /\ Expiries \subseteq Nat
                          /\ MinExpiries \subseteq Nat
                          /\ DefaultMinExpiry \in Nat
ASSUME BoundsAssumption == MaxTime \in Nat /\ MaxSwaps \in Nat
ASSUME InitBalanceAssumption == InitBalance \in [Assets -> [Accounts -> Nat]]
ASSUME InitTrustAssumption ==
  /\ InitTrust \subseteq Parties \X Assets
  /\ MutableTrust \subseteq Parties \X Assets
  /\ \A p \in Parties, a \in Assets : InitBalance[a][p] > 0 => <<p, a>> \in InitTrust

VARIABLES swaps,       \* the swap map, by id: ids are 1, 2, ... in order of creation
          nonceIndex,  \* (creator, nonce) -> swap id, 0 where there is none
          minExpiry,   \* the configured minimum expiry window
          now,         \* the ledger timestamp
          balance,     \* the token contracts: asset -> account -> amount
          trust        \* the token contracts: open trustlines

vars == <<swaps, nonceIndex, minExpiry, now, balance, trust>>

Ids == 1..Len(swaps)

SwapState == {"Created", "Funded", "Accepted", "Cancelled", "Refunded"}

Swap == [creator : Parties, counterparty : Parties,
         assetA : Assets, amountA : Amounts, assetB : Assets, amountB : Amounts,
         expiry : Expiries, nonce : Nonces, state : SwapState,
         creatorFunded : BOOLEAN, counterpartyFunded : BOOLEAN]

\* Not Accepted, Cancelled or Refunded.
Live(s) == s.state \in {"Created", "Funded"}

AnyFunded(s) == s.creatorFunded \/ s.counterpartyFunded
BothFunded(s) == s.creatorFunded /\ s.counterpartyFunded
-----------------------------------------------------------------------------
Init ==
  /\ swaps = << >>
  /\ nonceIndex = [key \in Parties \X Nonces |-> 0]
  /\ minExpiry = DefaultMinExpiry
  /\ now = 0
  /\ balance = InitBalance
  /\ trust = InitTrust

NewSwap(creator, counterparty, assetA, amountA, assetB, amountB, expiry, nonce) ==
  [creator |-> creator, counterparty |-> counterparty,
   assetA |-> assetA, amountA |-> amountA, assetB |-> assetB, amountB |-> amountB,
   expiry |-> expiry, nonce |-> nonce, state |-> "Created",
   creatorFunded |-> FALSE, counterpartyFunded |-> FALSE]

TermsOk(creator, counterparty, assetA, amountA, assetB, amountB, expiry) ==
  /\ amountA > 0 /\ amountB > 0
  /\ assetA # assetB
  /\ creator # counterparty
  /\ expiry > now + minExpiry
  /\ HasTrustline(trust, creator, assetA)

\* storage::save_swap: the swap under the next id, and its entry in the nonce index
SaveSwap(s) ==
  /\ swaps' = Append(swaps, s)
  /\ nonceIndex' = [nonceIndex EXCEPT ![<<s.creator, s.nonce>>] = Len(swaps) + 1]

\* create_swap: a nonce the creator has used answers the stored id and changes nothing.
CreateSwap(creator, counterparty, assetA, amountA, assetB, amountB, expiry, nonce) ==
  /\ TermsOk(creator, counterparty, assetA, amountA, assetB, amountB, expiry)
  /\ \/ /\ nonceIndex[<<creator, nonce>>] # 0
        /\ UNCHANGED <<swaps, nonceIndex>>
     \/ /\ nonceIndex[<<creator, nonce>>] = 0
        /\ Len(swaps) < MaxSwaps
        /\ SaveSwap(NewSwap(creator, counterparty, assetA, amountA,
                            assetB, amountB, expiry, nonce))
  /\ UNCHANGED <<minExpiry, now, balance, trust>>

\* The side of swap i that funder covers: is_party has to hold.
FundedSide(s, funder) ==
  IF funder = s.creator THEN [s EXCEPT !.creatorFunded = TRUE]
                        ELSE [s EXCEPT !.counterpartyFunded = TRUE]

WithFundedState(s) == IF BothFunded(s) THEN [s EXCEPT !.state = "Funded"] ELSE s

\* fund_swap: either party deposits its side, at any time, the expiry included.
FundSwap(i, funder) ==
  LET s == swaps[i]
      asset == IF funder = s.creator THEN s.assetA ELSE s.assetB
      amount == IF funder = s.creator THEN s.amountA ELSE s.amountB
  IN /\ funder \in {s.creator, s.counterparty}
     /\ s.state = "Created"
     /\ ~ (IF funder = s.creator THEN s.creatorFunded ELSE s.counterpartyFunded)
     /\ TransferOk(balance, trust, asset, funder, Contract, amount)
     /\ balance' = Transfer(balance, asset, funder, Contract, amount)
     /\ swaps' = [swaps EXCEPT ![i] = WithFundedState(FundedSide(s, funder))]
     /\ UNCHANGED <<nonceIndex, minExpiry, now, trust>>

\* Mutation: the expiry itself still counts as before the expiry.
AcceptDueAtExpiry(s) == Live(s) /\ BothFunded(s) /\ now <= s.expiry

\* accept_swap up to its transfers
AcceptDue(s) == Live(s) /\ BothFunded(s) /\ now < s.expiry

\* accept_swap's payments: A to the counterparty, then B to the creator
AcceptPayable(s) ==
  LET afterA == Transfer(balance, s.assetA, Contract, s.counterparty, s.amountA)
  IN /\ TransferOk(balance, trust, s.assetA, Contract, s.counterparty, s.amountA)
     /\ TransferOk(afterA, trust, s.assetB, Contract, s.creator, s.amountB)

AcceptPaid(s) ==
  LET afterA == Transfer(balance, s.assetA, Contract, s.counterparty, s.amountA)
  IN Transfer(afterA, s.assetB, Contract, s.creator, s.amountB)

\* accept_swap
AcceptSwap(i, acceptor) ==
  LET s == swaps[i]
  IN /\ acceptor = s.counterparty
     /\ AcceptDue(s)
     /\ AcceptPayable(s)
     /\ balance' = AcceptPaid(s)
     /\ swaps' = [swaps EXCEPT ![i].state = "Accepted"]
     /\ UNCHANGED <<nonceIndex, minExpiry, now, trust>>

\* cancel_swap: only the creator, and only before anybody deposited
CancelSwap(i, caller) ==
  LET s == swaps[i]
  IN /\ caller = s.creator
     /\ s.state = "Created"
     /\ ~ AnyFunded(s)
     /\ swaps' = [swaps EXCEPT ![i].state = "Cancelled"]
     /\ UNCHANGED <<nonceIndex, minExpiry, now, balance, trust>>

\* Mutation: only a fully funded swap may be refunded.
RefundDueFunded(s) == Live(s) /\ BothFunded(s) /\ now >= s.expiry

\* refund_swap up to its transfers
RefundDue(s) == Live(s) /\ AnyFunded(s) /\ now >= s.expiry

\* Mutation: the creator's side is paid out whether funded or not.
RefundedCreatorAlways(s) ==
  Transfer(balance, s.assetA, Contract, s.creator, s.amountA)

RefundedCreator(s) ==
  IF s.creatorFunded THEN Transfer(balance, s.assetA, Contract, s.creator, s.amountA)
                     ELSE balance

\* refund_swap's payments: each side that was funded, or the call fails as a whole
RefundPayable(s) ==
  /\ s.creatorFunded => TransferOk(balance, trust, s.assetA, Contract, s.creator, s.amountA)
  /\ s.counterpartyFunded =>
       TransferOk(RefundedCreator(s), trust, s.assetB, Contract, s.counterparty, s.amountB)

\* Mutation: the counterparty's deposit goes to the creator.
RefundPaidToCreator(s) ==
  IF s.counterpartyFunded
  THEN Transfer(RefundedCreator(s), s.assetB, Contract, s.creator, s.amountB)
  ELSE RefundedCreator(s)

RefundPaid(s) ==
  IF s.counterpartyFunded
  THEN Transfer(RefundedCreator(s), s.assetB, Contract, s.counterparty, s.amountB)
  ELSE RefundedCreator(s)

\* refund_swap: the creator returns every deposit of the swap
RefundSwap(i, caller) ==
  LET s == swaps[i]
  IN /\ caller = s.creator
     /\ RefundDue(s)
     /\ RefundPayable(s)
     /\ balance' = RefundPaid(s)
     /\ swaps' = [swaps EXCEPT ![i].state = "Refunded", ![i].creatorFunded = FALSE,
                               ![i].counterpartyFunded = FALSE]
     /\ UNCHANGED <<nonceIndex, minExpiry, now, trust>>

\* set_min_expiry: any caller, at any time
SetMinExpiry(seconds) ==
  /\ minExpiry' = seconds
  /\ UNCHANGED <<swaps, nonceIndex, now, balance, trust>>
-----------------------------------------------------------------------------
(***************************************************************************)
(* The environment: ledger time, and holders opening and closing           *)
(* trustlines (a trustline closes only with a zero balance).               *)
(***************************************************************************)
Tick ==
  /\ now < MaxTime
  /\ now' = now + 1
  /\ UNCHANGED <<swaps, nonceIndex, minExpiry, balance, trust>>

OpenTrustline(holder, asset) ==
  /\ <<holder, asset>> \in MutableTrust \ trust
  /\ trust' = trust \cup {<<holder, asset>>}
  /\ UNCHANGED <<swaps, nonceIndex, minExpiry, now, balance>>

CloseTrustline(holder, asset) ==
  /\ <<holder, asset>> \in MutableTrust \cap trust
  /\ balance[asset][holder] = 0
  /\ trust' = trust \ {<<holder, asset>>}
  /\ UNCHANGED <<swaps, nonceIndex, minExpiry, now, balance>>
-----------------------------------------------------------------------------
Next ==
  \/ \E creator, counterparty \in Parties, assetA, assetB \in Assets,
        amountA, amountB \in Amounts, expiry \in Expiries, nonce \in Nonces :
       CreateSwap(creator, counterparty, assetA, amountA, assetB, amountB, expiry, nonce)
  \/ \E i \in Ids, p \in Parties : FundSwap(i, p)
  \/ \E i \in Ids, p \in Parties : AcceptSwap(i, p)
  \/ \E i \in Ids, p \in Parties : CancelSwap(i, p)
  \/ \E i \in Ids, p \in Parties : RefundSwap(i, p)
  \/ \E seconds \in MinExpiries : SetMinExpiry(seconds)
  \/ Tick
  \/ \E p \in Parties, a \in Assets : OpenTrustline(p, a)
  \/ \E p \in Parties, a \in Assets : CloseTrustline(p, a)

Spec == Init /\ [][Next]_vars

(***************************************************************************)
(* Time advances, and the creator of a swap keeps trying to refund it.     *)
(* Nothing in the contract refunds by itself: the second conjunct is an    *)
(* assumption about creators, without which no deposit need ever return.   *)
(***************************************************************************)
Refund(i) == i \in Ids /\ \E p \in Parties : RefundSwap(i, p)

Fairness == WF_vars(Tick) /\ \A i \in 1..MaxSwaps : WF_vars(Refund(i))

FairSpec == Spec /\ Fairness
-----------------------------------------------------------------------------
(***************************************************************************)
(* Properties.                                                             *)
(***************************************************************************)

\* Every variable has its type; in particular no transfer overdraws an account.
TypeOK ==
  /\ swaps \in Seq(Swap)
  /\ nonceIndex \in [Parties \X Nonces -> Nat]
  /\ minExpiry \in Nat
  /\ now \in 0..MaxTime
  /\ balance \in [Assets -> [Accounts -> Nat]]
  /\ trust \in SUBSET (Parties \X Assets)

\* The two funding flags and the state of a swap say the same thing: whoever
\* reads only one of them (cancel reads the flags, accept reads both) decides
\* as if it had read the other.
FlagsOk(s) ==
  /\ s.state = "Created" => ~ BothFunded(s)
  /\ s.state \in {"Funded", "Accepted"} => BothFunded(s)
  /\ s.state \in {"Cancelled", "Refunded"} => ~ AnyFunded(s)

FlagsMatchState == \A i \in Ids : FlagsOk(swaps[i])

\* Idempotency of create_swap: the index leads from the (creator, nonce) of every
\* swap back to that swap, so no creator has two swaps under one nonce.
NonceIndexExact ==
  /\ \A i \in Ids : nonceIndex[<<swaps[i].creator, swaps[i].nonce>>] = i
  /\ \A c \in Parties, n \in Nonces :
       nonceIndex[<<c, n>>] # 0 =>
         /\ nonceIndex[<<c, n>>] \in Ids
         /\ swaps[nonceIndex[<<c, n>>]].creator = c
         /\ swaps[nonceIndex[<<c, n>>]].nonce = n

\* What swap s holds of asset a in the contract's account
Held(s, a) ==
  IF Live(s)
  THEN (IF s.creatorFunded /\ s.assetA = a THEN s.amountA ELSE 0)
     + (IF s.counterpartyFunded /\ s.assetB = a THEN s.amountB ELSE 0)
  ELSE 0

HeldInAll(a) == Total([i \in Ids |-> Held(swaps[i], a)], Len(swaps))

\* Swaps share one account: what the contract holds of an asset is exactly what
\* its open swaps hold of it, so no swap is ever paid with another's deposit.
Solvency ==
  \A a \in Assets : balance[a][Contract] = InitBalance[a][Contract] + HeldInAll(a)

\* What swap s has added to party p's balance of asset a
Settled(s, a, p) ==
  LET gaveA == p = s.creator /\ a = s.assetA /\ s.creatorFunded
      gaveB == p = s.counterparty /\ a = s.assetB /\ s.counterpartyFunded
      gotA == p = s.counterparty /\ a = s.assetA /\ s.state = "Accepted"
      gotB == p = s.creator /\ a = s.assetB /\ s.state = "Accepted"
  IN (IF gotA THEN s.amountA ELSE 0) + (IF gotB THEN s.amountB ELSE 0)
     - (IF gaveA THEN s.amountA ELSE 0) - (IF gaveB THEN s.amountB ELSE 0)

SettledInAll(a, p) == Total([i \in Ids |-> Settled(swaps[i], a, p)], Len(swaps))

\* Every party's balance is explained by the states of its swaps: it has given
\* exactly the deposits the flags claim and received exactly the legs of its
\* accepted swaps; cancelled and refunded swaps have cost nobody anything.
PartiesReconcile ==
  \A a \in Assets, p \in Parties :
    balance[a][p] = InitBalance[a][p] + SettledInAll(a, p)

\* The depositors of a swap can be paid back.
DepositorsTrust(s) ==
  /\ s.creatorFunded => HasTrustline(trust, s.creator, s.assetA)
  /\ s.counterpartyFunded => HasTrustline(trust, s.counterparty, s.assetB)

RecipientsTrust(s) ==
  /\ HasTrustline(trust, s.counterparty, s.assetA)
  /\ HasTrustline(trust, s.creator, s.assetB)

\* From its expiry on, a swap with a deposit can be refunded whatever the other
\* swaps have done with the shared account, provided its depositors still have
\* their trustlines.
RefundAlwaysCovered ==
  \A i \in Ids :
    RefundDue(swaps[i]) /\ DepositorsTrust(swaps[i]) => RefundPayable(swaps[i])

\* At every ledger time, the expiry included, a fully funded swap has exactly one
\* exit: accept before the expiry, refund from it on.
ExactlyOneExit ==
  \A i \in Ids :
    LET s == swaps[i]
        canAccept == AcceptDue(s) /\ AcceptPayable(s)
        canRefund == RefundDue(s) /\ RefundPayable(s)
    IN Live(s) /\ BothFunded(s) /\ DepositorsTrust(s) /\ RecipientsTrust(s)
         => (canAccept <=> ~ canRefund)

\* A settled swap is never touched again, and no step changes the terms of any swap.
SettledIsFinal ==
  [][\A i \in Ids :
       /\ ~ Live(swaps[i]) => swaps'[i] = swaps[i]
       /\ swaps'[i] = [swaps[i] EXCEPT !.state = swaps'[i].state,
                                       !.creatorFunded = swaps'[i].creatorFunded,
                                       !.counterpartyFunded = swaps'[i].counterpartyFunded]
    ]_vars

(***************************************************************************)
(* The contract implements a bilateral exchange: a party owns its balance  *)
(* and its deposits, and only accept_swap changes what anybody owns, both  *)
(* legs at once.                                                           *)
(***************************************************************************)
Phase(s) == CASE Live(s) -> "open" [] s.state = "Accepted" -> "exchanged" [] OTHER -> "void"

TermsOf(s) == [creator |-> s.creator, counterparty |-> s.counterparty,
               assetA |-> s.assetA, amountA |-> s.amountA,
               assetB |-> s.assetB, amountB |-> s.amountB]

Deposit(s, a, p) ==
  IF Live(s)
  THEN (IF p = s.creator /\ a = s.assetA /\ s.creatorFunded THEN s.amountA ELSE 0)
     + (IF p = s.counterparty /\ a = s.assetB /\ s.counterpartyFunded THEN s.amountB ELSE 0)
  ELSE 0

Owned(a, p) ==
  balance[a][p] + Total([i \in Ids |-> Deposit(swaps[i], a, p)], Len(swaps))

Exchange == INSTANCE BilateralExchange WITH
  InitWealth <- [a \in Assets |-> [p \in Parties |-> InitBalance[a][p]]],
  deals <- [i \in Ids |-> [terms |-> TermsOf(swaps[i]), phase |-> Phase(swaps[i])]],
  wealth <- [a \in Assets |-> [p \in Parties |-> Owned(a, p)]]

\* Funding, refunding and cancelling move no wealth; accepting moves both legs at once.
ImplementsExchange == Exchange!Spec

(***************************************************************************)
(* Liveness, under the fairness above.                                     *)
(***************************************************************************)
HasDeposit(i) == i \in Ids /\ Live(swaps[i]) /\ AnyFunded(swaps[i])

Refundable(i) == HasDeposit(i) /\ DepositorsTrust(swaps[i])

\* A deposit stays in the contract for ever only if its depositors keep closing their
\* trustlines: otherwise it comes back, one made after the expiry included.
DepositsComeBack == \A i \in 1..MaxSwaps : []<> ~ Refundable(i)

=============================================================================
