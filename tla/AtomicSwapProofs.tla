-------------------------- MODULE AtomicSwapProofs ---------------------------
(***************************************************************************)
(* Safety of the atomic-swap contract for any number of parties, assets,   *)
(* swaps and any time horizon.                                             *)
(***************************************************************************)
EXTENDS AtomicSwap, SequenceLemmas

\* The contract is an account of its own.
LEMMA PartyAccounts == Contract \in Accounts /\ \A p \in Parties : p \in Accounts /\ p # Contract
  BY ContractAssumption DEF Accounts

\* A covered payout.
LEMMA PayoutEffect ==
  ASSUME NEW bal \in Balances, NEW x \in Assets, NEW q \in Parties, NEW m \in Nat,
         bal[x][Contract] >= m
  PROVE  /\ Transfer(bal, x, Contract, q, m) \in Balances
         /\ \A a \in Assets, h \in Accounts :
              Transfer(bal, x, Contract, q, m)[a][h] =
                IF a = x /\ h = Contract THEN bal[a][h] - m
                ELSE IF a = x /\ h = q THEN bal[a][h] + m
                ELSE bal[a][h]
<1>1. Contract \in Accounts /\ q \in Accounts /\ Contract # q
  BY PartyAccounts
<1> QED BY <1>1, MovedAmount DEF Transfer, Balances

\* A covered deposit.
LEMMA DepositEffect ==
  ASSUME NEW bal \in Balances, NEW x \in Assets, NEW q \in Parties, NEW m \in Nat,
         bal[x][q] >= m
  PROVE  /\ Transfer(bal, x, q, Contract, m) \in Balances
         /\ \A a \in Assets, h \in Accounts :
              Transfer(bal, x, q, Contract, m)[a][h] =
                IF a = x /\ h = q THEN bal[a][h] - m
                ELSE IF a = x /\ h = Contract THEN bal[a][h] + m
                ELSE bal[a][h]
<1>1. q \in Accounts /\ Contract \in Accounts /\ q # Contract
  BY PartyAccounts
<1> QED BY <1>1, MovedAmount DEF Transfer, Balances

\* What create_swap validated stays true of every stored swap.
TermsValid ==
  \A i \in Ids : LET s == swaps[i] IN
    /\ s.amountA > 0 /\ s.amountB > 0
    /\ s.assetA # s.assetB
    /\ s.creator # s.counterparty

-----------------------------------------------------------------------------
(***************************************************************************)
(* Every call on a stored swap has the same shape: it replaces one record, *)
(* keeps its terms, and moves exactly the tokens by which what the record  *)
(* says each account has (Credit) changes.                                 *)
(***************************************************************************)
Credit(s, a, h) == IF h = Contract THEN Held(s, a) ELSE Settled(s, a, h)

SwapUpdate(i, s2) ==
  /\ i \in Ids
  /\ s2 \in Swap
  /\ swaps' = [swaps EXCEPT ![i] = s2]
  /\ TermsOf(s2) = TermsOf(swaps[i]) /\ s2.nonce = swaps[i].nonce
  /\ FlagsOk(s2)
  /\ balance' \in Balances
  /\ \A a \in Assets, h \in Accounts :
       balance'[a][h] = balance[a][h] + Credit(s2, a, h) - Credit(swaps[i], a, h)
  /\ UNCHANGED <<nonceIndex, minExpiry, now, trust>>

Inv == TypeOK /\ TermsValid /\ FlagsMatchState

\* What the invariant says of one stored swap.
ValidSwap(s) ==
  /\ s \in Swap /\ FlagsOk(s)
  /\ s.amountA \in Nat /\ s.amountB \in Nat /\ s.amountA > 0 /\ s.amountB > 0
  /\ s.assetA \in Assets /\ s.assetB \in Assets /\ s.assetA # s.assetB
  /\ s.creator \in Parties /\ s.counterparty \in Parties /\ s.creator # s.counterparty

LEMMA StoredSwap ==
  ASSUME Inv, NEW i \in Ids
  PROVE  ValidSwap(swaps[i])
<1> DEFINE s == swaps[i]
<1>1. s \in Swap
  BY DEF Inv, TypeOK, Ids
<1>2. /\ FlagsOk(s) /\ s.amountA > 0 /\ s.amountB > 0
      /\ s.assetA # s.assetB /\ s.creator # s.counterparty
  BY DEF Inv, TermsValid, FlagsMatchState
<1> HIDE DEF s
<1>3. /\ s.amountA \in Amounts /\ s.amountB \in Amounts
      /\ s.assetA \in Assets /\ s.assetB \in Assets
      /\ s.creator \in Parties /\ s.counterparty \in Parties
  BY <1>1 DEF Swap
<1>4. s.amountA \in Nat /\ s.amountB \in Nat
  <2>1. \A x \in Amounts : x > 0 => x \in Nat
    BY AmountsAssumption
  <2> QED BY <1>2, <1>3, <2>1
<1> QED BY <1>1, <1>2, <1>3, <1>4 DEF ValidSwap, s

LEMMA FundEffect ==
  ASSUME Inv, NEW i \in Ids, NEW p \in Parties, FundSwap(i, p)
  PROVE  SwapUpdate(i, WithFundedState(FundedSide(swaps[i], p)))
<1> DEFINE s == swaps[i]
           s2 == WithFundedState(FundedSide(s, p))
           asset == IF p = s.creator THEN s.assetA ELSE s.assetB
           amount == IF p = s.creator THEN s.amountA ELSE s.amountB
<1>1. /\ p \in {s.creator, s.counterparty} /\ s.state = "Created"
      /\ p = s.creator => ~ s.creatorFunded
      /\ p # s.creator => ~ s.counterpartyFunded
      /\ TransferOk(balance, trust, asset, p, Contract, amount)
      /\ balance' = Transfer(balance, asset, p, Contract, amount)
      /\ swaps' = [swaps EXCEPT ![i] = s2]
      /\ UNCHANGED <<nonceIndex, minExpiry, now, trust>>
  BY DEF FundSwap
<1>2. ValidSwap(s)
  BY StoredSwap
<1>3. asset \in Assets /\ amount \in Nat /\ balance \in Balances
  BY <1>2 DEF ValidSwap, Inv, TypeOK, Balances
<1> HIDE DEF s, asset, amount
<1>4. /\ s2 \in Swap /\ FlagsOk(s2)
      /\ s2.creator = s.creator /\ s2.counterparty = s.counterparty
      /\ s2.assetA = s.assetA /\ s2.assetB = s.assetB
      /\ s2.amountA = s.amountA /\ s2.amountB = s.amountB /\ s2.nonce = s.nonce
      /\ Live(s) /\ Live(s2)
      /\ s2.creatorFunded <=> (s.creatorFunded \/ p = s.creator)
      /\ s2.counterpartyFunded <=> (s.counterpartyFunded \/ p # s.creator)
  BY <1>1, <1>2 DEF ValidSwap, Swap, SwapState, WithFundedState, FundedSide, FlagsOk,
                    BothFunded, AnyFunded, Live
<1> HIDE DEF s2
<1>5. /\ balance' \in Balances
      /\ \A a \in Assets, h \in Accounts :
           balance'[a][h] = IF a = asset /\ h = p THEN balance[a][h] - amount
                            ELSE IF a = asset /\ h = Contract THEN balance[a][h] + amount
                            ELSE balance[a][h]
  <2>3. TransferOk(balance, trust, asset, p, Contract, amount)
    BY <1>1
  <2>4. /\ Transfer(balance, asset, p, Contract, amount) \in Balances
        /\ \A a \in Assets, h \in Accounts :
             Transfer(balance, asset, p, Contract, amount)[a][h] =
               IF a = asset /\ h = p THEN balance[a][h] - amount
               ELSE IF a = asset /\ h = Contract THEN balance[a][h] + amount
               ELSE balance[a][h]
    BY <1>3, <2>3, DepositEffect DEF TransferOk
  <2> QED BY <1>1, <2>4
<1>6. ASSUME NEW a \in Assets, NEW h \in Accounts
      PROVE  balance'[a][h] = balance[a][h] + Credit(s2, a, h) - Credit(s, a, h)
  <2>1. balance[a][h] \in Nat
    BY <1>3 DEF Balances
  <2>2. CASE p = s.creator
    <3>1. asset = s.assetA /\ amount = s.amountA
      BY <2>2 DEF asset, amount
    <3>2. Held(s2, a) = Held(s, a) + IF a = s.assetA THEN s.amountA ELSE 0
      BY <1>1, <1>2, <1>4, <2>2 DEF Held, ValidSwap
    <3>3. Settled(s2, a, h) = Settled(s, a, h) - IF a = s.assetA /\ h = p THEN s.amountA ELSE 0
      BY <1>1, <1>2, <1>4, <2>2 DEF Settled, ValidSwap, Live
    <3>4. Held(s, a) \in Int /\ Settled(s, a, h) \in Int
      BY <1>2 DEF Held, Settled, ValidSwap
    <3> QED BY <1>3, <1>5, <2>1, <3>1, <3>2, <3>3, <3>4, PartyAccounts DEF Credit
  <2>3. CASE p # s.creator
    <3>1. asset = s.assetB /\ amount = s.amountB /\ p = s.counterparty
      BY <2>3, <1>1 DEF asset, amount
    <3>2. Held(s2, a) = Held(s, a) + IF a = s.assetB THEN s.amountB ELSE 0
      BY <1>1, <1>2, <1>4, <2>3 DEF Held, ValidSwap
    <3>3. Settled(s2, a, h) = Settled(s, a, h) - IF a = s.assetB /\ h = p THEN s.amountB ELSE 0
      BY <1>1, <1>2, <1>4, <2>3 DEF Settled, ValidSwap, Live
    <3>4. Held(s, a) \in Int /\ Settled(s, a, h) \in Int
      BY <1>2 DEF Held, Settled, ValidSwap
    <3> QED BY <1>3, <1>5, <2>1, <3>1, <3>2, <3>3, <3>4, PartyAccounts DEF Credit
  <2> QED BY <2>2, <2>3
<1>7. SwapUpdate(i, s2)
  <2> USE DEF s
  <2>1. TermsOf(s2) = TermsOf(swaps[i])
    BY <1>4 DEF TermsOf
  <2> QED BY <1>1, <1>4, <1>5, <1>6, <2>1 DEF SwapUpdate
<1> QED BY <1>7 DEF s2, s

LEMMA AcceptEffect ==
  ASSUME Inv, NEW i \in Ids, NEW p \in Parties, AcceptSwap(i, p)
  PROVE  SwapUpdate(i, [swaps[i] EXCEPT !.state = "Accepted"])
<1> DEFINE s == swaps[i]
           s2 == [s EXCEPT !.state = "Accepted"]
           afterA == Transfer(balance, s.assetA, Contract, s.counterparty, s.amountA)
           afterB == Transfer(afterA, s.assetB, Contract, s.creator, s.amountB)
<1>1. /\ Live(s) /\ s.creatorFunded /\ s.counterpartyFunded
      /\ TransferOk(balance, trust, s.assetA, Contract, s.counterparty, s.amountA)
      /\ TransferOk(afterA, trust, s.assetB, Contract, s.creator, s.amountB)
      /\ balance' = afterB
      /\ UNCHANGED <<nonceIndex, minExpiry, now, trust>>
  BY DEF AcceptSwap, AcceptDue, AcceptPayable, AcceptPaid, BothFunded
<1>2. ValidSwap(s) /\ balance \in Balances
  BY StoredSwap DEF Inv, TypeOK, Balances
<1>3. swaps' = [swaps EXCEPT ![i] = s2]
  BY DEF AcceptSwap
<1> HIDE DEF s
<1>4. /\ s2 \in Swap /\ FlagsOk(s2)
      /\ s2.creator = s.creator /\ s2.counterparty = s.counterparty
      /\ s2.assetA = s.assetA /\ s2.assetB = s.assetB
      /\ s2.amountA = s.amountA /\ s2.amountB = s.amountB /\ s2.nonce = s.nonce
      /\ s2.state = "Accepted" /\ ~ Live(s2) /\ s.state # "Accepted"
      /\ s2.creatorFunded /\ s2.counterpartyFunded
  BY <1>1, <1>2 DEF ValidSwap, Swap, SwapState, FlagsOk, BothFunded, AnyFunded, Live
<1> HIDE DEF s2, afterA, afterB
<1>5. /\ afterA \in Balances
      /\ \A a \in Assets, h \in Accounts :
           afterA[a][h] = IF a = s.assetA /\ h = Contract THEN balance[a][h] - s.amountA
                          ELSE IF a = s.assetA /\ h = s.counterparty
                               THEN balance[a][h] + s.amountA
                          ELSE balance[a][h]
  BY <1>1, <1>2, PayoutEffect DEF TransferOk, afterA, ValidSwap
<1>6. /\ afterB \in Balances
      /\ \A a \in Assets, h \in Accounts :
           afterB[a][h] = IF a = s.assetB /\ h = Contract THEN afterA[a][h] - s.amountB
                          ELSE IF a = s.assetB /\ h = s.creator THEN afterA[a][h] + s.amountB
                          ELSE afterA[a][h]
  BY <1>1, <1>2, <1>5, PayoutEffect DEF TransferOk, afterB, ValidSwap
<1>7. ASSUME NEW a \in Assets, NEW h \in Accounts
      PROVE  balance'[a][h] = balance[a][h] + Credit(s2, a, h) - Credit(s, a, h)
  <2>1. balance[a][h] \in Nat
    BY <1>2 DEF Balances
  <2>2. /\ Held(s2, a) = 0
        /\ Held(s, a) = (IF a = s.assetA THEN s.amountA ELSE 0)
                      + (IF a = s.assetB THEN s.amountB ELSE 0)
    BY <1>1, <1>4 DEF Held
  <2>3. Settled(s2, a, h) = Settled(s, a, h)
          + (IF a = s.assetA /\ h = s.counterparty THEN s.amountA ELSE 0)
          + (IF a = s.assetB /\ h = s.creator THEN s.amountB ELSE 0)
    BY <1>1, <1>2, <1>4 DEF Settled, ValidSwap
  <2>4. Settled(s, a, h) \in Int
    BY <1>2 DEF Settled, ValidSwap
  <2>5. s.creator # Contract /\ s.counterparty # Contract /\ s.assetA # s.assetB
    BY <1>2, PartyAccounts DEF ValidSwap
  <2>6. s.amountA \in Nat /\ s.amountB \in Nat
    BY <1>2 DEF ValidSwap
  <2> QED BY <1>1, <1>5, <1>6, <2>1, <2>2, <2>3, <2>4, <2>5, <2>6 DEF Credit
<1>8. SwapUpdate(i, s2)
  <2> USE DEF s
  <2>1. TermsOf(s2) = TermsOf(swaps[i])
    BY <1>4 DEF TermsOf
  <2> QED BY <1>1, <1>3, <1>4, <1>6, <1>7, <2>1 DEF SwapUpdate
<1> QED BY <1>8 DEF s2, s

LEMMA CancelEffect ==
  ASSUME Inv, NEW i \in Ids, NEW p \in Parties, CancelSwap(i, p)
  PROVE  SwapUpdate(i, [swaps[i] EXCEPT !.state = "Cancelled"])
<1> DEFINE s == swaps[i]
           s2 == [s EXCEPT !.state = "Cancelled"]
<1>1. /\ s.state = "Created" /\ ~ AnyFunded(s)
      /\ swaps' = [swaps EXCEPT ![i] = s2]
      /\ UNCHANGED <<nonceIndex, minExpiry, now, balance, trust>>
  BY DEF CancelSwap
<1>2. ValidSwap(s) /\ balance \in Balances
  BY StoredSwap DEF Inv, TypeOK, Balances
<1> HIDE DEF s
<1>3. /\ s2 \in Swap /\ FlagsOk(s2)
      /\ s2.creator = s.creator /\ s2.counterparty = s.counterparty
      /\ s2.assetA = s.assetA /\ s2.assetB = s.assetB
      /\ s2.amountA = s.amountA /\ s2.amountB = s.amountB /\ s2.nonce = s.nonce
      /\ s2.state = "Cancelled"
      /\ ~ s2.creatorFunded /\ ~ s2.counterpartyFunded
      /\ ~ s.creatorFunded /\ ~ s.counterpartyFunded
  BY <1>1, <1>2 DEF ValidSwap, Swap, SwapState, FlagsOk, BothFunded, AnyFunded
<1> HIDE DEF s2
<1>4. ASSUME NEW a \in Assets, NEW h \in Accounts
      PROVE  balance'[a][h] = balance[a][h] + Credit(s2, a, h) - Credit(s, a, h)
  <2>1. balance[a][h] \in Nat
    BY <1>2 DEF Balances
  <2>2. Held(s, a) = 0 /\ Held(s2, a) = 0
    BY <1>3 DEF Held
  <2>3. Settled(s, a, h) = 0 /\ Settled(s2, a, h) = 0
    BY <1>1, <1>3 DEF Settled
  <2> QED BY <1>1, <2>1, <2>2, <2>3 DEF Credit
<1>5. SwapUpdate(i, s2)
  <2> USE DEF s
  <2>1. TermsOf(s2) = TermsOf(swaps[i])
    BY <1>3 DEF TermsOf
  <2> QED BY <1>1, <1>2, <1>3, <1>4, <2>1 DEF SwapUpdate
<1> QED BY <1>5 DEF s2, s

LEMMA RefundEffect ==
  ASSUME Inv, NEW i \in Ids, NEW p \in Parties, RefundSwap(i, p)
  PROVE  SwapUpdate(i, [swaps[i] EXCEPT !.state = "Refunded", !.creatorFunded = FALSE,
                                        !.counterpartyFunded = FALSE])
<1> DEFINE s == swaps[i]
           s2 == [s EXCEPT !.state = "Refunded", !.creatorFunded = FALSE,
                           !.counterpartyFunded = FALSE]
           backA == IF s.creatorFunded THEN s.amountA ELSE 0
           backB == IF s.counterpartyFunded THEN s.amountB ELSE 0
           afterA == RefundedCreator(s)
<1>1. /\ Live(s) /\ RefundPayable(s) /\ balance' = RefundPaid(s)
      /\ UNCHANGED <<nonceIndex, minExpiry, now, trust>>
  BY DEF RefundSwap, RefundDue
<1>2. ValidSwap(s) /\ balance \in Balances
  BY StoredSwap DEF Inv, TypeOK, Balances
<1>3. swaps' = [swaps EXCEPT ![i] = s2]
  <2>1. swaps \in Seq(Swap) /\ i \in 1..Len(swaps)
    BY DEF Inv, TypeOK, Ids
  <2> QED BY <2>1 DEF RefundSwap
<1> HIDE DEF s
<1>4. /\ s2 \in Swap /\ FlagsOk(s2)
      /\ s2.creator = s.creator /\ s2.counterparty = s.counterparty
      /\ s2.assetA = s.assetA /\ s2.assetB = s.assetB
      /\ s2.amountA = s.amountA /\ s2.amountB = s.amountB /\ s2.nonce = s.nonce
      /\ s2.state = "Refunded" /\ ~ Live(s2) /\ s.state # "Accepted"
      /\ ~ s2.creatorFunded /\ ~ s2.counterpartyFunded
  BY <1>1, <1>2 DEF ValidSwap, Swap, SwapState, FlagsOk, BothFunded, AnyFunded, Live
<1> HIDE DEF s2, afterA
<1>5. /\ afterA \in Balances
      /\ \A a \in Assets, h \in Accounts :
           afterA[a][h] = IF a = s.assetA /\ h = Contract THEN balance[a][h] - backA
                          ELSE IF a = s.assetA /\ h = s.creator THEN balance[a][h] + backA
                          ELSE balance[a][h]
  <2>1. CASE s.creatorFunded
    <3>1. TransferOk(balance, trust, s.assetA, Contract, s.creator, s.amountA)
      BY <1>1, <2>1 DEF RefundPayable
    <3>2. afterA = Transfer(balance, s.assetA, Contract, s.creator, s.amountA)
      BY <2>1 DEF afterA, RefundedCreator
    <3> QED BY <1>2, <2>1, <3>1, <3>2, PayoutEffect DEF TransferOk, ValidSwap
  <2>2. CASE ~ s.creatorFunded
    <3>1. afterA = balance
      BY <2>2 DEF afterA, RefundedCreator
    <3>2. \A a \in Assets, h \in Accounts : balance[a][h] \in Nat
      BY <1>2 DEF Balances
    <3> QED BY <1>2, <2>2, <3>1, <3>2
  <2> QED BY <2>1, <2>2
<1>6. /\ balance' \in Balances
      /\ \A a \in Assets, h \in Accounts :
           balance'[a][h] = IF a = s.assetB /\ h = Contract THEN afterA[a][h] - backB
                            ELSE IF a = s.assetB /\ h = s.counterparty THEN afterA[a][h] + backB
                            ELSE afterA[a][h]
  <2>1. CASE s.counterpartyFunded
    <3>1. TransferOk(afterA, trust, s.assetB, Contract, s.counterparty, s.amountB)
      BY <1>1, <2>1 DEF RefundPayable, afterA
    <3>2. balance' = Transfer(afterA, s.assetB, Contract, s.counterparty, s.amountB)
      BY <1>1, <2>1 DEF afterA, RefundPaid
    <3> QED BY <1>2, <1>5, <2>1, <3>1, <3>2, PayoutEffect DEF TransferOk, ValidSwap
  <2>2. CASE ~ s.counterpartyFunded
    <3>1. balance' = afterA
      BY <1>1, <2>2 DEF afterA, RefundPaid
    <3>2. \A a \in Assets, h \in Accounts : afterA[a][h] \in Nat
      BY <1>5 DEF Balances
    <3> QED BY <1>5, <2>2, <3>1, <3>2
  <2> QED BY <2>1, <2>2
<1>7. ASSUME NEW a \in Assets, NEW h \in Accounts
      PROVE  balance'[a][h] = balance[a][h] + Credit(s2, a, h) - Credit(s, a, h)
  <2>1. balance[a][h] \in Nat /\ backA \in Nat /\ backB \in Nat
    BY <1>2 DEF Balances, ValidSwap
  <2>2. /\ Held(s2, a) = 0
        /\ Held(s, a) = (IF a = s.assetA THEN backA ELSE 0) + (IF a = s.assetB THEN backB ELSE 0)
    BY <1>1, <1>4 DEF Held
  <2>3. /\ Settled(s2, a, h) = 0
        /\ Settled(s, a, h) = 0 - (IF a = s.assetA /\ h = s.creator THEN backA ELSE 0)
                                - (IF a = s.assetB /\ h = s.counterparty THEN backB ELSE 0)
    BY <1>1, <1>2, <1>4 DEF Settled, ValidSwap
  <2>4. s.creator # Contract /\ s.counterparty # Contract /\ s.assetA # s.assetB
    BY <1>2, PartyAccounts DEF ValidSwap
  <2> HIDE DEF backA, backB
  <2> QED BY <1>5, <1>6, <2>1, <2>2, <2>3, <2>4 DEF Credit
<1>8. SwapUpdate(i, s2)
  <2> USE DEF s
  <2>1. TermsOf(s2) = TermsOf(swaps[i])
    BY <1>4 DEF TermsOf
  <2> QED BY <1>1, <1>3, <1>4, <1>6, <1>7, <2>1 DEF SwapUpdate
<1> QED BY <1>8 DEF s2, s
-----------------------------------------------------------------------------
(***************************************************************************)
(* The sums.                                                               *)
(***************************************************************************)
LEMMA CreditsAreIntegers ==
  ASSUME Inv, NEW i \in Ids, NEW a \in Assets
  PROVE  /\ Held(swaps[i], a) \in Nat
         /\ \A p \in Parties : Settled(swaps[i], a, p) \in Int
<1> DEFINE s == swaps[i]
<1>1. ValidSwap(s)
  BY StoredSwap
<1> HIDE DEF s
<1>2. Held(s, a) \in Nat
  BY <1>1 DEF Held, ValidSwap
<1>3. \A p \in Parties : Settled(s, a, p) \in Int
  BY <1>1 DEF Settled, ValidSwap
<1> QED BY <1>2, <1>3 DEF s

\* A record that replaces another moves a sum over all swaps by the difference.
LEMMA SumAfterUpdate ==
  ASSUME Inv, NEW i, NEW s2, SwapUpdate(i, s2), NEW a \in Assets
  PROVE  /\ HeldInAll(a)' = HeldInAll(a) + Held(s2, a) - Held(swaps[i], a)
         /\ \A p \in Parties :
              SettledInAll(a, p)' = SettledInAll(a, p) + Settled(s2, a, p)
                                      - Settled(swaps[i], a, p)
<1> DEFINE n == Len(swaps)
<1>1. /\ n \in Nat /\ i \in 1..n /\ Len(swaps') = n
      /\ \A k \in 1..n : swaps'[k] = IF k = i THEN s2 ELSE swaps[k]
  BY DEF Inv, TypeOK, SwapUpdate, Ids
<1>2. /\ \A k \in 1..n : Held(swaps[k], a) \in Int
      /\ \A k \in 1..n : \A p \in Parties : Settled(swaps[k], a, p) \in Int
  BY CreditsAreIntegers DEF Ids
<1>3. s2 \in Swap /\ s2.amountA \in Int /\ s2.amountB \in Int
  BY AmountsAssumption DEF SwapUpdate, Swap
<1>4. Held(s2, a) \in Int /\ \A p \in Parties : Settled(s2, a, p) \in Int
  BY <1>3 DEF Held, Settled
<1> HIDE DEF n
<1>5. HeldInAll(a)' = HeldInAll(a) + Held(s2, a) - Held(swaps[i], a)
  <2> DEFINE f == [k \in 1..n |-> Held(swaps[k], a)]
             g == [k \in 1..n |-> Held(swaps'[k], a)]
  <2>1. \A k \in 1..n : f[k] \in Int
    BY <1>2
  <2>2. \A k \in 1..n : k # i => g[k] = f[k]
    BY <1>1
  <2>3. g[i] = Held(s2, a) /\ f[i] = Held(swaps[i], a)
    BY <1>1
  <2>4. HeldInAll(a) = Total(f, n) /\ HeldInAll(a)' = Total(g, n)
    BY <1>1 DEF HeldInAll, Ids, n
  <2> HIDE DEF f, g
  <2>5. Total(g, n) = Total(f, n) + g[i] - f[i]
    BY <1>1, <1>4, <2>1, <2>2, <2>3, TotalUpdate
  <2> QED BY <2>3, <2>4, <2>5
<1>6. ASSUME NEW p \in Parties
      PROVE  SettledInAll(a, p)' = SettledInAll(a, p) + Settled(s2, a, p)
                                     - Settled(swaps[i], a, p)
  <2> DEFINE f == [k \in 1..n |-> Settled(swaps[k], a, p)]
             g == [k \in 1..n |-> Settled(swaps'[k], a, p)]
  <2>1. \A k \in 1..n : f[k] \in Int
    BY <1>2
  <2>2. \A k \in 1..n : k # i => g[k] = f[k]
    BY <1>1
  <2>3. g[i] = Settled(s2, a, p) /\ f[i] = Settled(swaps[i], a, p)
    BY <1>1
  <2>4. SettledInAll(a, p) = Total(f, n) /\ SettledInAll(a, p)' = Total(g, n)
    BY <1>1 DEF SettledInAll, Ids, n
  <2> HIDE DEF f, g
  <2>5. Total(g, n) = Total(f, n) + g[i] - f[i]
    BY <1>1, <1>4, <2>1, <2>2, <2>3, TotalUpdate
  <2> QED BY <2>3, <2>4, <2>5
<1> QED BY <1>5, <1>6

\* A new swap, which nobody has funded, leaves every sum as it was.
LEMMA SumAfterCreate ==
  ASSUME Inv, NEW s \in Swap, swaps' = Append(swaps, s), s.state = "Created",
         ~ s.creatorFunded, ~ s.counterpartyFunded, NEW a \in Assets
  PROVE  /\ HeldInAll(a)' = HeldInAll(a)
         /\ \A p \in Parties : SettledInAll(a, p)' = SettledInAll(a, p)
<1> DEFINE n == Len(swaps)
<1>1. /\ n \in Nat /\ Len(swaps') = n + 1
      /\ \A k \in 1..n : swaps'[k] = swaps[k]
      /\ swaps'[n + 1] = s
  BY DEF Inv, TypeOK
<1>2. /\ \A k \in 1..n : Held(swaps[k], a) \in Int
      /\ \A k \in 1..n : \A p \in Parties : Settled(swaps[k], a, p) \in Int
  BY CreditsAreIntegers DEF Ids
<1>3. Held(s, a) = 0 /\ \A p \in Parties : Settled(s, a, p) = 0
  BY DEF Held, Settled
<1> HIDE DEF n
<1>4. HeldInAll(a)' = HeldInAll(a)
  <2> DEFINE f == [k \in 1..n |-> Held(swaps[k], a)]
             g == [k \in 1..(n + 1) |-> Held(swaps'[k], a)]
  <2>1. \A k \in 1..n : f[k] \in Int /\ g[k] = f[k]
    BY <1>1, <1>2
  <2>2. g[n + 1] = 0
    BY <1>1, <1>3
  <2>3. HeldInAll(a) = Total(f, n) /\ HeldInAll(a)' = Total(g, n + 1)
    BY <1>1 DEF HeldInAll, Ids, n
  <2> HIDE DEF f, g
  <2>4. Total(g, n) = Total(f, n)
    BY <1>1, <2>1, TotalSame
  <2>5. Total(f, n) \in Int
    BY <1>1, <2>1, TotalInt
  <2>6. \A k \in 1..(n + 1) : g[k] \in Int
    BY <1>1, <2>1, <2>2
  <2>7. Total(g, n + 1) = Total(g, n) + g[n + 1]
    BY <1>1, <2>6, TotalStep
  <2> QED BY <2>2, <2>3, <2>4, <2>5, <2>7
<1>5. ASSUME NEW p \in Parties PROVE SettledInAll(a, p)' = SettledInAll(a, p)
  <2> DEFINE f == [k \in 1..n |-> Settled(swaps[k], a, p)]
             g == [k \in 1..(n + 1) |-> Settled(swaps'[k], a, p)]
  <2>1. \A k \in 1..n : f[k] \in Int /\ g[k] = f[k]
    BY <1>1, <1>2
  <2>2. g[n + 1] = 0
    BY <1>1, <1>3
  <2>3. SettledInAll(a, p) = Total(f, n) /\ SettledInAll(a, p)' = Total(g, n + 1)
    BY <1>1 DEF SettledInAll, Ids, n
  <2> HIDE DEF f, g
  <2>4. Total(g, n) = Total(f, n)
    BY <1>1, <2>1, TotalSame
  <2>5. Total(f, n) \in Int
    BY <1>1, <2>1, TotalInt
  <2>6. \A k \in 1..(n + 1) : g[k] \in Int
    BY <1>1, <2>1, <2>2
  <2>7. Total(g, n + 1) = Total(g, n) + g[n + 1]
    BY <1>1, <2>6, TotalStep
  <2> QED BY <2>2, <2>3, <2>4, <2>5, <2>7
<1> QED BY <1>4, <1>5
-----------------------------------------------------------------------------
(***************************************************************************)
(* The inductive invariant.  Solvency is not inductive by itself: a refund *)
(* pays by the flags, so the flags have to agree with the state, and the   *)
(* two legs of a swap must be different assets of different parties.       *)
(***************************************************************************)
IInv == Inv /\ NonceIndexExact /\ Solvency /\ PartiesReconcile

LEMMA IInvInit == Init => IInv
<1> SUFFICES ASSUME Init PROVE IInv
  OBVIOUS
<1> USE InitBalanceAssumption, InitTrustAssumption
<1>1. Inv
  BY TimesAssumption, BoundsAssumption
  DEF Init, Inv, TypeOK, TermsValid, FlagsMatchState, Ids
<1>2. NonceIndexExact
  BY DEF Init, NonceIndexExact, Ids
<1>3. Len(swaps) = 0 /\ balance = InitBalance
  BY DEF Init
<1>4. Solvency
  <2>1. \A a \in Assets : HeldInAll(a) = 0
    BY <1>3, TotalEmpty DEF HeldInAll
  <2>2. \A a \in Assets : InitBalance[a][Contract] \in Nat
    BY PartyAccounts
  <2> QED BY <1>3, <2>1, <2>2 DEF Solvency
<1>5. PartiesReconcile
  <2> SUFFICES ASSUME NEW a \in Assets, NEW p \in Parties
               PROVE  balance[a][p] = InitBalance[a][p] + SettledInAll(a, p)
    BY DEF PartiesReconcile
  <2>1. SettledInAll(a, p) = 0
    BY <1>3, TotalEmpty DEF SettledInAll
  <2>2. InitBalance[a][p] \in Nat
    BY PartyAccounts
  <2> QED BY <1>3, <2>1, <2>2
<1> QED BY <1>1, <1>2, <1>4, <1>5 DEF IInv

\* One record replaced (fund, accept, cancel, refund) keeps the invariant.
LEMMA IInvUpdate ==
  ASSUME IInv, NEW i, NEW s2, SwapUpdate(i, s2)
  PROVE  IInv'
<1>1. Inv /\ NonceIndexExact /\ Solvency /\ PartiesReconcile
  BY DEF IInv
<1>2. /\ i \in Ids /\ Len(swaps') = Len(swaps) /\ Ids' = Ids
      /\ \A j \in Ids : swaps'[j] = IF j = i THEN s2 ELSE swaps[j]
  BY <1>1 DEF Inv, TypeOK, SwapUpdate, Ids
<1>3. /\ s2 \in Swap /\ FlagsOk(s2) /\ s2.nonce = swaps[i].nonce
      /\ s2.creator = swaps[i].creator /\ s2.counterparty = swaps[i].counterparty
      /\ s2.assetA = swaps[i].assetA /\ s2.assetB = swaps[i].assetB
      /\ s2.amountA = swaps[i].amountA /\ s2.amountB = swaps[i].amountB
  BY DEF SwapUpdate, TermsOf
<1>4. TypeOK'
  BY <1>1, <1>2, <1>3 DEF Inv, TypeOK, SwapUpdate, Balances, Ids
<1>5. TermsValid'
  BY <1>1, <1>2, <1>3 DEF Inv, TermsValid
<1>6. FlagsMatchState'
  BY <1>1, <1>2, <1>3 DEF Inv, FlagsMatchState
<1>7. NonceIndexExact'
  <2>1. nonceIndex' = nonceIndex
    BY DEF SwapUpdate
  <2>2. \A j \in Ids : /\ swaps'[j].creator = swaps[j].creator
                       /\ swaps'[j].nonce = swaps[j].nonce
    BY <1>2, <1>3
  <2> QED BY <1>1, <1>2, <2>1, <2>2 DEF NonceIndexExact
<1>8. \A a \in Assets, h \in Accounts :
        balance'[a][h] = balance[a][h] + Credit(s2, a, h) - Credit(swaps[i], a, h)
  BY DEF SwapUpdate
<1>9. \A k \in {s2, swaps[i]}, a \in Assets, h \in Accounts :
        Held(k, a) \in Int /\ Settled(k, a, h) \in Int
  <2>1. swaps[i] \in Swap
    BY <1>1, <1>2 DEF Inv, TypeOK, Ids
  <2>2. \A k \in Swap : k.amountA \in Int /\ k.amountB \in Int
    BY AmountsAssumption DEF Swap
  <2> SUFFICES ASSUME NEW k \in Swap, NEW a \in Assets, NEW h \in Accounts
               PROVE  Held(k, a) \in Int /\ Settled(k, a, h) \in Int
    BY <1>3, <2>1
  <2> QED BY <2>2 DEF Held, Settled
<1>10. \A a \in Assets : HeldInAll(a) \in Int /\ InitBalance[a][Contract] \in Int
  <2>1. Len(swaps) \in Nat
    BY <1>1 DEF Inv, TypeOK
  <2>2. \A a \in Assets : HeldInAll(a) \in Int
    BY <1>1, <2>1, CreditsAreIntegers, TotalInt DEF HeldInAll, Ids
  <2> QED BY <2>2, InitBalanceAssumption, PartyAccounts
<1>11. \A a \in Assets, p \in Parties : SettledInAll(a, p) \in Int /\ InitBalance[a][p] \in Int
  <2>1. Len(swaps) \in Nat
    BY <1>1 DEF Inv, TypeOK
  <2>2. \A a \in Assets, p \in Parties : SettledInAll(a, p) \in Int
    BY <1>1, <2>1, CreditsAreIntegers, TotalInt DEF SettledInAll, Ids
  <2>3. \A a \in Assets, h \in Accounts : InitBalance[a][h] \in Int
    BY InitBalanceAssumption
  <2> QED BY <2>2, <2>3, PartyAccounts
<1>12. Solvency'
  <2> SUFFICES ASSUME NEW a \in Assets
               PROVE  balance'[a][Contract] = InitBalance[a][Contract] + HeldInAll(a)'
    BY DEF Solvency
  <2>1. balance'[a][Contract] = balance[a][Contract] + Held(s2, a) - Held(swaps[i], a)
    BY <1>8, PartyAccounts DEF Credit
  <2>2. HeldInAll(a)' = HeldInAll(a) + Held(s2, a) - Held(swaps[i], a)
    BY <1>1, SumAfterUpdate
  <2>3. balance[a][Contract] = InitBalance[a][Contract] + HeldInAll(a)
    BY <1>1 DEF Solvency
  <2>4. Held(s2, a) \in Int /\ Held(swaps[i], a) \in Int
    BY <1>9, PartyAccounts
  <2> QED BY <1>10, <2>1, <2>2, <2>3, <2>4
<1>13. PartiesReconcile'
  <2> SUFFICES ASSUME NEW a \in Assets, NEW p \in Parties
               PROVE  balance'[a][p] = InitBalance[a][p] + SettledInAll(a, p)'
    BY DEF PartiesReconcile
  <2>1. balance'[a][p] = balance[a][p] + Settled(s2, a, p) - Settled(swaps[i], a, p)
    BY <1>8, PartyAccounts DEF Credit
  <2>2. SettledInAll(a, p)' = SettledInAll(a, p) + Settled(s2, a, p) - Settled(swaps[i], a, p)
    BY <1>1, SumAfterUpdate
  <2>3. balance[a][p] = InitBalance[a][p] + SettledInAll(a, p)
    BY <1>1 DEF PartiesReconcile
  <2>4. Settled(s2, a, p) \in Int /\ Settled(swaps[i], a, p) \in Int
    BY <1>9, PartyAccounts
  <2> QED BY <1>11, <2>1, <2>2, <2>3, <2>4
<1> QED BY <1>4, <1>5, <1>6, <1>7, <1>12, <1>13 DEF IInv, Inv

\* A step that leaves the swaps, the index and the balances alone keeps the invariant.
LEMMA IInvStutter ==
  ASSUME IInv, UNCHANGED <<swaps, nonceIndex, balance>>,
         minExpiry' \in Nat, now' \in 0..MaxTime, trust' \in SUBSET (Parties \X Assets)
  PROVE  IInv'
<1>1. TypeOK'
  BY DEF IInv, Inv, TypeOK
<1>2. /\ TermsValid' /\ FlagsMatchState' /\ NonceIndexExact'
  BY DEF IInv, Inv, TermsValid, FlagsMatchState, NonceIndexExact, Ids
<1>3. Solvency' /\ PartiesReconcile'
  BY DEF IInv, Solvency, PartiesReconcile, HeldInAll, SettledInAll, Ids
<1> QED BY <1>1, <1>2, <1>3 DEF IInv, Inv

LEMMA IInvCreate ==
  ASSUME IInv,
         NEW creator \in Parties, NEW counterparty \in Parties,
         NEW assetA \in Assets, NEW assetB \in Assets,
         NEW amountA \in Amounts, NEW amountB \in Amounts,
         NEW expiry \in Expiries, NEW nonce \in Nonces,
         CreateSwap(creator, counterparty, assetA, amountA, assetB, amountB, expiry, nonce)
  PROVE  IInv'
<1>1. Inv /\ NonceIndexExact /\ Solvency /\ PartiesReconcile /\ TypeOK
  BY DEF IInv, Inv
<1>2. CASE UNCHANGED <<swaps, nonceIndex>>
  BY <1>1, <1>2, IInvStutter DEF CreateSwap, TypeOK
<1>3. CASE ~ UNCHANGED <<swaps, nonceIndex>>
  <2> DEFINE s == NewSwap(creator, counterparty, assetA, amountA, assetB, amountB, expiry, nonce)
             n == Len(swaps)
  <2>1. /\ nonceIndex[<<creator, nonce>>] = 0
        /\ swaps' = Append(swaps, s)
        /\ nonceIndex' = [nonceIndex EXCEPT ![<<creator, nonce>>] = n + 1]
        /\ UNCHANGED <<minExpiry, now, balance, trust>>
        /\ amountA > 0 /\ amountB > 0 /\ assetA # assetB /\ creator # counterparty
    BY <1>3 DEF CreateSwap, SaveSwap, NewSwap, TermsOk
  <2>2. /\ s \in Swap /\ s.creator = creator /\ s.counterparty = counterparty
        /\ s.assetA = assetA /\ s.assetB = assetB
        /\ s.amountA = amountA /\ s.amountB = amountB
        /\ s.nonce = nonce /\ s.state = "Created"
        /\ ~ s.creatorFunded /\ ~ s.counterpartyFunded
    BY DEF NewSwap, Swap, SwapState
  <2> HIDE DEF s
  <2>3. /\ n \in Nat /\ Ids' = Ids \cup {n + 1} /\ n + 1 \notin Ids /\ n + 1 # 0
        /\ swaps' \in Seq(Swap)
        /\ \A j \in Ids : swaps'[j] = swaps[j]
        /\ swaps'[n + 1] = s
    BY <1>1, <2>1, <2>2 DEF TypeOK, Ids
  <2> HIDE DEF n
  <2>4. TypeOK'
    BY <1>1, <2>1, <2>3 DEF TypeOK
  <2>5. TermsValid'
    BY <1>1, <2>1, <2>2, <2>3 DEF TermsValid, Inv
  <2>6. FlagsMatchState'
    BY <1>1, <2>2, <2>3 DEF FlagsMatchState, FlagsOk, BothFunded, Inv
  <2>7. NonceIndexExact'
    <3>1. ASSUME NEW j \in Ids'
          PROVE  nonceIndex'[<<swaps'[j].creator, swaps'[j].nonce>>] = j
      <4>1. nonceIndex \in [Parties \X Nonces -> Nat] /\ <<creator, nonce>> \in Parties \X Nonces
        BY <1>1 DEF TypeOK
      <4>2. CASE j = n + 1
        BY <2>1, <2>2, <2>3, <4>1, <4>2
      <4>3. CASE j \in Ids
        <5>1. nonceIndex[<<swaps[j].creator, swaps[j].nonce>>] = j /\ j # 0
          BY <1>1, <4>3 DEF NonceIndexExact, Ids
        <5>2. <<swaps[j].creator, swaps[j].nonce>> # <<creator, nonce>>
          BY <2>1, <5>1
        <5>3. <<swaps[j].creator, swaps[j].nonce>> \in Parties \X Nonces
          <6>1. swaps[j] \in Swap
            BY <1>1, <4>3 DEF TypeOK, Ids
          <6> QED BY <6>1 DEF Swap
        <5>4. nonceIndex'[<<swaps[j].creator, swaps[j].nonce>>] = j
          BY <2>1, <4>1, <5>1, <5>2, <5>3
        <5> QED BY <2>3, <4>3, <5>4
      <4> QED BY <2>3, <4>2, <4>3
    <3>2. ASSUME NEW c \in Parties, NEW m \in Nonces, nonceIndex'[<<c, m>>] # 0
          PROVE  /\ nonceIndex'[<<c, m>>] \in Ids'
                 /\ swaps'[nonceIndex'[<<c, m>>]].creator = c
                 /\ swaps'[nonceIndex'[<<c, m>>]].nonce = m
      <4>1. nonceIndex \in [Parties \X Nonces -> Nat]
        BY <1>1 DEF TypeOK
      <4>2. CASE <<c, m>> = <<creator, nonce>>
        <5>1. nonceIndex'[<<c, m>>] = n + 1 /\ c = creator /\ m = nonce
          BY <2>1, <4>1, <4>2
        <5> QED BY <2>2, <2>3, <5>1
      <4>3. CASE <<c, m>> # <<creator, nonce>>
        <5>1. nonceIndex'[<<c, m>>] = nonceIndex[<<c, m>>]
          BY <2>1, <4>1, <4>3
        <5>2. /\ nonceIndex[<<c, m>>] \in Ids
              /\ swaps[nonceIndex[<<c, m>>]].creator = c
              /\ swaps[nonceIndex[<<c, m>>]].nonce = m
          BY <1>1, <3>2, <5>1 DEF NonceIndexExact
        <5> QED BY <2>3, <5>1, <5>2
      <4> QED BY <4>2, <4>3
    <3> QED BY <3>1, <3>2 DEF NonceIndexExact
  <2>8. \A a \in Assets : /\ HeldInAll(a)' = HeldInAll(a)
                          /\ \A p \in Parties : SettledInAll(a, p)' = SettledInAll(a, p)
    BY <1>1, <2>1, <2>2, SumAfterCreate
  <2>9. Solvency' /\ PartiesReconcile'
    BY <1>1, <2>1, <2>8 DEF Solvency, PartiesReconcile
  <2> QED BY <2>4, <2>5, <2>6, <2>7, <2>9 DEF IInv, Inv
<1> QED BY <1>2, <1>3

LEMMA IInvStep == IInv /\ [Next]_vars => IInv'
<1> SUFFICES ASSUME IInv, [Next]_vars PROVE IInv'
  OBVIOUS
<1>0. Inv /\ TypeOK
  BY DEF IInv, Inv
<1>1. ASSUME NEW creator \in Parties, NEW counterparty \in Parties,
             NEW assetA \in Assets, NEW assetB \in Assets,
             NEW amountA \in Amounts, NEW amountB \in Amounts,
             NEW expiry \in Expiries, NEW nonce \in Nonces,
             CreateSwap(creator, counterparty, assetA, amountA, assetB, amountB, expiry, nonce)
      PROVE  IInv'
  BY <1>1, IInvCreate
<1>2. ASSUME NEW i \in Ids, NEW p \in Parties, FundSwap(i, p) PROVE IInv'
  BY <1>0, <1>2, FundEffect, IInvUpdate
<1>3. ASSUME NEW i \in Ids, NEW p \in Parties, AcceptSwap(i, p) PROVE IInv'
  BY <1>0, <1>3, AcceptEffect, IInvUpdate
<1>4. ASSUME NEW i \in Ids, NEW p \in Parties, CancelSwap(i, p) PROVE IInv'
  BY <1>0, <1>4, CancelEffect, IInvUpdate
<1>5. ASSUME NEW i \in Ids, NEW p \in Parties, RefundSwap(i, p) PROVE IInv'
  BY <1>0, <1>5, RefundEffect, IInvUpdate
<1>6. ASSUME NEW seconds \in MinExpiries, SetMinExpiry(seconds) PROVE IInv'
  BY <1>0, <1>6, IInvStutter, TimesAssumption DEF SetMinExpiry, TypeOK
<1>7. CASE Tick
  BY <1>0, <1>7, IInvStutter, BoundsAssumption DEF Tick, TypeOK
<1>8. ASSUME NEW p \in Parties, NEW a \in Assets, OpenTrustline(p, a) \/ CloseTrustline(p, a)
      PROVE  IInv'
  BY <1>0, <1>8, IInvStutter DEF OpenTrustline, CloseTrustline, TypeOK
<1>9. CASE UNCHANGED vars
  BY <1>0, <1>9, IInvStutter DEF vars, TypeOK
<1> QED BY <1>1, <1>2, <1>3, <1>4, <1>5, <1>6, <1>7, <1>8, <1>9 DEF Next

\* The invariant holds throughout every behaviour.
LEMMA Invariance == Spec => []IInv
  BY IInvInit, IInvStep, PTL DEF Spec
-----------------------------------------------------------------------------
(***************************************************************************)
(* Consequences.                                                           *)
(***************************************************************************)

\* No account is ever overdrawn and every stored swap is well typed.
THEOREM TypeCorrect == Spec => []TypeOK
<1>1. IInv => TypeOK
  BY DEF IInv, Inv
<1> QED BY Invariance, <1>1, PTL

\* The funding flags and the state of a swap always agree.
THEOREM FlagsMatchStateAlways == Spec => []FlagsMatchState
<1>1. IInv => FlagsMatchState
  BY DEF IInv, Inv
<1> QED BY Invariance, <1>1, PTL

\* create_swap is idempotent: the nonce index is exact.
THEOREM NonceIndexExactAlways == Spec => []NonceIndexExact
<1>1. IInv => NonceIndexExact
  BY DEF IInv
<1> QED BY Invariance, <1>1, PTL

\* The contract's account holds exactly the deposits of the open swaps.
THEOREM SolvencyAlways == Spec => []Solvency
<1>1. IInv => Solvency
  BY DEF IInv
<1> QED BY Invariance, <1>1, PTL

\* Every party's balance is explained by the states of its swaps.
THEOREM PartiesReconcileAlways == Spec => []PartiesReconcile
<1>1. IInv => PartiesReconcile
  BY DEF IInv
<1> QED BY Invariance, <1>1, PTL

\* An open swap's own deposits are in the contract's account.
LEMMA DepositsCovered ==
  ASSUME IInv, NEW i \in Ids, NEW a \in Assets
  PROVE  Held(swaps[i], a) <= balance[a][Contract]
<1> DEFINE n == Len(swaps)
           f == [k \in 1..n |-> Held(swaps[k], a)]
<1>1. n \in Nat /\ i \in 1..n /\ Inv
  BY DEF IInv, Inv, TypeOK, Ids
<1>2. \A k \in 1..n : f[k] \in Nat
  BY <1>1, CreditsAreIntegers DEF Ids
<1>3. HeldInAll(a) = Total(f, n) /\ f[i] = Held(swaps[i], a)
  BY <1>1 DEF HeldInAll, Ids
<1>4. balance[a][Contract] = InitBalance[a][Contract] + HeldInAll(a)
  BY DEF IInv, Solvency
<1>5. InitBalance[a][Contract] \in Nat
  BY InitBalanceAssumption, PartyAccounts
<1> HIDE DEF f, n
<1>6. Total(f, n) \in Nat /\ f[i] <= Total(f, n)
  BY <1>1, <1>2, TotalDominates
<1> QED BY <1>1, <1>2, <1>3, <1>4, <1>5, <1>6

\* A due refund goes through when the depositors can hold their assets.
LEMMA RefundCovered ==
  ASSUME IInv, NEW i \in Ids, RefundDue(swaps[i]), DepositorsTrust(swaps[i])
  PROVE  RefundPayable(swaps[i])
<1> DEFINE s == swaps[i]
<1>1. ValidSwap(s) /\ balance \in Balances
  BY StoredSwap DEF IInv, Inv, TypeOK, Balances
<1>2. \A a \in Assets : Held(s, a) <= balance[a][Contract]
  BY DepositsCovered
<1>3. Live(s)
  BY DEF RefundDue
<1>4. /\ s.creatorFunded => HasTrustline(trust, s.creator, s.assetA)
      /\ s.counterpartyFunded => HasTrustline(trust, s.counterparty, s.assetB)
  BY DEF DepositorsTrust
<1> HIDE DEF s
<1>5. s.creatorFunded => TransferOk(balance, trust, s.assetA, Contract, s.creator, s.amountA)
  <2> SUFFICES ASSUME s.creatorFunded
               PROVE  TransferOk(balance, trust, s.assetA, Contract, s.creator, s.amountA)
    OBVIOUS
  <2>1. Held(s, s.assetA) = s.amountA
    BY <1>1, <1>3 DEF Held, ValidSwap
  <2>2. balance[s.assetA][Contract] >= s.amountA
    BY <1>1, <1>2, <2>1, PartyAccounts DEF ValidSwap, Balances
  <2> QED BY <1>4, <2>2 DEF TransferOk, HasTrustline
<1>6. s.counterpartyFunded =>
        TransferOk(RefundedCreator(s), trust, s.assetB, Contract, s.counterparty, s.amountB)
  <2> SUFFICES ASSUME s.counterpartyFunded
               PROVE  TransferOk(RefundedCreator(s), trust, s.assetB, Contract,
                                 s.counterparty, s.amountB)
    OBVIOUS
  <2>1. Held(s, s.assetB) = s.amountB
    BY <1>1, <1>3 DEF Held, ValidSwap
  <2>2. balance[s.assetB][Contract] >= s.amountB
    BY <1>1, <1>2, <2>1, PartyAccounts DEF ValidSwap, Balances
  <2>3. RefundedCreator(s)[s.assetB][Contract] = balance[s.assetB][Contract]
    <3>1. CASE s.creatorFunded
      <4>1. RefundedCreator(s) = Transfer(balance, s.assetA, Contract, s.creator, s.amountA)
        BY <3>1 DEF RefundedCreator
      <4> QED BY <1>1, <1>5, <3>1, <4>1, PayoutEffect, PartyAccounts DEF TransferOk, ValidSwap
    <3>2. CASE ~ s.creatorFunded
      BY <3>2 DEF RefundedCreator
    <3> QED BY <3>1, <3>2
  <2> QED BY <1>4, <2>2, <2>3 DEF TransferOk, HasTrustline
<1> QED BY <1>5, <1>6 DEF RefundPayable, s

\* From its expiry on, a swap's deposits can be returned, whatever other swaps did.
THEOREM RefundAlwaysCoveredAlways == Spec => []RefundAlwaysCovered
<1>1. IInv => RefundAlwaysCovered
  BY RefundCovered DEF RefundAlwaysCovered
<1> QED BY Invariance, <1>1, PTL

LEMMA AcceptCovered ==
  ASSUME IInv, NEW i \in Ids, AcceptDue(swaps[i]), RecipientsTrust(swaps[i])
  PROVE  AcceptPayable(swaps[i])
<1> DEFINE s == swaps[i]
           afterA == Transfer(balance, s.assetA, Contract, s.counterparty, s.amountA)
<1>1. ValidSwap(s) /\ balance \in Balances
  BY StoredSwap DEF IInv, Inv, TypeOK, Balances
<1>2. \A a \in Assets : Held(s, a) <= balance[a][Contract]
  BY DepositsCovered
<1>3. Live(s) /\ s.creatorFunded /\ s.counterpartyFunded
  BY DEF AcceptDue, BothFunded
<1>4. /\ HasTrustline(trust, s.counterparty, s.assetA)
      /\ HasTrustline(trust, s.creator, s.assetB)
  BY DEF RecipientsTrust
<1> HIDE DEF s
<1>5. Held(s, s.assetA) = s.amountA /\ Held(s, s.assetB) = s.amountB
  BY <1>1, <1>3 DEF Held, ValidSwap
<1>6. balance[s.assetA][Contract] >= s.amountA /\ balance[s.assetB][Contract] >= s.amountB
  BY <1>1, <1>2, <1>5, PartyAccounts DEF ValidSwap, Balances
<1>7. TransferOk(balance, trust, s.assetA, Contract, s.counterparty, s.amountA)
  BY <1>4, <1>6 DEF TransferOk, HasTrustline
<1>8. afterA[s.assetB][Contract] = balance[s.assetB][Contract]
  BY <1>1, <1>7, PayoutEffect, PartyAccounts DEF TransferOk, ValidSwap
<1>9. TransferOk(afterA, trust, s.assetB, Contract, s.creator, s.amountB)
  BY <1>4, <1>6, <1>8 DEF TransferOk, HasTrustline
<1> QED BY <1>7, <1>9 DEF AcceptPayable, s

\* A fully funded swap has exactly one exit at every ledger time.
THEOREM ExactlyOneExitAlways == Spec => []ExactlyOneExit
<1>1. ASSUME IInv PROVE ExactlyOneExit
  <2> SUFFICES ASSUME NEW i \in Ids, Live(swaps[i]), BothFunded(swaps[i]),
                      DepositorsTrust(swaps[i]), RecipientsTrust(swaps[i])
               PROVE  AcceptDue(swaps[i]) /\ AcceptPayable(swaps[i])
                        <=> ~ (RefundDue(swaps[i]) /\ RefundPayable(swaps[i]))
    BY DEF ExactlyOneExit
  <2>1. now \in Int /\ swaps[i].expiry \in Int
    <3>1. swaps[i] \in Swap /\ now \in Nat
      BY <1>1, BoundsAssumption DEF IInv, Inv, TypeOK, Ids
    <3>2. swaps[i].expiry \in Expiries
      BY <3>1 DEF Swap
    <3>3. \A x \in Expiries : x \in Int
      BY TimesAssumption
    <3> QED BY <3>1, <3>2, <3>3
  <2>2. AcceptDue(swaps[i]) <=> ~ RefundDue(swaps[i])
    BY <2>1 DEF AcceptDue, RefundDue, AnyFunded, BothFunded
  <2>3. AcceptDue(swaps[i]) => AcceptPayable(swaps[i])
    BY <1>1, AcceptCovered
  <2>4. RefundDue(swaps[i]) => RefundPayable(swaps[i])
    BY <1>1, RefundCovered
  <2> QED BY <2>2, <2>3, <2>4
<1> QED BY Invariance, <1>1, PTL

\* A settled swap is never touched again, and no call changes the terms of a swap.
THEOREM SettledIsFinalAlways == Spec => SettledIsFinal
<1> DEFINE Final == \A i \in Ids :
       /\ ~ Live(swaps[i]) => swaps'[i] = swaps[i]
       /\ swaps'[i] = [swaps[i] EXCEPT !.state = swaps'[i].state,
                                       !.creatorFunded = swaps'[i].creatorFunded,
                                       !.counterpartyFunded = swaps'[i].counterpartyFunded]
<1>1. ASSUME IInv, Next PROVE Final
  <2> USE <1>1
  <2>0. /\ Inv /\ swaps \in Seq(Swap)
        /\ \A i \in Ids : swaps[i] \in Swap
    BY DEF IInv, Inv, TypeOK, Ids
  <2>1. ASSUME NEW k \in Ids, NEW s2, swaps' = [swaps EXCEPT ![k] = s2], Live(swaps[k]),
               s2 = [swaps[k] EXCEPT !.state = s2.state, !.creatorFunded = s2.creatorFunded,
                                     !.counterpartyFunded = s2.counterpartyFunded]
        PROVE  Final
    <3>1. \A i \in Ids : swaps'[i] = IF i = k THEN s2 ELSE swaps[i]
      BY <2>0, <2>1 DEF Ids
    <3>2. \A i \in Ids : swaps[i] = [swaps[i] EXCEPT !.state = swaps[i].state,
                                       !.creatorFunded = swaps[i].creatorFunded,
                                       !.counterpartyFunded = swaps[i].counterpartyFunded]
      BY <2>0 DEF Swap
    <3> DEFINE Same(i) == /\ ~ Live(swaps[i]) => swaps'[i] = swaps[i]
                          /\ swaps'[i] = [swaps[i] EXCEPT !.state = swaps'[i].state,
                                             !.creatorFunded = swaps'[i].creatorFunded,
                                             !.counterpartyFunded = swaps'[i].counterpartyFunded]
    <3>3. Same(k)
      <4>1. swaps'[k] = s2
        BY <3>1
      <4> QED BY <2>1, <4>1
    <3>4. ASSUME NEW i \in Ids, i # k PROVE Same(i)
      <4>1. swaps'[i] = swaps[i]
        BY <3>1, <3>4
      <4> QED BY <3>2, <4>1
    <3> QED BY ONLY <3>3, <3>4
  <2>2. ASSUME \A i \in Ids : swaps'[i] = swaps[i] PROVE Final
    BY <2>0, <2>2 DEF Swap
  <2>3. ASSUME NEW k \in Ids, NEW p \in Parties, FundSwap(k, p) PROVE Final
    <3> DEFINE s2 == WithFundedState(FundedSide(swaps[k], p))
    <3>1. swaps' = [swaps EXCEPT ![k] = s2] /\ Live(swaps[k]) /\ swaps[k] \in Swap
      BY <2>0, <2>3 DEF FundSwap, Live
    <3>2. s2 = [swaps[k] EXCEPT !.state = s2.state, !.creatorFunded = s2.creatorFunded,
                                !.counterpartyFunded = s2.counterpartyFunded]
      BY <3>1 DEF WithFundedState, FundedSide, Swap
    <3> HIDE DEF s2
    <3> QED BY <2>1, <3>1, <3>2
  <2>4. ASSUME NEW k \in Ids, NEW p \in Parties, AcceptSwap(k, p) PROVE Final
    <3> DEFINE s2 == [swaps[k] EXCEPT !.state = "Accepted"]
    <3>1. swaps' = [swaps EXCEPT ![k] = s2] /\ Live(swaps[k]) /\ swaps[k] \in Swap
      BY <2>0, <2>4 DEF AcceptSwap, AcceptDue
    <3>2. s2 = [swaps[k] EXCEPT !.state = s2.state, !.creatorFunded = s2.creatorFunded,
                                !.counterpartyFunded = s2.counterpartyFunded]
      BY <3>1 DEF Swap
    <3> HIDE DEF s2
    <3> QED BY <2>1, <3>1, <3>2
  <2>5. ASSUME NEW k \in Ids, NEW p \in Parties, CancelSwap(k, p) PROVE Final
    <3> DEFINE s2 == [swaps[k] EXCEPT !.state = "Cancelled"]
    <3>1. swaps' = [swaps EXCEPT ![k] = s2] /\ Live(swaps[k]) /\ swaps[k] \in Swap
      BY <2>0, <2>5 DEF CancelSwap, Live
    <3>2. s2 = [swaps[k] EXCEPT !.state = s2.state, !.creatorFunded = s2.creatorFunded,
                                !.counterpartyFunded = s2.counterpartyFunded]
      BY <3>1 DEF Swap
    <3> HIDE DEF s2
    <3> QED BY <2>1, <3>1, <3>2
  <2>6. ASSUME NEW k \in Ids, NEW p \in Parties, RefundSwap(k, p) PROVE Final
    <3> DEFINE s2 == [swaps[k] EXCEPT !.state = "Refunded", !.creatorFunded = FALSE,
                                      !.counterpartyFunded = FALSE]
    <3>1. swaps' = [swaps EXCEPT ![k] = s2] /\ Live(swaps[k]) /\ swaps[k] \in Swap
      <4>1. SwapUpdate(k, s2)
        BY <2>0, <2>6, RefundEffect
      <4> QED BY <2>0, <2>6, <4>1 DEF RefundSwap, RefundDue, SwapUpdate
    <3>2. s2 = [swaps[k] EXCEPT !.state = s2.state, !.creatorFunded = s2.creatorFunded,
                                !.counterpartyFunded = s2.counterpartyFunded]
      BY <3>1 DEF Swap
    <3> HIDE DEF s2
    <3> QED BY <2>1, <3>1, <3>2
  <2>7. ASSUME NEW creator \in Parties, NEW counterparty \in Parties,
               NEW assetA \in Assets, NEW assetB \in Assets,
               NEW amountA \in Amounts, NEW amountB \in Amounts,
               NEW expiry \in Expiries, NEW nonce \in Nonces,
               CreateSwap(creator, counterparty, assetA, amountA, assetB, amountB, expiry, nonce)
        PROVE  \A i \in Ids : swaps'[i] = swaps[i]
    <3> DEFINE s == NewSwap(creator, counterparty, assetA, amountA, assetB, amountB, expiry, nonce)
    <3>1. swaps' = swaps \/ swaps' = Append(swaps, s)
      BY <2>7 DEF CreateSwap, SaveSwap
    <3>2. s \in Swap
      BY DEF NewSwap, Swap, SwapState
    <3> HIDE DEF s
    <3> QED BY <2>0, <3>1, <3>2 DEF Ids
  <2>8. ASSUME UNCHANGED swaps PROVE \A i \in Ids : swaps'[i] = swaps[i]
    BY <2>8
  <2> HIDE DEF Final
  <2>9. ASSUME NEW seconds \in MinExpiries, SetMinExpiry(seconds) PROVE UNCHANGED swaps
    BY <2>9 DEF SetMinExpiry
  <2>10. ASSUME Tick PROVE UNCHANGED swaps
    BY <2>10 DEF Tick
  <2>11. ASSUME NEW p \in Parties, NEW a \in Assets, OpenTrustline(p, a) \/ CloseTrustline(p, a)
         PROVE  UNCHANGED swaps
    BY <2>11 DEF OpenTrustline, CloseTrustline
  <2> QED BY <1>1, <2>2, <2>3, <2>4, <2>5, <2>6, <2>7, <2>8, <2>9, <2>10, <2>11 DEF Next
<1>2. IInv /\ [Next]_vars => [Final]_vars
  BY <1>1
<1> QED BY Invariance, <1>2, PTL DEF Spec, SettledIsFinal
-----------------------------------------------------------------------------
(***************************************************************************)
(* The contract implements BilateralExchange.  What a party has settled    *)
(* and what it has on deposit add up to what it gained by accepted swaps,  *)
(* so only accept_swap changes what a party owns.                          *)
(***************************************************************************)
LEMMA DepositsAreIntegers ==
  ASSUME NEW s \in Swap, NEW a, NEW p
  PROVE  Deposit(s, a, p) \in Int /\ Settled(s, a, p) \in Int
<1>1. s.amountA \in Int /\ s.amountB \in Int
  BY AmountsAssumption DEF Swap
<1> QED BY <1>1 DEF Deposit, Settled

LEMMA OwnedInteger ==
  ASSUME Inv, NEW a \in Assets, NEW p \in Parties
  PROVE  Owned(a, p) \in Int
<1> DEFINE n == Len(swaps)
           f == [k \in 1..n |-> Deposit(swaps[k], a, p)]
<1>1. /\ n \in Nat /\ balance[a][p] \in Int
      /\ \A k \in 1..n : swaps[k] \in Swap
  BY PartyAccounts DEF Inv, TypeOK
<1>2. \A k \in 1..n : f[k] \in Int
  BY <1>1, DepositsAreIntegers
<1>3. Owned(a, p) = balance[a][p] + Total(f, n)
  BY DEF Owned, Ids
<1> HIDE DEF f, n
<1> QED BY <1>1, <1>2, <1>3, TotalInt

LEMMA OwnedAfterUpdate ==
  ASSUME Inv, NEW i, NEW s2, SwapUpdate(i, s2), NEW a \in Assets, NEW p \in Parties
  PROVE  Owned(a, p)' = Owned(a, p) + (Settled(s2, a, p) + Deposit(s2, a, p))
                                    - (Settled(swaps[i], a, p) + Deposit(swaps[i], a, p))
<1> DEFINE n == Len(swaps)
           f == [k \in 1..n |-> Deposit(swaps[k], a, p)]
           g == [k \in 1..n |-> Deposit(swaps'[k], a, p)]
<1>1. /\ n \in Nat /\ i \in 1..n /\ Len(swaps') = n /\ s2 \in Swap
      /\ \A k \in 1..n : swaps'[k] = IF k = i THEN s2 ELSE swaps[k]
      /\ \A k \in 1..n : swaps[k] \in Swap
  BY DEF Inv, TypeOK, SwapUpdate, Ids
<1>2. /\ \A k \in 1..n : Deposit(swaps[k], a, p) \in Int
      /\ Deposit(s2, a, p) \in Int
  BY <1>1, DepositsAreIntegers
<1>3. balance'[a][p] = balance[a][p] + Settled(s2, a, p) - Settled(swaps[i], a, p)
  BY PartyAccounts DEF SwapUpdate, Credit
<1>4. balance[a][p] \in Int
  BY PartyAccounts DEF Inv, TypeOK
<1>5. Settled(s2, a, p) \in Int /\ Settled(swaps[i], a, p) \in Int
  BY <1>1, DepositsAreIntegers
<1>6. /\ Owned(a, p) = balance[a][p] + Total(f, n)
      /\ Owned(a, p)' = balance'[a][p] + Total(g, n)
  BY <1>1 DEF Owned, Ids
<1>7. /\ \A k \in 1..n : f[k] \in Int
      /\ \A k \in 1..n : k # i => g[k] = f[k]
      /\ g[i] = Deposit(s2, a, p) /\ f[i] = Deposit(swaps[i], a, p)
  BY <1>1, <1>2
<1> HIDE DEF n, f, g
<1>8. Total(g, n) = Total(f, n) + g[i] - f[i]
  <2>1. n \in Nat /\ i \in 1..n /\ g[i] \in Int
    BY <1>1, <1>2, <1>7
  <2>2. (\A k \in 1..n : f[k] \in Int) /\ (\A k \in 1..n : k # i => g[k] = f[k])
    BY ONLY <1>7
  <2> QED BY ONLY <2>1, <2>2, TotalUpdate
<1>9. Total(f, n) \in Int
  BY <1>1, <1>7, TotalInt
<1>10. f[i] \in Int /\ g[i] \in Int
  BY <1>1, <1>2, <1>7
<1> QED BY <1>3, <1>4, <1>5, <1>6, <1>7, <1>8, <1>9, <1>10

\* Unless the swap is accepted, what a party settled and what it deposited cancel out.
LEMMA SettledPlusDeposit ==
  ASSUME NEW s, ValidSwap(s), NEW a \in Assets, NEW p \in Parties
  PROVE  Settled(s, a, p) + Deposit(s, a, p) =
           IF s.state # "Accepted" THEN 0
           ELSE (IF p = s.counterparty /\ a = s.assetA THEN s.amountA ELSE 0)
              + (IF p = s.creator /\ a = s.assetB THEN s.amountB ELSE 0)
              - (IF p = s.creator /\ a = s.assetA THEN s.amountA ELSE 0)
              - (IF p = s.counterparty /\ a = s.assetB THEN s.amountB ELSE 0)
<1>1. CASE s.state = "Accepted"
  <2>1. ~ Live(s) /\ s.creatorFunded /\ s.counterpartyFunded
    BY <1>1 DEF Live, ValidSwap, FlagsOk, BothFunded
  <2> QED BY <1>1, <2>1 DEF Settled, Deposit, ValidSwap
<1>2. CASE Live(s)
  <2>1. s.state # "Accepted"
    BY <1>2 DEF Live
  <2> QED BY <1>2, <2>1 DEF Settled, Deposit, ValidSwap
<1>3. CASE s.state \in {"Cancelled", "Refunded"}
  <2>1. ~ Live(s) /\ ~ s.creatorFunded /\ ~ s.counterpartyFunded /\ s.state # "Accepted"
    BY <1>3 DEF Live, ValidSwap, FlagsOk, AnyFunded
  <2> QED BY <2>1 DEF Settled, Deposit
<1>4. s.state \in SwapState
  BY DEF ValidSwap, Swap
<1> QED BY <1>1, <1>2, <1>3, <1>4 DEF SwapState, Live

\* An accepted swap changes what is owned as BilateralExchange says ...
LEMMA AcceptExchanges ==
  ASSUME IInv, NEW i \in Ids, NEW q \in Parties, AcceptSwap(i, q),
         NEW a \in Assets, NEW p \in Parties
  PROVE  Owned(a, p)' =
           LET t == TermsOf(swaps[i]) IN
           CASE p = t.creator /\ a = t.assetA -> Owned(a, p) - t.amountA
             [] p = t.creator /\ a = t.assetB -> Owned(a, p) + t.amountB
             [] p = t.counterparty /\ a = t.assetA -> Owned(a, p) + t.amountA
             [] p = t.counterparty /\ a = t.assetB -> Owned(a, p) - t.amountB
             [] OTHER -> Owned(a, p)
<1> DEFINE s == swaps[i]
           s2 == [s EXCEPT !.state = "Accepted"]
<1>1. Inv /\ ValidSwap(s) /\ SwapUpdate(i, s2)
  BY StoredSwap, AcceptEffect DEF IInv
<1>2. s.state # "Accepted"
  BY DEF AcceptSwap, AcceptDue, Live
<1> HIDE DEF s
<1>3. /\ ValidSwap(s2) /\ s2.state = "Accepted"
      /\ s2.creator = s.creator /\ s2.counterparty = s.counterparty
      /\ s2.assetA = s.assetA /\ s2.assetB = s.assetB
      /\ s2.amountA = s.amountA /\ s2.amountB = s.amountB
  <2>1. /\ s \in Swap /\ s2 \in Swap /\ FlagsOk(s2)
    BY <1>1 DEF ValidSwap, SwapUpdate
  <2> QED BY <1>1, <2>1 DEF ValidSwap, Swap
<1> HIDE DEF s2
<1>4. Owned(a, p)' = Owned(a, p) + (Settled(s2, a, p) + Deposit(s2, a, p))
                                 - (Settled(s, a, p) + Deposit(s, a, p))
  BY <1>1, OwnedAfterUpdate DEF s
<1>5. Owned(a, p) \in Int
  BY <1>1, OwnedInteger
<1>6. Settled(s, a, p) + Deposit(s, a, p) = 0
  BY <1>1, <1>2, SettledPlusDeposit
<1>7. Settled(s2, a, p) + Deposit(s2, a, p) =
           (IF p = s.counterparty /\ a = s.assetA THEN s.amountA ELSE 0)
         + (IF p = s.creator /\ a = s.assetB THEN s.amountB ELSE 0)
         - (IF p = s.creator /\ a = s.assetA THEN s.amountA ELSE 0)
         - (IF p = s.counterparty /\ a = s.assetB THEN s.amountB ELSE 0)
  BY <1>3, SettledPlusDeposit
<1>8. /\ s.amountA \in Int /\ s.amountB \in Int
      /\ s.creator # s.counterparty /\ s.assetA # s.assetB
  BY <1>1 DEF ValidSwap
<1>9. Owned(a, p)' = CASE p = s.creator /\ a = s.assetA -> Owned(a, p) - s.amountA
                       [] p = s.creator /\ a = s.assetB -> Owned(a, p) + s.amountB
                       [] p = s.counterparty /\ a = s.assetA -> Owned(a, p) + s.amountA
                       [] p = s.counterparty /\ a = s.assetB -> Owned(a, p) - s.amountB
                       [] OTHER -> Owned(a, p)
  BY <1>4, <1>5, <1>6, <1>7, <1>8
<1> QED BY <1>9 DEF TermsOf, s

\* ... and no other call on a stored swap changes it.
LEMMA OthersKeepOwned ==
  ASSUME IInv, NEW i, NEW s2, SwapUpdate(i, s2),
         swaps[i].state # "Accepted", s2.state # "Accepted",
         NEW a \in Assets, NEW p \in Parties
  PROVE  Owned(a, p)' = Owned(a, p)
<1> DEFINE s == swaps[i]
<1>1. Inv /\ i \in Ids /\ ValidSwap(s)
  BY StoredSwap DEF IInv, SwapUpdate
<1>2. ValidSwap(s2)
  BY <1>1 DEF ValidSwap, SwapUpdate, TermsOf
<1>3. Owned(a, p)' = Owned(a, p) + (Settled(s2, a, p) + Deposit(s2, a, p))
                                 - (Settled(s, a, p) + Deposit(s, a, p))
  BY <1>1, OwnedAfterUpdate
<1>4. Owned(a, p) \in Int
  BY <1>1, OwnedInteger
<1>5. /\ Settled(s, a, p) + Deposit(s, a, p) = 0
      /\ Settled(s2, a, p) + Deposit(s2, a, p) = 0
  BY <1>1, <1>2, SettledPlusDeposit
<1> QED BY <1>3, <1>4, <1>5

LEMMA RefineInit == Init => Exchange!Init
<1> SUFFICES ASSUME Init PROVE Exchange!Init
  OBVIOUS
<1>1. Len(swaps) = 0 /\ balance = InitBalance /\ Ids = {}
  BY DEF Init, Ids
<1>2. [i \in Ids |-> [terms |-> TermsOf(swaps[i]), phase |-> Phase(swaps[i])]] = << >>
  BY <1>1
<1>3. \A a \in Assets, p \in Parties : Owned(a, p) = InitBalance[a][p]
  <2> SUFFICES ASSUME NEW a \in Assets, NEW p \in Parties
               PROVE  Owned(a, p) = InitBalance[a][p]
    OBVIOUS
  <2>1. InitBalance[a][p] \in Int
    BY InitBalanceAssumption, PartyAccounts
  <2> QED BY <1>1, <2>1, TotalEmpty DEF Owned
<1> QED BY <1>2, <1>3 DEF Exchange!Init

Deals == [i \in Ids |-> [terms |-> TermsOf(swaps[i]), phase |-> Phase(swaps[i])]]
Wealth == [a \in Assets |-> [p \in Parties |-> Owned(a, p)]]

LEMMA WealthKept ==
  ASSUME \A a \in Assets, p \in Parties : Owned(a, p)' = Owned(a, p)
  PROVE  Wealth' = Wealth
  BY DEF Wealth

\* A call on a stored swap changes at most the phase of its own deal.
LEMMA DealsAfterUpdate ==
  ASSUME IInv, NEW i, NEW s2, SwapUpdate(i, s2)
  PROVE  /\ i \in 1..Len(Deals)
         /\ Deals' = [Deals EXCEPT ![i].phase = Phase(s2)]
<1>1. /\ Len(swaps) \in Nat /\ i \in Ids /\ Ids' = Ids /\ Ids = 1..Len(swaps)
      /\ \A k \in Ids : swaps'[k] = IF k = i THEN s2 ELSE swaps[k]
  BY DEF IInv, Inv, TypeOK, SwapUpdate, Ids
<1>2. TermsOf(s2) = TermsOf(swaps[i])
  BY DEF SwapUpdate
<1>3. Len(Deals) = Len(swaps)
  BY <1>1 DEF Deals
<1>4. Deals' = [k \in Ids |-> [terms |-> TermsOf(swaps'[k]), phase |-> Phase(swaps'[k])]]
  BY <1>1 DEF Deals
<1>5. \A k \in Ids : Deals'[k] = IF k = i THEN [terms |-> TermsOf(swaps[i]), phase |-> Phase(s2)]
                                 ELSE Deals[k]
  BY <1>1, <1>2, <1>4 DEF Deals
<1>6. Deals[i] = [terms |-> TermsOf(swaps[i]), phase |-> Phase(swaps[i])]
  BY <1>1 DEF Deals
<1>7. [Deals[i] EXCEPT !.phase = Phase(s2)] = [terms |-> TermsOf(swaps[i]), phase |-> Phase(s2)]
  BY <1>6
<1>8. DOMAIN Deals = Ids /\ DOMAIN Deals' = Ids /\ Deals = [k \in Ids |-> Deals[k]]
  BY <1>1, <1>4 DEF Deals
<1> HIDE DEF Deals
<1>9. [Deals EXCEPT ![i].phase = Phase(s2)] =
        [k \in Ids |-> IF k = i THEN [Deals[i] EXCEPT !.phase = Phase(s2)] ELSE Deals[k]]
  BY <1>1, <1>8
<1>10. Deals' = [k \in Ids |-> IF k = i THEN [Deals[i] EXCEPT !.phase = Phase(s2)] ELSE Deals[k]]
  BY <1>4, <1>5, <1>7
<1> QED BY <1>1, <1>3, <1>9, <1>10

LEMMA OwnedAfterCreate ==
  ASSUME Inv, NEW s \in Swap, swaps' = Append(swaps, s), ~ s.creatorFunded,
         ~ s.counterpartyFunded, UNCHANGED balance, NEW a \in Assets, NEW p \in Parties
  PROVE  Owned(a, p)' = Owned(a, p)
<1> DEFINE n == Len(swaps)
           f == [k \in 1..n |-> Deposit(swaps[k], a, p)]
           g == [k \in 1..(n + 1) |-> Deposit(swaps'[k], a, p)]
<1>1. /\ n \in Nat /\ Len(swaps') = n + 1
      /\ \A k \in 1..n : swaps[k] \in Swap /\ swaps'[k] = swaps[k]
      /\ swaps'[n + 1] = s
  BY DEF Inv, TypeOK
<1>2. Deposit(s, a, p) = 0
  BY DEF Deposit
<1>3. /\ Owned(a, p) = balance[a][p] + Total(f, n)
      /\ Owned(a, p)' = balance[a][p] + Total(g, n + 1)
  BY <1>1 DEF Owned, Ids
<1>4. \A k \in 1..n : f[k] \in Int /\ g[k] = f[k]
  BY <1>1, DepositsAreIntegers
<1>5. g[n + 1] = 0
  BY <1>1, <1>2
<1> HIDE DEF n, f, g
<1>6. Total(g, n) = Total(f, n) /\ Total(f, n) \in Int
  BY <1>1, <1>4, TotalSame, TotalInt
<1>7. \A k \in 1..(n + 1) : g[k] \in Int
  BY <1>1, <1>4, <1>5
<1>8. Total(g, n + 1) = Total(g, n) + g[n + 1]
  BY <1>1, <1>7, TotalStep
<1> QED BY <1>3, <1>5, <1>6, <1>8

LEMMA RefineStep == IInv /\ [Next]_vars => [Exchange!Next]_Exchange!vars
<1> SUFFICES ASSUME IInv, [Next]_vars PROVE [Exchange!Next]_Exchange!vars
  OBVIOUS
<1>0. Inv /\ \A i \in Ids : ValidSwap(swaps[i])
  BY StoredSwap DEF IInv
<1>1. ASSUME NEW i \in Ids, NEW s2, SwapUpdate(i, s2),
             Live(swaps[i]), s2.state # "Accepted"
      PROVE  [Exchange!Next]_Exchange!vars
  <2>1. i \in 1..Len(Deals) /\ Deals' = [Deals EXCEPT ![i].phase = Phase(s2)]
    BY <1>1, DealsAfterUpdate
  <2>2. Wealth' = Wealth
    <3>1. swaps[i].state # "Accepted"
      BY <1>1 DEF Live
    <3> QED BY <1>1, <3>1, OthersKeepOwned, WealthKept
  <2>3. Deals[i].phase = "open"
    BY <1>1 DEF Deals, Phase, Live
  <2>4. CASE Phase(s2) = "open"
    <3>1. Deals' = Deals
      BY <1>1, <2>1, <2>3, <2>4 DEF Deals
    <3> QED BY <2>2, <3>1 DEF Exchange!vars, Deals, Wealth
  <2>5. CASE Phase(s2) = "void"
    <3>1. Exchange!Void(i)
      BY <2>1, <2>2, <2>3, <2>5 DEF Exchange!Void, Deals, Wealth
    <3> QED BY <2>1, <3>1 DEF Exchange!Next, Deals
  <2>6. Phase(s2) \in {"open", "void"}
    BY <1>1 DEF Phase
  <2> QED BY <2>4, <2>5, <2>6
<1>2. ASSUME NEW i \in Ids, NEW p \in Parties, FundSwap(i, p)
      PROVE  [Exchange!Next]_Exchange!vars
  <2> DEFINE s2 == WithFundedState(FundedSide(swaps[i], p))
  <2>1. SwapUpdate(i, s2)
    BY <1>0, <1>2, FundEffect
  <2>2. Live(swaps[i]) /\ swaps[i].state = "Created" /\ swaps[i] \in Swap
    BY <1>0, <1>2 DEF FundSwap, Live, ValidSwap
  <2>3. s2.state # "Accepted"
    BY <2>2 DEF WithFundedState, FundedSide, Swap
  <2> HIDE DEF s2
  <2> QED BY <1>1, <2>1, <2>2, <2>3
<1>3. ASSUME NEW i \in Ids, NEW p \in Parties, AcceptSwap(i, p)
      PROVE  [Exchange!Next]_Exchange!vars
  <2> DEFINE s2 == [swaps[i] EXCEPT !.state = "Accepted"]
             t == TermsOf(swaps[i])
  <2>1. SwapUpdate(i, s2)
    BY <1>0, <1>3, AcceptEffect
  <2>2. Live(swaps[i]) /\ Phase(s2) = "exchanged"
    <3>1. swaps[i] \in Swap
      BY <1>0 DEF ValidSwap
    <3> QED BY <1>3, <3>1 DEF AcceptSwap, AcceptDue, Phase, Live, Swap
  <2> HIDE DEF s2
  <2>3. i \in 1..Len(Deals) /\ Deals' = [Deals EXCEPT ![i].phase = "exchanged"]
    BY <2>1, <2>2, DealsAfterUpdate
  <2>4. Deals[i].phase = "open" /\ Deals[i].terms = t
    BY <2>2 DEF Deals, Phase, Live
  <2>5. Wealth' = [a \in Assets |-> [p_1 \in Parties |-> Exchange!After(t, a, p_1)]]
    <3>1. \A a \in Assets, p_1 \in Parties : Owned(a, p_1)' = Exchange!After(t, a, p_1)
      BY <1>3, AcceptExchanges DEF Exchange!After
    <3> QED BY <3>1 DEF Wealth
  <2>6. Exchange!Exchange(i)
    BY <2>3, <2>4, <2>5 DEF Exchange!Exchange, Deals, Wealth
  <2> QED BY <2>3, <2>6 DEF Exchange!Next, Deals
<1>4. ASSUME NEW i \in Ids, NEW p \in Parties, CancelSwap(i, p)
      PROVE  [Exchange!Next]_Exchange!vars
  <2> DEFINE s2 == [swaps[i] EXCEPT !.state = "Cancelled"]
  <2>1. SwapUpdate(i, s2)
    BY <1>0, <1>4, CancelEffect
  <2>2. Live(swaps[i]) /\ swaps[i] \in Swap
    BY <1>0, <1>4 DEF CancelSwap, Live, ValidSwap
  <2>3. s2.state # "Accepted"
    BY <2>2 DEF Swap
  <2> HIDE DEF s2
  <2> QED BY <1>1, <2>1, <2>2, <2>3
<1>5. ASSUME NEW i \in Ids, NEW p \in Parties, RefundSwap(i, p)
      PROVE  [Exchange!Next]_Exchange!vars
  <2> DEFINE s2 == [swaps[i] EXCEPT !.state = "Refunded", !.creatorFunded = FALSE,
                                    !.counterpartyFunded = FALSE]
  <2>1. SwapUpdate(i, s2)
    BY <1>0, <1>5, RefundEffect
  <2>2. Live(swaps[i]) /\ swaps[i] \in Swap
    BY <1>0, <1>5 DEF RefundSwap, RefundDue, ValidSwap
  <2>3. s2.state # "Accepted"
    BY <2>2 DEF Swap
  <2> HIDE DEF s2
  <2> QED BY <1>1, <2>1, <2>2, <2>3
<1>6. ASSUME UNCHANGED <<swaps, balance>>
      PROVE  [Exchange!Next]_Exchange!vars
  BY <1>6 DEF Exchange!vars, Ids, Owned
<1>7. ASSUME NEW creator \in Parties, NEW counterparty \in Parties,
             NEW assetA \in Assets, NEW assetB \in Assets,
             NEW amountA \in Amounts, NEW amountB \in Amounts,
             NEW expiry \in Expiries, NEW nonce \in Nonces,
             CreateSwap(creator, counterparty, assetA, amountA, assetB, amountB, expiry, nonce)
      PROVE  [Exchange!Next]_Exchange!vars
  <2> DEFINE s == NewSwap(creator, counterparty, assetA, amountA, assetB, amountB, expiry, nonce)
             t == [creator |-> creator, counterparty |-> counterparty,
                   assetA |-> assetA, amountA |-> amountA, assetB |-> assetB, amountB |-> amountB]
             d == [terms |-> t, phase |-> "open"]
  <2>1. CASE UNCHANGED swaps
    BY <1>6, <1>7, <2>1 DEF CreateSwap
  <2>2. CASE ~ UNCHANGED swaps
    <3>1. /\ swaps' = Append(swaps, s) /\ UNCHANGED balance
          /\ amountA > 0 /\ amountB > 0 /\ assetA # assetB /\ creator # counterparty
      BY <1>7, <2>2 DEF CreateSwap, SaveSwap, TermsOk
    <3>2. /\ s \in Swap /\ ~ s.creatorFunded /\ ~ s.counterpartyFunded
          /\ TermsOf(s) = t /\ Phase(s) = "open"
      BY DEF NewSwap, Swap, SwapState, TermsOf, Phase, Live
    <3> HIDE DEF s
    <3>3. Wealth' = Wealth
      BY <1>0, <3>1, <3>2, OwnedAfterCreate, WealthKept
    <3>4. /\ Len(swaps) \in Nat /\ Ids = 1..Len(swaps) /\ Ids' = 1..(Len(swaps) + 1)
          /\ \A k \in Ids : swaps'[k] = swaps[k]
          /\ swaps'[Len(swaps) + 1] = s
      BY <1>0, <3>1, <3>2 DEF Inv, TypeOK, Ids
    <3>5. Deals' = Append(Deals, d)
      <4>1. Len(Deals) = Len(swaps) /\ Deals \in Seq({Deals[k] : k \in Ids})
        BY <3>4 DEF Deals
      <4>2. Deals' = [k \in 1..(Len(swaps) + 1) |-> [terms |-> TermsOf(swaps'[k]), phase |-> Phase(swaps'[k])]]
        BY <3>4 DEF Deals
      <4>3. \A k \in 1..(Len(swaps) + 1) : Deals'[k] = IF k = Len(swaps) + 1 THEN d ELSE Deals[k]
        BY <3>2, <3>4, <4>2 DEF Deals
      <4> HIDE DEF Deals, d
      <4>4. Append(Deals, d) = [k \in 1..(Len(swaps) + 1) |-> IF k = Len(swaps) + 1 THEN d ELSE Deals[k]]
        BY <3>4, <4>1, AppendIsFunction
      <4> QED BY <4>2, <4>3, <4>4
    <3>6. t \in Exchange!Terms
      BY DEF Exchange!Terms
    <3>7. Exchange!Offer(t)
      BY <3>1, <3>3, <3>5 DEF Exchange!Offer, Deals, Wealth
    <3> QED BY <3>6, <3>7 DEF Exchange!Next
  <2> QED BY <2>1, <2>2
<1>8. ASSUME NEW seconds \in MinExpiries, SetMinExpiry(seconds)
      PROVE  [Exchange!Next]_Exchange!vars
  BY <1>6, <1>8 DEF SetMinExpiry
<1>9. CASE Tick
  BY <1>6, <1>9 DEF Tick
<1>10. ASSUME NEW p \in Parties, NEW a \in Assets, OpenTrustline(p, a) \/ CloseTrustline(p, a)
       PROVE  [Exchange!Next]_Exchange!vars
  BY <1>6, <1>10 DEF OpenTrustline, CloseTrustline
<1>11. CASE UNCHANGED vars
  BY <1>6, <1>11 DEF vars
<1> QED BY <1>2, <1>3, <1>4, <1>5, <1>7, <1>8, <1>9, <1>10, <1>11 DEF Next

\* The atomic-swap contract implements the bilateral exchange.
THEOREM Implementation == Spec => ImplementsExchange
  BY Invariance, RefineInit, RefineStep, PTL DEF Spec, ImplementsExchange, Exchange!Spec
=============================================================================
