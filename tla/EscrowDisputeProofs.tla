------------------------- MODULE EscrowDisputeProofs -------------------------
(***************************************************************************)
(* Safety of the escrow-dispute contract for any number of parties,        *)
(* signers, assets and escrows and any time horizon.                       *)
(***************************************************************************)
EXTENDS EscrowDispute, SequenceLemmas

\* The contract is an account of its own.
LEMMA PartyAccounts == Contract \in Accounts /\ \A p \in Parties : p \in Accounts /\ p # Contract
  BY ContractAssumption DEF Accounts

\* A covered payout.
LEMMA PayoutEffect ==
  ASSUME NEW bal \in Balances, NEW x \in Assets, NEW q \in Parties, NEW m \in Nat,
         bal[x][Contract] >= m
  PROVE  /\ Transfer(bal, x, Contract, q, m) \in Balances
         /\ \A a \in Assets, h \in Accounts :
              Transfer(bal, x, Contract, q, m)[a][h] =
                IF a = x /\ h = Contract THEN bal[a][h] - m
                ELSE IF a = x /\ h = q THEN bal[a][h] + m
                ELSE bal[a][h]
<1>1. Contract \in Accounts /\ q \in Accounts /\ Contract # q
  BY PartyAccounts
<1> QED BY <1>1, MovedAmount DEF Transfer, Balances

\* A covered deposit.
LEMMA DepositEffect ==
  ASSUME NEW bal \in Balances, NEW x \in Assets, NEW q \in Parties, NEW m \in Nat,
         bal[x][q] >= m
  PROVE  /\ Transfer(bal, x, q, Contract, m) \in Balances
         /\ \A a \in Assets, h \in Accounts :
              Transfer(bal, x, q, Contract, m)[a][h] =
                IF a = x /\ h = q THEN bal[a][h] - m
                ELSE IF a = x /\ h = Contract THEN bal[a][h] + m
                ELSE bal[a][h]
<1>1. q \in Accounts /\ Contract \in Accounts /\ q # Contract
  BY PartyAccounts
<1> QED BY <1>1, MovedAmount DEF Transfer, Balances

\* What create_escrow validated stays true of every stored escrow.
TermsValid ==
  \A i \in Ids : escrows[i].amount > 0 /\ escrows[i].seller # escrows[i].buyer

\* record_vote lets nobody vote twice.
OneVotePerSigner ==
  \A i \in EscrowIds : \A v, w \in votes[i] : v.signer = w.signer => v = w

Inv == TypeOK /\ TermsValid /\ CaseMatchesEscrow

\* What the invariant says of one stored escrow.
ValidEscrow(e) ==
  /\ e \in Escrow /\ e.amount \in Nat /\ e.amount > 0
  /\ e.asset \in Assets /\ e.seller \in Parties /\ e.buyer \in Parties
  /\ e.seller # e.buyer /\ e.state \in EscrowState

LEMMA StoredEscrow ==
  ASSUME Inv, NEW i \in Ids
  PROVE  ValidEscrow(escrows[i]) /\ i \in EscrowIds
<1> DEFINE e == escrows[i]
<1>1. e \in Escrow /\ i \in EscrowIds
  BY BoundsAssumption DEF Inv, TypeOK, Ids, EscrowIds
<1>2. e.amount > 0 /\ e.seller # e.buyer
  BY DEF Inv, TermsValid
<1> HIDE DEF e
<1>3. /\ e.amount \in Amounts /\ e.asset \in Assets
      /\ e.seller \in Parties /\ e.buyer \in Parties /\ e.state \in EscrowState
  BY <1>1 DEF Escrow
<1>4. e.amount \in Nat
  <2>1. \A x \in Amounts : x > 0 => x \in Nat
    BY AmountsAssumption
  <2> QED BY <1>2, <1>3, <2>1
<1> QED BY <1>1, <1>2, <1>3, <1>4 DEF ValidEscrow, e
-----------------------------------------------------------------------------
(***************************************************************************)
(* Every call on a stored escrow replaces its state and moves exactly the  *)
(* tokens by which what the record says each account has changes.          *)
(***************************************************************************)
Credit(e, a, h) == IF h = Contract THEN Held(e, a) ELSE Settled(e, a, h)

Moved(i, s) == [escrows[i] EXCEPT !.state = s]

EscrowUpdate(i, s) ==
  /\ i \in Ids
  /\ s \in EscrowState
  /\ SetState(i, s)
  /\ balance' \in Balances
  /\ \A a \in Assets, h \in Accounts :
       balance'[a][h] = balance[a][h] + Credit(Moved(i, s), a, h) - Credit(escrows[i], a, h)
  /\ UNCHANGED <<nonceIndex, configVars, now, trust>>

LEMMA MovedFields ==
  ASSUME Inv, NEW i \in Ids, NEW s \in EscrowState
  PROVE  /\ ValidEscrow(Moved(i, s)) /\ Moved(i, s).state = s
         /\ Moved(i, s).amount = escrows[i].amount /\ Moved(i, s).asset = escrows[i].asset
         /\ Moved(i, s).seller = escrows[i].seller /\ Moved(i, s).buyer = escrows[i].buyer
         /\ Moved(i, s).nonce = escrows[i].nonce
<1> DEFINE e == escrows[i]
<1>1. ValidEscrow(e)
  BY StoredEscrow
<1> HIDE DEF e
<1> DEFINE e2 == [e EXCEPT !.state = s]
<1>2. /\ ValidEscrow(e2) /\ e2.state = s /\ e2.amount = e.amount /\ e2.asset = e.asset
      /\ e2.seller = e.seller /\ e2.buyer = e.buyer /\ e2.nonce = e.nonce
  BY <1>1 DEF ValidEscrow, Escrow
<1> QED BY <1>2 DEF Moved, e

LEMMA FundEffect ==
  ASSUME Inv, NEW i \in Ids, NEW p \in Parties, FundEscrow(i, p)
  PROVE  EscrowUpdate(i, "Escrowed")
<1> DEFINE e == escrows[i]
           e2 == Moved(i, "Escrowed")
<1>1. /\ p = e.buyer /\ e.state = "Created"
      /\ TransferOk(balance, trust, e.asset, p, Contract, e.amount)
      /\ balance' = Transfer(balance, e.asset, p, Contract, e.amount)
      /\ SetState(i, "Escrowed")
      /\ UNCHANGED <<nonceIndex, configVars, now, trust>>
  BY DEF FundEscrow
<1>2. ValidEscrow(e) /\ balance \in Balances
  BY StoredEscrow DEF Inv, TypeOK, Balances
<1>3. /\ e2.state = "Escrowed" /\ e2.amount = e.amount /\ e2.asset = e.asset
      /\ e2.seller = e.seller /\ e2.buyer = e.buyer
  BY MovedFields DEF EscrowState
<1> HIDE DEF e, e2
<1>4. /\ balance' \in Balances
      /\ \A a \in Assets, h \in Accounts :
           balance'[a][h] = IF a = e.asset /\ h = p THEN balance[a][h] - e.amount
                            ELSE IF a = e.asset /\ h = Contract THEN balance[a][h] + e.amount
                            ELSE balance[a][h]
  BY <1>1, <1>2, DepositEffect DEF TransferOk, ValidEscrow
<1>5. ASSUME NEW a \in Assets, NEW h \in Accounts
      PROVE  balance'[a][h] = balance[a][h] + Credit(e2, a, h) - Credit(e, a, h)
  <2>1. balance[a][h] \in Nat
    BY <1>2 DEF Balances
  <2>2. Held(e, a) = 0 /\ Held(e2, a) = IF a = e.asset THEN e.amount ELSE 0
    BY <1>1, <1>3 DEF Held, IsHeld
  <2>3. Settled(e, a, h) = 0
    BY <1>1, <1>2 DEF Settled, IsHeld, ValidEscrow
  <2>4. Settled(e2, a, h) = IF a = e.asset /\ h = p THEN - e.amount ELSE 0
    BY <1>1, <1>2, <1>3 DEF Settled, IsHeld, ValidEscrow
  <2> QED BY <1>1, <1>2, <1>4, <2>1, <2>2, <2>3, <2>4, PartyAccounts DEF Credit, ValidEscrow
<1> QED BY <1>1, <1>4, <1>5 DEF EscrowUpdate, EscrowState, e, e2

\* Resolution and automatic refund: only an escrow in dispute is closed.
LEMMA CloseEffect ==
  ASSUME Inv, NEW i \in Ids, disputes[i].status = "Open", NEW to, NEW s, NEW status,
         Close(i, to, s, status),
         \/ to = escrows[i].seller /\ s = "Released"
         \/ to = escrows[i].buyer /\ s = "Refunded"
  PROVE  EscrowUpdate(i, s) /\ escrows[i].state = "Disputed"
<1> DEFINE e == escrows[i]
           e2 == Moved(i, s)
<1>1. /\ TransferOk(balance, trust, e.asset, Contract, to, e.amount)
      /\ balance' = Transfer(balance, e.asset, Contract, to, e.amount)
      /\ SetState(i, s)
      /\ UNCHANGED <<nonceIndex, configVars, now, trust>>
  BY DEF Close, CanPayOut
<1>2. ValidEscrow(e) /\ balance \in Balances /\ i \in EscrowIds
  BY StoredEscrow DEF Inv, TypeOK, Balances
<1>3. e.state = "Disputed"
  <2>1. disputes[i].status \in StatusesOf(e.state)
    BY <1>2 DEF Inv, CaseMatchesEscrow
  <2> HIDE DEF e
  <2> QED BY <1>2, <2>1 DEF StatusesOf, ValidEscrow, EscrowState
<1>4. s \in EscrowState
  BY DEF EscrowState
<1>5. /\ e2.state = s /\ e2.amount = e.amount /\ e2.asset = e.asset
      /\ e2.seller = e.seller /\ e2.buyer = e.buyer
  BY <1>4, MovedFields
<1>6. to \in {e.seller, e.buyer} /\ s \in {"Released", "Refunded"} /\ (s = "Released" <=> to = e.seller)
  BY <1>2 DEF ValidEscrow
<1>7. e2 = Moved(i, s) /\ e = escrows[i]
  OBVIOUS
<1> HIDE DEF e, e2
<1>8. /\ balance' \in Balances
      /\ \A a \in Assets, h \in Accounts :
           balance'[a][h] = IF a = e.asset /\ h = Contract THEN balance[a][h] - e.amount
                            ELSE IF a = e.asset /\ h = to THEN balance[a][h] + e.amount
                            ELSE balance[a][h]
  <2>1. to \in Parties
    BY <1>2, <1>6 DEF ValidEscrow
  <2> QED BY <1>1, <1>2, <2>1, PayoutEffect DEF TransferOk, ValidEscrow
<1>9. ASSUME NEW a \in Assets, NEW h \in Accounts
      PROVE  balance'[a][h] = balance[a][h] + Credit(e2, a, h) - Credit(e, a, h)
  <2>1. balance[a][h] \in Nat
    BY <1>2 DEF Balances
  <2>2. Held(e2, a) = 0 /\ Held(e, a) = IF a = e.asset THEN e.amount ELSE 0
    BY <1>3, <1>5, <1>6 DEF Held, IsHeld
  <2>3. Settled(e, a, h) = IF a = e.asset /\ h = e.buyer THEN - e.amount ELSE 0
    BY <1>2, <1>3 DEF Settled, IsHeld, ValidEscrow
  <2>4. Settled(e2, a, h) = IF a # e.asset THEN 0
                            ELSE IF s = "Released" /\ h = e.seller THEN e.amount
                            ELSE IF s = "Released" /\ h = e.buyer THEN - e.amount ELSE 0
    BY <1>2, <1>5, <1>6 DEF Settled, IsHeld, ValidEscrow
  <2>5. e.buyer # Contract /\ e.seller # Contract /\ e.seller # e.buyer /\ e.amount \in Nat
    BY <1>2, PartyAccounts DEF ValidEscrow
  <2>6. CASE h = Contract
    BY <1>6, <1>8, <2>1, <2>2, <2>5, <2>6 DEF Credit
  <2>7. CASE h # Contract /\ a = e.asset
    BY <1>6, <1>8, <2>1, <2>3, <2>4, <2>5, <2>7 DEF Credit
  <2>8. CASE h # Contract /\ a # e.asset
    BY <1>6, <1>8, <2>1, <2>3, <2>4, <2>8 DEF Credit
  <2> QED BY <2>6, <2>7, <2>8
<1> QED BY <1>1, <1>3, <1>4, <1>7, <1>8, <1>9 DEF EscrowUpdate

\* Raising a dispute and cancelling move no tokens.
LEMMA QuietEffect ==
  ASSUME Inv, NEW i \in Ids, NEW s, SetState(i, s), UNCHANGED <<nonceIndex, configVars, now, ledgerVars>>,
         \/ escrows[i].state = "Escrowed" /\ s = "Disputed"
         \/ escrows[i].state = "Created" /\ s = "Refunded"
  PROVE  EscrowUpdate(i, s)
<1> DEFINE e == escrows[i]
           e2 == Moved(i, s)
<1>1. ValidEscrow(e) /\ balance \in Balances
  BY StoredEscrow DEF Inv, TypeOK, Balances
<1>2. s \in EscrowState /\ balance' = balance
  BY DEF EscrowState, ledgerVars
<1>3. /\ e2.state = s /\ e2.amount = e.amount /\ e2.asset = e.asset
      /\ e2.seller = e.seller /\ e2.buyer = e.buyer
  BY <1>2, MovedFields
<1>4. \/ e.state = "Escrowed" /\ s = "Disputed"
      \/ e.state = "Created" /\ s = "Refunded"
  OBVIOUS
<1>5. e2 = Moved(i, s) /\ e = escrows[i]
  OBVIOUS
<1> HIDE DEF e, e2
<1>6. ASSUME NEW a \in Assets, NEW h \in Accounts
      PROVE  balance'[a][h] = balance[a][h] + Credit(e2, a, h) - Credit(e, a, h)
  <2>1. balance[a][h] \in Nat
    BY <1>1 DEF Balances
  <2>2. Held(e2, a) = Held(e, a) /\ Held(e, a) \in Nat
    BY <1>1, <1>3, <1>4 DEF Held, IsHeld, ValidEscrow
  <2>3. Settled(e2, a, h) = Settled(e, a, h) /\ Settled(e, a, h) \in Int
    BY <1>1, <1>3, <1>4 DEF Settled, IsHeld, ValidEscrow
  <2> QED BY <1>2, <2>1, <2>2, <2>3 DEF Credit
<1> QED BY <1>1, <1>2, <1>5, <1>6 DEF EscrowUpdate, ledgerVars
-----------------------------------------------------------------------------
(***************************************************************************)
(* The sums.                                                               *)
(***************************************************************************)
LEMMA CreditInt ==
  ASSUME NEW e \in Escrow, NEW a, NEW p
  PROVE  Held(e, a) \in Int /\ Settled(e, a, p) \in Int /\ Deposit(e, a, p) \in Int
<1>1. e.amount \in Int
  BY AmountsAssumption DEF Escrow
<1> QED BY <1>1 DEF Held, Settled, Deposit

LEMMA StoredAfterUpdate ==
  ASSUME Inv, NEW i, NEW s, EscrowUpdate(i, s)
  PROVE  /\ Len(escrows) \in Nat /\ i \in Ids /\ Ids = 1..Len(escrows)
         /\ Len(escrows') = Len(escrows) /\ Ids' = Ids
         /\ \A k \in Ids : escrows[k] \in Escrow
         /\ Moved(i, s) \in Escrow
         /\ \A k \in Ids : escrows'[k] = IF k = i THEN Moved(i, s) ELSE escrows[k]
         /\ escrows' \in Seq(Escrow)
<1>1. i \in Ids /\ s \in EscrowState
  BY DEF EscrowUpdate
<1>2. Moved(i, s) \in Escrow
  BY <1>1, MovedFields DEF ValidEscrow
<1>3. escrows' = [escrows EXCEPT ![i] = Moved(i, s)]
  BY DEF EscrowUpdate, SetState, Moved
<1>4. escrows \in Seq(Escrow) /\ Len(escrows) \in Nat /\ Ids = 1..Len(escrows)
  BY DEF Inv, TypeOK, Ids
<1> HIDE DEF Moved
<1> QED BY <1>1, <1>2, <1>3, <1>4 DEF Ids

LEMMA SumAfterUpdate ==
  ASSUME Inv, NEW i, NEW s, EscrowUpdate(i, s), NEW a \in Assets
  PROVE  /\ HeldInAll(a)' = HeldInAll(a) + Held(Moved(i, s), a) - Held(escrows[i], a)
         /\ \A p \in Parties :
              SettledInAll(a, p)' = SettledInAll(a, p) + Settled(Moved(i, s), a, p)
                                      - Settled(escrows[i], a, p)
<1> DEFINE n == Len(escrows)
           e2 == Moved(i, s)
<1>1. /\ n \in Nat /\ i \in 1..n /\ Len(escrows') = n /\ e2 \in Escrow
      /\ \A k \in 1..n : escrows[k] \in Escrow
      /\ \A k \in 1..n : escrows'[k] = IF k = i THEN e2 ELSE escrows[k]
  BY StoredAfterUpdate
<1> HIDE DEF n, e2
<1>2. HeldInAll(a)' = HeldInAll(a) + Held(e2, a) - Held(escrows[i], a)
  <2> DEFINE f == [k \in 1..n |-> Held(escrows[k], a)]
             g == [k \in 1..n |-> Held(escrows'[k], a)]
  <2>1. /\ \A k \in 1..n : f[k] \in Int
        /\ \A k \in 1..n : k # i => g[k] = f[k]
        /\ g[i] = Held(e2, a) /\ f[i] = Held(escrows[i], a) /\ g[i] \in Int
    BY <1>1, CreditInt
  <2>2. HeldInAll(a) = Total(f, n) /\ HeldInAll(a)' = Total(g, n)
    BY <1>1 DEF HeldInAll, Ids, n
  <2> HIDE DEF f, g
  <2>3. Total(g, n) = Total(f, n) + g[i] - f[i]
    BY <1>1, <2>1, TotalUpdate
  <2> QED BY <2>1, <2>2, <2>3
<1>3. ASSUME NEW p \in Parties
      PROVE  SettledInAll(a, p)' = SettledInAll(a, p) + Settled(e2, a, p)
                                     - Settled(escrows[i], a, p)
  <2> DEFINE f == [k \in 1..n |-> Settled(escrows[k], a, p)]
             g == [k \in 1..n |-> Settled(escrows'[k], a, p)]
  <2>1. /\ \A k \in 1..n : f[k] \in Int
        /\ \A k \in 1..n : k # i => g[k] = f[k]
        /\ g[i] = Settled(e2, a, p) /\ f[i] = Settled(escrows[i], a, p) /\ g[i] \in Int
    BY <1>1, CreditInt
  <2>2. SettledInAll(a, p) = Total(f, n) /\ SettledInAll(a, p)' = Total(g, n)
    BY <1>1 DEF SettledInAll, Ids, n
  <2> HIDE DEF f, g
  <2>3. Total(g, n) = Total(f, n) + g[i] - f[i]
    BY <1>1, <2>1, TotalUpdate
  <2> QED BY <2>1, <2>2, <2>3
<1> QED BY <1>2, <1>3 DEF e2

\* A new escrow leaves every sum as it was.
LEMMA SumAfterCreate ==
  ASSUME Inv, NEW e \in Escrow, escrows' = Append(escrows, e), e.state = "Created",
         NEW a \in Assets
  PROVE  /\ HeldInAll(a)' = HeldInAll(a)
         /\ \A p \in Parties : SettledInAll(a, p)' = SettledInAll(a, p)
<1> DEFINE n == Len(escrows)
<1>1. /\ n \in Nat /\ Len(escrows') = n + 1
      /\ \A k \in 1..n : escrows[k] \in Escrow /\ escrows'[k] = escrows[k]
      /\ escrows'[n + 1] = e
  BY DEF Inv, TypeOK
<1>2. Held(e, a) = 0 /\ \A p \in Parties : Settled(e, a, p) = 0
  BY DEF Held, Settled, IsHeld
<1> HIDE DEF n
<1>3. HeldInAll(a)' = HeldInAll(a)
  <2> DEFINE f == [k \in 1..n |-> Held(escrows[k], a)]
             g == [k \in 1..(n + 1) |-> Held(escrows'[k], a)]
  <2>1. (\A k \in 1..n : f[k] \in Int /\ g[k] = f[k]) /\ g[n + 1] = 0
    BY <1>1, <1>2, CreditInt
  <2>2. HeldInAll(a) = Total(f, n) /\ HeldInAll(a)' = Total(g, n + 1)
    BY <1>1 DEF HeldInAll, Ids, n
  <2> HIDE DEF f, g
  <2> QED BY <1>1, <2>1, <2>2, TotalAppendZero
<1>4. ASSUME NEW p \in Parties PROVE SettledInAll(a, p)' = SettledInAll(a, p)
  <2> DEFINE f == [k \in 1..n |-> Settled(escrows[k], a, p)]
             g == [k \in 1..(n + 1) |-> Settled(escrows'[k], a, p)]
  <2>1. (\A k \in 1..n : f[k] \in Int /\ g[k] = f[k]) /\ g[n + 1] = 0
    BY <1>1, <1>2, CreditInt
  <2>2. SettledInAll(a, p) = Total(f, n) /\ SettledInAll(a, p)' = Total(g, n + 1)
    BY <1>1 DEF SettledInAll, Ids, n
  <2> HIDE DEF f, g
  <2> QED BY <1>1, <2>1, <2>2, TotalAppendZero
<1> QED BY <1>3, <1>4

LEMMA SumsAreIntegers ==
  ASSUME Inv, NEW a \in Assets
  PROVE  /\ HeldInAll(a) \in Int /\ InitBalance[a][Contract] \in Int
         /\ \A p \in Parties : SettledInAll(a, p) \in Int /\ InitBalance[a][p] \in Int
<1>1. Len(escrows) \in Nat /\ \A k \in 1..Len(escrows) : escrows[k] \in Escrow
  BY DEF Inv, TypeOK
<1>2. HeldInAll(a) \in Int
  BY <1>1, CreditInt, TotalInt DEF HeldInAll, Ids
<1>3. \A p \in Parties : SettledInAll(a, p) \in Int
  BY <1>1, CreditInt, TotalInt DEF SettledInAll, Ids
<1>4. \A h \in Accounts : InitBalance[a][h] \in Int
  BY InitBalanceAssumption
<1> QED BY <1>2, <1>3, <1>4, PartyAccounts
-----------------------------------------------------------------------------
(***************************************************************************)
(* The inductive invariant: the ledger half and the case half.  Solvency   *)
(* needs the case half, because auto_refund and resolve_dispute pay on the *)
(* status of the dispute and not on the state of the escrow.               *)
(***************************************************************************)
Ledger == NonceIndexExact /\ Solvency /\ PartiesReconcile

Cases ==
  /\ EvidenceCounted
  /\ OneVotePerSigner
  /\ \A i \in EscrowIds : IsFiniteSet(votes[i])
  /\ IsFiniteSet(committee.signers)

IInv == Inv /\ Ledger /\ Cases

LEMMA IInvInit == Init => IInv
<1> SUFFICES ASSUME Init PROVE IInv
  OBVIOUS
<1> USE InitBalanceAssumption, InitTrustAssumption
<1>1. TypeOK
  <2>1. NoDispute \in Dispute
    BY DEF NoDispute, Dispute, DisputeStatus
  <2> QED BY <2>1, TimesAssumption, BoundsAssumption
          DEF Init, TypeOK, Committee, EscrowIds
<1>2. Len(escrows) = 0 /\ balance = InitBalance /\ Ids = {}
  BY DEF Init, Ids
<1>3. TermsValid /\ CaseMatchesEscrow
  BY <1>2 DEF Init, TermsValid, CaseMatchesEscrow, NoDispute
<1>4. NonceIndexExact
  BY <1>2 DEF Init, NonceIndexExact
<1>5. Solvency
  <2>1. \A a \in Assets : HeldInAll(a) = 0
    BY <1>2, TotalEmpty DEF HeldInAll
  <2>2. \A a \in Assets : InitBalance[a][Contract] \in Nat
    BY PartyAccounts
  <2> QED BY <1>2, <2>1, <2>2 DEF Solvency
<1>6. PartiesReconcile
  <2> SUFFICES ASSUME NEW a \in Assets, NEW p \in Parties
               PROVE  balance[a][p] = InitBalance[a][p] + SettledInAll(a, p)
    BY DEF PartiesReconcile
  <2>1. SettledInAll(a, p) = 0
    BY <1>2, TotalEmpty DEF SettledInAll
  <2>2. InitBalance[a][p] \in Nat
    BY PartyAccounts
  <2> QED BY <1>2, <2>1, <2>2
<1>7. Cases
  BY FS_EmptySet DEF Init, Cases, EvidenceCounted, OneVotePerSigner, NoDispute
<1> QED BY <1>1, <1>3, <1>4, <1>5, <1>6, <1>7 DEF IInv, Inv, Ledger

\* A call on a stored escrow keeps the ledger half.
LEMMA LedgerAfterUpdate ==
  ASSUME Inv, Ledger, NEW i, NEW s, EscrowUpdate(i, s)
  PROVE  TermsValid' /\ Ledger'
<1> DEFINE e2 == Moved(i, s)
<1>1. /\ i \in Ids /\ Ids' = Ids
      /\ \A k \in Ids : escrows[k] \in Escrow
      /\ \A k \in Ids : escrows'[k] = IF k = i THEN e2 ELSE escrows[k]
  BY StoredAfterUpdate
<1>2. /\ ValidEscrow(e2) /\ e2.seller = escrows[i].seller /\ e2.buyer = escrows[i].buyer
      /\ e2.amount = escrows[i].amount /\ e2.nonce = escrows[i].nonce
  BY <1>1, MovedFields DEF EscrowUpdate
<1>3. \A a \in Assets, h \in Accounts :
        balance'[a][h] = balance[a][h] + Credit(e2, a, h) - Credit(escrows[i], a, h)
  BY DEF EscrowUpdate
<1>4. \A a \in Assets, h \in Accounts :
        /\ Held(e2, a) \in Int /\ Held(escrows[i], a) \in Int
        /\ Settled(e2, a, h) \in Int /\ Settled(escrows[i], a, h) \in Int
  BY <1>1, <1>2, CreditInt DEF ValidEscrow
<1>5. \A a \in Assets :
        /\ HeldInAll(a)' = HeldInAll(a) + Held(e2, a) - Held(escrows[i], a)
        /\ \A p \in Parties :
             SettledInAll(a, p)' = SettledInAll(a, p) + Settled(e2, a, p)
                                     - Settled(escrows[i], a, p)
  BY SumAfterUpdate
<1> HIDE DEF e2
<1>6. TermsValid'
  BY <1>1, <1>2 DEF Inv, TermsValid
<1>7. NonceIndexExact'
  <2>1. nonceIndex' = nonceIndex
    BY DEF EscrowUpdate
  <2>2. \A k \in Ids : /\ escrows'[k].seller = escrows[k].seller
                       /\ escrows'[k].nonce = escrows[k].nonce
    BY <1>1, <1>2
  <2> QED BY <1>1, <2>1, <2>2 DEF NonceIndexExact, Ledger
<1>8. Solvency'
  <2> SUFFICES ASSUME NEW a \in Assets
               PROVE  balance'[a][Contract] = InitBalance[a][Contract] + HeldInAll(a)'
    BY DEF Solvency
  <2>1. balance'[a][Contract] = balance[a][Contract] + Held(e2, a) - Held(escrows[i], a)
    BY <1>3, PartyAccounts DEF Credit
  <2>2. balance[a][Contract] = InitBalance[a][Contract] + HeldInAll(a)
    BY DEF Solvency, Ledger
  <2>3. Held(e2, a) \in Int /\ Held(escrows[i], a) \in Int
    BY <1>4, PartyAccounts
  <2>4. HeldInAll(a) \in Int /\ InitBalance[a][Contract] \in Int
    BY SumsAreIntegers
  <2> QED BY <1>5, <2>1, <2>2, <2>3, <2>4
<1>9. PartiesReconcile'
  <2> SUFFICES ASSUME NEW a \in Assets, NEW p \in Parties
               PROVE  balance'[a][p] = InitBalance[a][p] + SettledInAll(a, p)'
    BY DEF PartiesReconcile
  <2>1. balance'[a][p] = balance[a][p] + Settled(e2, a, p) - Settled(escrows[i], a, p)
    BY <1>3, PartyAccounts DEF Credit
  <2>2. balance[a][p] = InitBalance[a][p] + SettledInAll(a, p)
    BY DEF PartiesReconcile, Ledger
  <2>3. Settled(e2, a, p) \in Int /\ Settled(escrows[i], a, p) \in Int
    BY <1>4, PartyAccounts
  <2>4. SettledInAll(a, p) \in Int /\ InitBalance[a][p] \in Int
    BY SumsAreIntegers
  <2> QED BY <1>5, <2>1, <2>2, <2>3, <2>4
<1> QED BY <1>6, <1>7, <1>8, <1>9 DEF Ledger

\* A step that leaves the escrows, the index and the balances alone keeps it too.
LEMMA LedgerStutter ==
  ASSUME Inv, Ledger, UNCHANGED <<escrows, nonceIndex, balance>>
  PROVE  TermsValid' /\ Ledger'
  BY DEF Inv, TermsValid, Ledger, NonceIndexExact, Solvency, PartiesReconcile,
         HeldInAll, SettledInAll, Ids

LEMMA IInvCreate ==
  ASSUME IInv, NEW seller \in Parties, NEW buyer \in Parties, NEW asset \in Assets,
         NEW amount \in Amounts, NEW timelock \in Timelocks, NEW nonce \in Nonces,
         CreateEscrow(seller, buyer, asset, amount, timelock, nonce)
  PROVE  IInv'
<1>1. Inv /\ TypeOK /\ Ledger /\ Cases
  BY DEF IInv, Inv
<1>2. UNCHANGED <<caseVars, configVars, now, ledgerVars>>
  BY DEF CreateEscrow
<1>3. Cases'
  BY <1>1, <1>2 DEF Cases, EvidenceCounted, OneVotePerSigner, caseVars, configVars
<1>4. CASE UNCHANGED <<escrows, nonceIndex>>
  <2>1. TermsValid' /\ Ledger'
    BY <1>1, <1>2, <1>4, LedgerStutter DEF ledgerVars
  <2>2. TypeOK' /\ CaseMatchesEscrow'
    BY <1>1, <1>2, <1>4
    DEF Inv, TypeOK, CaseMatchesEscrow, Ids, caseVars, configVars, ledgerVars
  <2> QED BY <1>3, <2>1, <2>2 DEF IInv, Inv
<1>5. CASE ~ UNCHANGED <<escrows, nonceIndex>>
  <2> DEFINE e == NewEscrow(seller, buyer, asset, amount, nonce)
             n == Len(escrows)
  <2>1. /\ nonceIndex[<<seller, nonce>>] = 0 /\ n < MaxEscrows
        /\ escrows' = Append(escrows, e)
        /\ nonceIndex' = [nonceIndex EXCEPT ![<<seller, nonce>>] = n + 1]
        /\ amount > 0 /\ seller # buyer
    BY <1>5 DEF CreateEscrow, SaveEscrow, NewEscrow
  <2>2. /\ e \in Escrow /\ e.seller = seller /\ e.buyer = buyer
        /\ e.amount = amount /\ e.nonce = nonce /\ e.state = "Created"
    BY DEF NewEscrow, Escrow, EscrowState
  <2> HIDE DEF e
  <2>3. /\ n \in Nat /\ Ids' = Ids \cup {n + 1} /\ n + 1 \notin Ids /\ n + 1 # 0
        /\ escrows' \in Seq(Escrow) /\ Len(escrows') <= MaxEscrows
        /\ \A j \in Ids : escrows'[j] = escrows[j] /\ escrows[j] \in Escrow
        /\ escrows'[n + 1] = e
    BY <1>1, <2>1, <2>2, BoundsAssumption DEF TypeOK, Ids
  <2> HIDE DEF n
  <2>4. TypeOK'
    BY <1>1, <1>2, <2>1, <2>3 DEF TypeOK, caseVars, configVars, ledgerVars
  <2>5. TermsValid'
    BY <1>1, <2>1, <2>2, <2>3 DEF TermsValid, Inv
  <2>6. CaseMatchesEscrow'
    <3>1. \A i \in EscrowIds : i = n + 1 => disputes[i].status = "None"
      BY <1>1, <2>3 DEF Inv, CaseMatchesEscrow
    <3> QED BY <1>1, <1>2, <2>2, <2>3, <3>1 DEF Inv, CaseMatchesEscrow, StatusesOf, caseVars
  <2>7. NonceIndexExact'
    <3>0. /\ nonceIndex \in [Parties \X Nonces -> Nat] /\ NonceIndexExact
          /\ <<seller, nonce>> \in Parties \X Nonces
      BY <1>1 DEF TypeOK, Ledger
    <3>1. ASSUME NEW j \in Ids'
          PROVE  nonceIndex'[<<escrows'[j].seller, escrows'[j].nonce>>] = j
      <4>1. CASE j = n + 1
        BY <2>1, <2>2, <2>3, <3>0, <4>1
      <4>2. CASE j \in Ids
        <5>1. nonceIndex[<<escrows[j].seller, escrows[j].nonce>>] = j /\ j # 0
          BY <3>0, <4>2 DEF NonceIndexExact, Ids
        <5>2. <<escrows[j].seller, escrows[j].nonce>> # <<seller, nonce>>
          BY <2>1, <5>1
        <5>3. <<escrows[j].seller, escrows[j].nonce>> \in Parties \X Nonces
          <6>1. escrows[j] \in Escrow
            BY <2>3, <4>2
          <6> QED BY <6>1 DEF Escrow
        <5>4. nonceIndex'[<<escrows[j].seller, escrows[j].nonce>>] = j
          BY <2>1, <3>0, <5>1, <5>2, <5>3
        <5> QED BY <2>3, <4>2, <5>4
      <4> QED BY <2>3, <4>1, <4>2
    <3>2. ASSUME NEW p \in Parties, NEW m \in Nonces, nonceIndex'[<<p, m>>] # 0
          PROVE  /\ nonceIndex'[<<p, m>>] \in Ids'
                 /\ escrows'[nonceIndex'[<<p, m>>]].seller = p
                 /\ escrows'[nonceIndex'[<<p, m>>]].nonce = m
      <4>1. CASE <<p, m>> = <<seller, nonce>>
        <5>1. nonceIndex'[<<p, m>>] = n + 1 /\ p = seller /\ m = nonce
          BY <2>1, <3>0, <4>1
        <5> QED BY <2>2, <2>3, <5>1
      <4>2. CASE <<p, m>> # <<seller, nonce>>
        <5>1. nonceIndex'[<<p, m>>] = nonceIndex[<<p, m>>]
          BY <2>1, <3>0, <4>2
        <5>2. /\ nonceIndex[<<p, m>>] \in Ids
              /\ escrows[nonceIndex[<<p, m>>]].seller = p
              /\ escrows[nonceIndex[<<p, m>>]].nonce = m
          BY <3>0, <3>2, <5>1 DEF NonceIndexExact
        <5> QED BY <2>3, <5>1, <5>2
      <4> QED BY <4>1, <4>2
    <3> QED BY <3>1, <3>2 DEF NonceIndexExact
  <2>8. \A a \in Assets : /\ HeldInAll(a)' = HeldInAll(a)
                          /\ \A p \in Parties : SettledInAll(a, p)' = SettledInAll(a, p)
    BY <1>1, <2>1, <2>2, SumAfterCreate
  <2>9. Solvency' /\ PartiesReconcile'
    BY <1>1, <1>2, <2>8 DEF Ledger, Solvency, PartiesReconcile, ledgerVars
  <2> QED BY <1>3, <2>4, <2>5, <2>6, <2>7, <2>9 DEF IInv, Inv, Ledger
<1> QED BY <1>4, <1>5

\* A call that moves an escrow's state and its dispute together keeps them agreeing.
LEMMA CaseUpdate ==
  ASSUME IInv, NEW i, NEW s, EscrowUpdate(i, s), NEW d \in Dispute,
         disputes' = [disputes EXCEPT ![i] = d], UNCHANGED <<votes, evidence>>,
         d.status \in StatusesOf(s), d.status = "None" => disputes[i].status = "None",
         d.evidenceCount = disputes[i].evidenceCount
  PROVE  IInv'
<1>1. Inv /\ TypeOK /\ Ledger /\ Cases
  BY DEF IInv, Inv
<1>2. TermsValid' /\ Ledger'
  BY <1>1, LedgerAfterUpdate
<1>3. /\ i \in Ids /\ Ids' = Ids /\ Len(escrows') = Len(escrows)
      /\ escrows' \in Seq(Escrow)
      /\ \A k \in Ids : escrows'[k] = IF k = i THEN Moved(i, s) ELSE escrows[k]
  BY <1>1, StoredAfterUpdate
<1>4. i \in EscrowIds /\ Moved(i, s).state = s
  BY <1>1, <1>3, StoredEscrow, MovedFields DEF EscrowUpdate
<1>5. /\ disputes' \in [EscrowIds -> Dispute]
      /\ \A k \in EscrowIds : disputes'[k] = IF k = i THEN d ELSE disputes[k]
  BY <1>1, <1>4 DEF TypeOK
<1>6. UNCHANGED <<nonceIndex, configVars, now, trust>> /\ balance' \in Balances
  BY DEF EscrowUpdate
<1>7. TypeOK'
  BY <1>1, <1>3, <1>5, <1>6 DEF TypeOK, Balances, configVars
<1>8. CaseMatchesEscrow'
  BY <1>1, <1>3, <1>4, <1>5 DEF Inv, CaseMatchesEscrow
<1>9. Cases'
  BY <1>1, <1>4, <1>5, <1>6 DEF Cases, EvidenceCounted, OneVotePerSigner, configVars
<1> QED BY <1>2, <1>7, <1>8, <1>9 DEF IInv, Inv

\* fund_escrow and cancel_escrow: the escrow had no dispute, and has none.
LEMMA IInvUndisputed ==
  ASSUME IInv, NEW i, NEW s, EscrowUpdate(i, s), UNCHANGED caseVars,
         escrows[i].state = "Created", s \in {"Escrowed", "Refunded"}
  PROVE  IInv'
<1>1. Inv /\ TypeOK /\ i \in Ids
  BY DEF IInv, Inv, EscrowUpdate
<1>2. i \in EscrowIds /\ disputes[i].status = "None"
  BY <1>1, StoredEscrow DEF Inv, CaseMatchesEscrow, StatusesOf
<1>3. disputes[i] \in Dispute /\ disputes' = [disputes EXCEPT ![i] = disputes[i]]
  BY <1>1, <1>2 DEF TypeOK, caseVars
<1>4. disputes[i].status \in StatusesOf(s)
  BY <1>2 DEF StatusesOf
<1> QED BY <1>2, <1>3, <1>4, CaseUpdate DEF caseVars

LEMMA IInvClose ==
  ASSUME IInv, NEW i \in Ids, disputes[i].status = "Open", NEW to, NEW s, NEW status,
         Close(i, to, s, status),
         \/ to = escrows[i].seller /\ s = "Released" /\ status = "ResolvedRelease"
         \/ to = escrows[i].buyer /\ s = "Refunded" /\ status \in {"ResolvedRefund", "AutoRefunded"}
  PROVE  IInv'
<1>1. Inv /\ TypeOK /\ i \in EscrowIds
  BY StoredEscrow DEF IInv, Inv
<1>2. EscrowUpdate(i, s)
  BY <1>1, CloseEffect
<1> DEFINE d == [disputes[i] EXCEPT !.status = status]
<1>3. disputes' = [disputes EXCEPT ![i] = d] /\ UNCHANGED <<votes, evidence>>
  BY DEF Close
<1>4. disputes[i] \in Dispute /\ status \in DisputeStatus
  BY <1>1 DEF TypeOK, DisputeStatus
<1>5. d \in Dispute /\ d.status = status /\ d.evidenceCount = disputes[i].evidenceCount
  BY <1>4 DEF Dispute
<1>6. status \in StatusesOf(s) /\ status # "None"
  BY DEF StatusesOf
<1> HIDE DEF d
<1> QED BY <1>2, <1>3, <1>5, <1>6, CaseUpdate

LEMMA IInvRaise ==
  ASSUME IInv, NEW i \in Ids, NEW p \in Parties, NEW window \in Windows,
         RaiseDispute(i, p, window)
  PROVE  IInv'
<1>1. Inv /\ TypeOK /\ i \in EscrowIds /\ Cases
  BY StoredEscrow DEF IInv, Inv
<1>2. EscrowUpdate(i, "Disputed")
  BY <1>1, QuietEffect DEF RaiseDispute
<1> DEFINE d == [NoDispute EXCEPT !.status = "Open", !.deadline = SaturatingAdd(now, window)]
<1>3. disputes' = [disputes EXCEPT ![i] = d] /\ UNCHANGED <<votes, evidence>>
  BY DEF RaiseDispute
<1>4. SaturatingAdd(now, window) \in Nat
  BY <1>1, TimesAssumption, BoundsAssumption DEF TypeOK, SaturatingAdd
<1>5. d \in Dispute /\ d.status = "Open" /\ d.evidenceCount = 0
  BY <1>4 DEF NoDispute, Dispute, DisputeStatus
<1>6. evidence[i] = << >>
  BY <1>1 DEF RaiseDispute, Inv, CaseMatchesEscrow, StatusesOf
<1>7. d.evidenceCount = disputes[i].evidenceCount
  BY <1>1, <1>5, <1>6 DEF Cases, EvidenceCounted
<1>8. "Open" \in StatusesOf("Disputed")
  BY DEF StatusesOf
<1> HIDE DEF d
<1> QED BY <1>2, <1>3, <1>5, <1>7, <1>8, CaseUpdate

LEMMA IInvEvidence ==
  ASSUME IInv, NEW i \in Ids, NEW p \in Parties, SubmitEvidence(i, p)
  PROVE  IInv'
<1>1. Inv /\ TypeOK /\ Ledger /\ Cases /\ i \in EscrowIds
  BY StoredEscrow DEF IInv, Inv
<1>2. /\ disputes' = [disputes EXCEPT ![i].evidenceCount = @ + 1]
      /\ evidence' = [evidence EXCEPT ![i] = Append(@, p)]
      /\ disputes[i].status = "Open"
      /\ UNCHANGED <<escrows, nonceIndex, votes, configVars, now, ledgerVars>>
  BY DEF SubmitEvidence
<1> DEFINE d == [disputes[i] EXCEPT !.evidenceCount = @ + 1]
<1>3. disputes[i] \in Dispute /\ evidence[i] \in Seq(Parties)
  BY <1>1 DEF TypeOK
<1>4. d \in Dispute /\ d.status = "Open" /\ d.evidenceCount = disputes[i].evidenceCount + 1
  BY <1>2, <1>3 DEF Dispute
<1>5. disputes' = [disputes EXCEPT ![i] = d]
  BY <1>2
<1> HIDE DEF d
<1>6. /\ disputes' \in [EscrowIds -> Dispute]
      /\ \A k \in EscrowIds : disputes'[k] = IF k = i THEN d ELSE disputes[k]
  BY <1>1, <1>4, <1>5 DEF TypeOK
<1>7. /\ evidence' \in [EscrowIds -> Seq(Parties)]
      /\ \A k \in EscrowIds : evidence'[k] = IF k = i THEN Append(evidence[i], p) ELSE evidence[k]
      /\ Len(Append(evidence[i], p)) = Len(evidence[i]) + 1
  BY <1>1, <1>2, <1>3 DEF TypeOK
<1>8. TermsValid' /\ Ledger'
  BY <1>1, <1>2, LedgerStutter DEF ledgerVars
<1>9. TypeOK'
  BY <1>1, <1>2, <1>6, <1>7 DEF TypeOK, configVars, ledgerVars
<1>10. CaseMatchesEscrow'
  BY <1>1, <1>2, <1>4, <1>6, <1>7 DEF Inv, CaseMatchesEscrow, Ids
<1>11. Cases'
  BY <1>1, <1>2, <1>4, <1>6, <1>7 DEF Cases, EvidenceCounted, OneVotePerSigner, configVars
<1> QED BY <1>8, <1>9, <1>10, <1>11 DEF IInv, Inv

LEMMA IInvVote ==
  ASSUME IInv, NEW i \in Ids, NEW p \in Parties, NEW release \in BOOLEAN, Vote(i, p, release)
  PROVE  IInv'
<1>1. Inv /\ TypeOK /\ Ledger /\ Cases /\ i \in EscrowIds
  BY StoredEscrow DEF IInv, Inv
<1> DEFINE v == [signer |-> p, release |-> release]
<1>2. /\ disputes[i].status = "Open"
      /\ \A w \in votes[i] : w.signer # p
      /\ votes' = [votes EXCEPT ![i] = @ \cup {v}]
      /\ UNCHANGED <<escrows, nonceIndex, disputes, evidence, configVars, now, ledgerVars>>
  BY DEF Vote, NotVoted
<1>3. v \in DisputeVote /\ v.signer = p
  BY DEF DisputeVote
<1> HIDE DEF v
<1>4. /\ votes' \in [EscrowIds -> SUBSET DisputeVote]
      /\ \A k \in EscrowIds : votes'[k] = IF k = i THEN votes[i] \cup {v} ELSE votes[k]
  BY <1>1, <1>2, <1>3 DEF TypeOK
<1>5. TermsValid' /\ Ledger'
  BY <1>1, <1>2, LedgerStutter DEF ledgerVars
<1>6. TypeOK'
  BY <1>1, <1>2, <1>4 DEF TypeOK, configVars, ledgerVars
<1>7. CaseMatchesEscrow'
  BY <1>1, <1>2, <1>4 DEF Inv, CaseMatchesEscrow, Ids
<1>8. \A k \in EscrowIds : IsFiniteSet(votes'[k])
  <2>1. \A k \in EscrowIds : IsFiniteSet(votes[k])
    BY <1>1 DEF Cases
  <2>2. IsFiniteSet(votes[i] \cup {v})
    BY <1>1, <2>1, FS_AddElement
  <2> QED BY <1>4, <2>1, <2>2
<1>9. OneVotePerSigner'
  BY <1>1, <1>2, <1>3, <1>4 DEF Cases, OneVotePerSigner
<1>10. Cases'
  BY <1>1, <1>2, <1>8, <1>9 DEF Cases, EvidenceCounted, configVars
<1> QED BY <1>5, <1>6, <1>7, <1>10 DEF IInv, Inv

\* The other calls and the environment leave escrows and cases alone.
LEMMA IInvStutter ==
  ASSUME IInv, UNCHANGED <<escrows, nonceIndex, caseVars, balance>>,
         committee' \in Committee, IsFiniteSet(committee'.signers),
         minTimelock' \in Nat, disputeWindow' \in Nat, now' \in 0..MaxTime,
         trust' \in SUBSET (Parties \X Assets)
  PROVE  IInv'
<1>1. Inv /\ TypeOK /\ Ledger /\ Cases
  BY DEF IInv, Inv
<1>2. TermsValid' /\ Ledger'
  BY <1>1, LedgerStutter
<1>3. TypeOK' /\ CaseMatchesEscrow'
  BY <1>1 DEF Inv, TypeOK, CaseMatchesEscrow, Ids, caseVars
<1>4. Cases'
  BY <1>1 DEF Cases, EvidenceCounted, OneVotePerSigner, caseVars
<1> QED BY <1>2, <1>3, <1>4 DEF IInv, Inv

LEMMA CommitteeTyped ==
  ASSUME NEW c \in Committees
  PROVE  /\ [signers |-> AllSigners(c), threshold |-> c.threshold] \in Committee
         /\ IsFiniteSet(AllSigners(c))
<1> DEFINE q == c.signers
           n == Len(q)
           T == {q[k] : k \in 1..n}
           f == [k \in 1..n |-> q[k]]
<1>1. c.admin \in Parties /\ q \in Seq(Parties) /\ c.threshold \in Nat
  BY CommitteesAssumption
<1>2. n \in Nat /\ T \subseteq Parties
  BY <1>1
<1> HIDE DEF n
<1>3. f \in Surjection(1..n, T)
  BY DEF Surjection
<1>4. IsFiniteSet(1..n)
  BY <1>2, FS_Interval
<1> HIDE DEF f
<1>5. IsFiniteSet(T)
  BY <1>3, <1>4, FS_Surjection
<1>6. AllSigners(c) = {c.admin} \cup T
  BY DEF AllSigners, n
<1> HIDE DEF T
<1>7. IsFiniteSet(T \cup {c.admin})
  BY <1>5, FS_AddElement
<1>8. AllSigners(c) = T \cup {c.admin} /\ AllSigners(c) \subseteq Parties
  BY <1>1, <1>2, <1>6
<1> QED BY <1>1, <1>7, <1>8 DEF Committee

LEMMA IInvStep == IInv /\ [Next]_vars => IInv'
<1> SUFFICES ASSUME IInv, [Next]_vars PROVE IInv'
  OBVIOUS
<1>0. Inv /\ TypeOK /\ IsFiniteSet(committee.signers)
  BY DEF IInv, Inv, Cases
<1>1. ASSUME NEW c \in Committees, NEW window \in Windows, Initialize(c, window) PROVE IInv'
  <2>1. committee' = [signers |-> AllSigners(c), threshold |-> c.threshold]
    BY <1>1 DEF Initialize
  <2>2. committee' \in Committee /\ IsFiniteSet(committee'.signers)
    BY <2>1, CommitteeTyped
  <2>3. window \in Nat
    BY TimesAssumption
  <2> QED BY <1>0, <1>1, <2>2, <2>3, IInvStutter DEF Initialize, TypeOK, ledgerVars
<1>2. ASSUME NEW seller \in Parties, NEW buyer \in Parties, NEW asset \in Assets,
             NEW amount \in Amounts, NEW timelock \in Timelocks, NEW nonce \in Nonces,
             CreateEscrow(seller, buyer, asset, amount, timelock, nonce)
      PROVE  IInv'
  BY <1>2, IInvCreate
<1>3. ASSUME NEW i \in Ids, NEW p \in Parties, FundEscrow(i, p) PROVE IInv'
  <2>1. EscrowUpdate(i, "Escrowed")
    BY <1>0, <1>3, FundEffect
  <2> QED BY <1>3, <2>1, IInvUndisputed DEF FundEscrow
<1>4. ASSUME NEW i \in Ids, NEW p \in Parties, NEW window \in Windows, RaiseDispute(i, p, window)
      PROVE  IInv'
  BY <1>4, IInvRaise
<1>5. ASSUME NEW i \in Ids, NEW p \in Parties, SubmitEvidence(i, p) PROVE IInv'
  BY <1>5, IInvEvidence
<1>6. ASSUME NEW i \in Ids, NEW p \in Parties, NEW release \in BOOLEAN, Vote(i, p, release)
      PROVE  IInv'
  BY <1>6, IInvVote
<1>7. ASSUME NEW i \in Ids, NEW p \in Parties, ResolveDispute(i, p) PROVE IInv'
  BY <1>7, IInvClose DEF ResolveDispute
<1>8. ASSUME NEW i \in Ids, AutoRefund(i) PROVE IInv'
  BY <1>8, IInvClose DEF AutoRefund, AutoRefundDue
<1>9. ASSUME NEW i \in Ids, NEW p \in Parties, CancelEscrow(i, p) PROVE IInv'
  <2>1. EscrowUpdate(i, "Refunded")
    BY <1>0, <1>9, QuietEffect DEF CancelEscrow
  <2> QED BY <1>9, <2>1, IInvUndisputed DEF CancelEscrow
<1>10. ASSUME NEW seconds \in Windows, SetDisputeWindow(seconds) PROVE IInv'
  <2>1. seconds \in Nat
    BY TimesAssumption
  <2> QED BY <1>0, <1>10, <2>1, IInvStutter DEF SetDisputeWindow, TypeOK, ledgerVars
<1>11. ASSUME NEW seconds \in Timelocks, SetMinTimelock(seconds) PROVE IInv'
  <2>1. seconds \in Nat
    BY TimesAssumption
  <2> QED BY <1>0, <1>11, <2>1, IInvStutter DEF SetMinTimelock, TypeOK, ledgerVars
<1>12. CASE Tick
  BY <1>0, <1>12, IInvStutter, BoundsAssumption DEF Tick, TypeOK, configVars, ledgerVars
<1>13. ASSUME NEW p \in Parties, NEW a \in Assets, OpenTrustline(p, a) \/ CloseTrustline(p, a)
       PROVE  IInv'
  BY <1>0, <1>13, IInvStutter DEF OpenTrustline, CloseTrustline, TypeOK, configVars
<1>14. CASE UNCHANGED vars
  BY <1>0, <1>14, IInvStutter DEF vars, TypeOK, configVars, ledgerVars
<1> QED BY <1>1, <1>2, <1>3, <1>4, <1>5, <1>6, <1>7, <1>8, <1>9, <1>10, <1>11, <1>12, <1>13,
           <1>14 DEF Next

\* The invariant holds throughout every behaviour.
LEMMA Invariance == Spec => []IInv
  BY IInvInit, IInvStep, PTL DEF Spec
-----------------------------------------------------------------------------
(***************************************************************************)
(* Consequences.                                                           *)
(***************************************************************************)

\* No account is ever overdrawn and every stored record is well typed.
THEOREM TypeCorrect == Spec => []TypeOK
<1>1. IInv => TypeOK
  BY DEF IInv, Inv, Ledger, Cases
<1> QED BY Invariance, <1>1, PTL

\* The dispute map and the escrow map never disagree.
THEOREM CaseMatchesEscrowAlways == Spec => []CaseMatchesEscrow
<1>1. IInv => CaseMatchesEscrow
  BY DEF IInv, Inv, Ledger, Cases
<1> QED BY Invariance, <1>1, PTL

\* No seller has two escrows under one nonce.
THEOREM NonceIndexExactAlways == Spec => []NonceIndexExact
<1>1. IInv => NonceIndexExact
  BY DEF IInv, Inv, Ledger, Cases
<1> QED BY Invariance, <1>1, PTL

\* The evidence counters count the evidence lists.
THEOREM EvidenceCountedAlways == Spec => []EvidenceCounted
<1>1. IInv => EvidenceCounted
  BY DEF IInv, Inv, Ledger, Cases
<1> QED BY Invariance, <1>1, PTL

\* The contract holds exactly the deposits of the escrows that still hold one.
THEOREM SolvencyAlways == Spec => []Solvency
<1>1. IInv => Solvency
  BY DEF IInv, Inv, Ledger, Cases
<1> QED BY Invariance, <1>1, PTL

\* Every party's balance is explained by the states of its escrows.
THEOREM PartiesReconcileAlways == Spec => []PartiesReconcile
<1>1. IInv => PartiesReconcile
  BY DEF IInv, Inv, Ledger, Cases
<1> QED BY Invariance, <1>1, PTL

\* The deposit of a held escrow is in the contract's account.
LEMMA DepositCovered ==
  ASSUME IInv, NEW i \in Ids, IsHeld(escrows[i])
  PROVE  escrows[i].amount <= balance[escrows[i].asset][Contract]
<1> DEFINE n == Len(escrows)
           a == escrows[i].asset
           f == [k \in 1..n |-> Held(escrows[k], a)]
<1>1. n \in Nat /\ i \in 1..n /\ Inv /\ Ids = 1..n
  BY DEF IInv, Inv, TypeOK, Ids
<1>2. \A k \in 1..n : ValidEscrow(escrows[k])
  BY <1>1, StoredEscrow
<1>3. a \in Assets
  BY <1>1, <1>2 DEF ValidEscrow
<1>4. \A k \in 1..n : f[k] \in Nat
  BY <1>2 DEF Held, ValidEscrow
<1>5. HeldInAll(a) = Total(f, n) /\ f[i] = escrows[i].amount /\ escrows[i].amount \in Nat
  BY <1>1, <1>2 DEF HeldInAll, Ids, Held, ValidEscrow
<1>6. balance[a][Contract] = InitBalance[a][Contract] + HeldInAll(a)
  BY <1>3 DEF IInv, Ledger, Solvency
<1>7. InitBalance[a][Contract] \in Nat
  BY <1>3, InitBalanceAssumption, PartyAccounts
<1> HIDE DEF f, n, a
<1>8. Total(f, n) \in Nat /\ f[i] <= Total(f, n)
  BY <1>1, <1>4, TotalDominates
<1>9. escrows[i].amount <= balance[a][Contract]
  BY <1>1, <1>4, <1>5, <1>6, <1>7, <1>8
<1> QED BY <1>9 DEF a

\* A disputed deposit can be paid to whichever party holds a trustline.
THEOREM HeldFundsCoveredAlways == Spec => []HeldFundsCovered
<1>1. ASSUME IInv PROVE HeldFundsCovered
  <2> SUFFICES ASSUME NEW i \in Ids, NEW p \in {escrows[i].seller, escrows[i].buyer},
                      escrows[i].state = "Disputed" \/ disputes[i].status = "Open",
                      HasTrustline(trust, p, escrows[i].asset)
               PROVE  CanPayOut(escrows[i], p)
    BY DEF HeldFundsCovered
  <2> DEFINE e == escrows[i]
  <2>1. ValidEscrow(e) /\ i \in EscrowIds /\ balance \in Balances
    BY <1>1, StoredEscrow DEF IInv, Inv, TypeOK, Balances
  <2>2. disputes[i].status \in StatusesOf(e.state)
    BY <1>1, <2>1 DEF IInv, Inv, CaseMatchesEscrow
  <2>3. e.state = "Disputed"
    <3> HIDE DEF e
    <3>1. e.state = "Disputed" \/ disputes[i].status = "Open"
      BY DEF e
    <3> QED BY <2>1, <2>2, <3>1 DEF StatusesOf, ValidEscrow, EscrowState
  <2>4. e.amount <= balance[e.asset][Contract]
    BY <1>1, <2>3, DepositCovered DEF IsHeld
  <2>5. balance[e.asset][Contract] \in Nat /\ e.amount \in Nat
    BY <2>1, PartyAccounts DEF ValidEscrow, Balances
  <2>6. HasTrustline(trust, p, e.asset) /\ HasTrustline(trust, Contract, e.asset)
    BY DEF HasTrustline
  <2> HIDE DEF e
  <2>7. TransferOk(balance, trust, e.asset, Contract, p, e.amount)
    BY <2>4, <2>5, <2>6 DEF TransferOk
  <2> QED BY <2>7 DEF CanPayOut, e
<1> QED BY Invariance, <1>1, PTL

\* As many signers voted each way as there are votes that way.
LEMMA VotersCounted ==
  ASSUME IInv, NEW i \in EscrowIds, NEW release \in BOOLEAN
  PROVE  /\ IsFiniteSet(VotersFor(i, release))
         /\ Cardinality(VotersFor(i, release)) = Cardinality(VotesFor(i, release))
<1> DEFINE V == VotesFor(i, release)
           P == VotersFor(i, release)
           f == [v \in V |-> v.signer]
<1>1. votes[i] \subseteq DisputeVote /\ IsFiniteSet(votes[i])
  BY DEF IInv, Inv, TypeOK, Cases
<1>2. \A v \in V : v.signer \in P
  <2> SUFFICES ASSUME NEW v \in V PROVE v.signer \in P
    OBVIOUS
  <2>1. v \in votes[i] /\ v.release = release /\ v \in DisputeVote
    BY <1>1 DEF VotesFor
  <2>2. v.signer \in Parties /\ v = [signer |-> v.signer, release |-> release]
    BY <2>1 DEF DisputeVote
  <2> QED BY <2>1, <2>2 DEF VotersFor
<1>3. \A p \in P : \E v \in V : v.signer = p
  <2> SUFFICES ASSUME NEW p \in P PROVE \E v \in V : v.signer = p
    OBVIOUS
  <2>1. [signer |-> p, release |-> release] \in V
    BY DEF VotersFor, VotesFor
  <2>2. [signer |-> p, release |-> release].signer = p
    OBVIOUS
  <2> QED BY <2>1, <2>2
<1>4. \A v, w \in V : v.signer = w.signer => v = w
  BY DEF IInv, Cases, OneVotePerSigner, VotesFor
<1>5. V \subseteq votes[i]
  BY DEF VotesFor
<1> HIDE DEF V, P
<1>6. f \in Bijection(V, P)
  <2>1. f \in [V -> P] /\ \A v, w \in V : f[v] = f[w] => v = w
    BY <1>2, <1>4
  <2>2. \A p \in P : \E v \in V : f[v] = p
    BY <1>3
  <2> QED BY <2>1, <2>2 DEF Bijection, Injection, IsInjective, Surjection
<1>7. IsFiniteSet(V)
  BY <1>1, <1>5, FS_Subset
<1>8. IsFiniteSet(P) /\ Cardinality(P) = Cardinality(V)
  BY <1>6, <1>7, FS_Bijection DEF ExistsBijection
<1> QED BY <1>8 DEF V, P

\* With a threshold above half of the committee, the outcomes exclude each other.
THEOREM NoSplitDecisionAlways == Spec => []NoSplitDecision
<1>1. ASSUME IInv PROVE NoSplitDecision
  <2> SUFFICES ASSUME NEW i \in EscrowIds,
                      2 * committee.threshold > Cardinality(committee.signers),
                      \A v \in votes[i] : v.signer \in committee.signers,
                      ReleaseVotes(i) >= committee.threshold,
                      RefundVotes(i) >= committee.threshold
               PROVE  FALSE
    BY DEF NoSplitDecision
  <2> DEFINE S == VotersFor(i, TRUE)
             T == VotersFor(i, FALSE)
             U == committee.signers
  <2>1. /\ IsFiniteSet(S) /\ Cardinality(S) = ReleaseVotes(i)
        /\ IsFiniteSet(T) /\ Cardinality(T) = RefundVotes(i)
    BY <1>1, VotersCounted DEF ReleaseVotes, RefundVotes
  <2>2. IsFiniteSet(U) /\ committee.threshold \in Nat
    BY <1>1 DEF IInv, Cases, Inv, TypeOK, Committee
  <2>3. S \subseteq U /\ T \subseteq U
    BY DEF VotersFor
  <2>4. S \cap T = {}
    <3> SUFFICES ASSUME NEW p \in S, p \in T PROVE FALSE
      OBVIOUS
    <3> DEFINE v == [signer |-> p, release |-> TRUE]
               w == [signer |-> p, release |-> FALSE]
    <3>1. v \in votes[i] /\ w \in votes[i]
      BY DEF VotersFor
    <3>2. v.signer = w.signer /\ v.release # w.release
      OBVIOUS
    <3> HIDE DEF v, w
    <3>3. v = w
      BY <1>1, <3>1, <3>2 DEF IInv, Cases, OneVotePerSigner
    <3> QED BY <3>2, <3>3
  <2>5. Cardinality(S) \in Nat /\ Cardinality(T) \in Nat /\ Cardinality(U) \in Nat
    BY <2>1, <2>2, FS_CardinalityType
  <2> HIDE DEF S, T, U
  <2>6. Cardinality(S) + Cardinality(T) > Cardinality(U)
    BY <2>1, <2>2, <2>5 DEF U
  <2> QED BY <2>2, <2>3, <2>4, <2>6, FS_MajoritiesIntersect
<1> QED BY Invariance, <1>1, PTL
-----------------------------------------------------------------------------
(***************************************************************************)
(* Action properties.                                                      *)
(***************************************************************************)
Closed(e) == e.state \in {"Released", "Refunded"}

\* A step that touches the escrow and the case of one open escrow, k.
TouchesOnly(k, s) ==
  /\ k \in Ids /\ ~ Closed(escrows[k]) /\ s \in EscrowState
  /\ UNCHANGED escrows \/ SetState(k, s)
  /\ \A j \in EscrowIds : j # k => /\ disputes'[j] = disputes[j]
                                   /\ votes'[j] = votes[j]
                                   /\ evidence'[j] = evidence[j]

\* An open dispute belongs to an escrow that is not closed.
LEMMA OpenIsDisputed ==
  ASSUME Inv, NEW i \in Ids, disputes[i].status = "Open"
  PROVE  escrows[i].state = "Disputed"
<1>1. ValidEscrow(escrows[i]) /\ disputes[i].status \in StatusesOf(escrows[i].state)
  BY StoredEscrow DEF Inv, CaseMatchesEscrow
<1> DEFINE e == escrows[i]
<1> HIDE DEF e
<1>2. ValidEscrow(e) /\ disputes[i].status \in StatusesOf(e.state) => e.state = "Disputed"
  BY DEF ValidEscrow, StatusesOf, EscrowState
<1> QED BY <1>1, <1>2 DEF e

LEMMA CloseTouches ==
  ASSUME Inv, NEW i \in Ids, disputes[i].status = "Open", NEW to,
         NEW s \in EscrowState, NEW status, Close(i, to, s, status)
  PROVE  TouchesOnly(i, s)
<1>1. ~ Closed(escrows[i]) /\ disputes \in [EscrowIds -> Dispute]
  BY OpenIsDisputed DEF Closed, Inv, TypeOK
<1> QED BY <1>1 DEF Close, TouchesOnly

\* Released and Refunded are final, for the escrow and for its case.
THEOREM ClosedIsFinalAlways == Spec => ClosedIsFinal
<1> DEFINE Final == \A i \in Ids :
       /\ escrows[i].state \in {"Released", "Refunded"} =>
            /\ escrows'[i] = escrows[i]
            /\ disputes'[i] = disputes[i]
            /\ votes'[i] = votes[i]
            /\ evidence'[i] = evidence[i]
       /\ escrows'[i] = [escrows[i] EXCEPT !.state = escrows'[i].state]
<1>1. ASSUME IInv, Next PROVE Final
  <2> USE <1>1
  <2>0. /\ Inv /\ TypeOK
        /\ \A i \in Ids : /\ escrows[i] \in Escrow /\ i \in EscrowIds
                          /\ escrows[i] = [escrows[i] EXCEPT !.state = escrows[i].state]
    <3>1. \A i \in Ids : escrows[i] \in Escrow /\ i \in EscrowIds
      BY StoredEscrow DEF IInv, Inv, ValidEscrow
    <3> QED BY <3>1 DEF IInv, Inv, Escrow
  <2>1. ASSUME NEW k, NEW s, TouchesOnly(k, s) PROVE Final
    <3>1. \A i \in Ids : i # k => escrows'[i] = escrows[i]
      BY <2>0, <2>1 DEF TouchesOnly, SetState, TypeOK, Ids
    <3>2. escrows'[k] = escrows[k] \/ escrows'[k] = [escrows[k] EXCEPT !.state = s]
      BY <2>0, <2>1 DEF TouchesOnly, SetState, TypeOK, Ids
    <3>3. escrows[k] \in Escrow /\ ~ Closed(escrows[k])
      BY <2>0, <2>1 DEF TouchesOnly
    <3>4. escrows'[k] = [escrows[k] EXCEPT !.state = escrows'[k].state]
      BY <2>0, <3>2, <3>3 DEF Escrow
    <3> QED BY <2>0, <2>1, <3>1, <3>3, <3>4 DEF TouchesOnly, Closed
  <2>2. ASSUME \A i \in Ids : escrows'[i] = escrows[i], UNCHANGED caseVars PROVE Final
    BY <2>0, <2>2 DEF caseVars
  <2> HIDE DEF Final
  <2>3. ASSUME NEW c \in Committees, NEW window \in Windows, Initialize(c, window) PROVE Final
    BY <2>2, <2>3 DEF Initialize
  <2>4. ASSUME NEW seller \in Parties, NEW buyer \in Parties, NEW asset \in Assets,
               NEW amount \in Amounts, NEW timelock \in Timelocks, NEW nonce \in Nonces,
               CreateEscrow(seller, buyer, asset, amount, timelock, nonce)
        PROVE  Final
    <3> DEFINE e == NewEscrow(seller, buyer, asset, amount, nonce)
    <3>1. (escrows' = escrows \/ escrows' = Append(escrows, e)) /\ UNCHANGED caseVars
      BY <2>4 DEF CreateEscrow, SaveEscrow
    <3>2. e \in Escrow
      BY DEF NewEscrow, Escrow, EscrowState
    <3> HIDE DEF e
    <3>3. \A i \in Ids : escrows'[i] = escrows[i]
      BY <2>0, <3>1, <3>2 DEF TypeOK, Ids
    <3> QED BY <2>2, <3>1, <3>3
  <2>5. ASSUME NEW k \in Ids, NEW p \in Parties, FundEscrow(k, p) PROVE Final
    <3>1. TouchesOnly(k, "Escrowed")
      BY <2>5 DEF FundEscrow, TouchesOnly, Closed, EscrowState, caseVars
    <3> QED BY <2>1, <3>1
  <2>6. ASSUME NEW k \in Ids, NEW p \in Parties, NEW window \in Windows,
               RaiseDispute(k, p, window)
        PROVE  Final
    <3>1. TouchesOnly(k, "Disputed")
      BY <2>0, <2>6 DEF RaiseDispute, TouchesOnly, Closed, EscrowState, TypeOK
    <3> QED BY <2>1, <3>1
  <2>7. ASSUME NEW k \in Ids, NEW p \in Parties, SubmitEvidence(k, p) PROVE Final
    <3>1. escrows[k].state = "Disputed"
      BY <2>0, <2>7, OpenIsDisputed DEF SubmitEvidence
    <3>2. TouchesOnly(k, "Disputed")
      BY <2>0, <2>7, <3>1 DEF SubmitEvidence, TouchesOnly, Closed, EscrowState, TypeOK
    <3> QED BY <2>1, <3>2
  <2>8. ASSUME NEW k \in Ids, NEW p \in Parties, NEW release \in BOOLEAN, Vote(k, p, release)
        PROVE  Final
    <3>1. escrows[k].state = "Disputed"
      BY <2>0, <2>8, OpenIsDisputed DEF Vote
    <3>2. TouchesOnly(k, "Disputed")
      BY <2>0, <2>8, <3>1 DEF Vote, TouchesOnly, Closed, EscrowState, TypeOK
    <3> QED BY <2>1, <3>2
  <2>9. ASSUME NEW k \in Ids, NEW p \in Parties, ResolveDispute(k, p) PROVE Final
    <3>1. "Released" \in EscrowState /\ "Refunded" \in EscrowState
      BY DEF EscrowState
    <3>2. TouchesOnly(k, "Released") \/ TouchesOnly(k, "Refunded")
      BY <2>0, <2>9, <3>1, CloseTouches DEF ResolveDispute
    <3> QED BY <2>1, <3>2
  <2>10. ASSUME NEW k \in Ids, AutoRefund(k) PROVE Final
    <3>1. TouchesOnly(k, "Refunded")
      BY <2>0, <2>10, CloseTouches DEF AutoRefund, AutoRefundDue, EscrowState
    <3> QED BY <2>1, <3>1
  <2>11. ASSUME NEW k \in Ids, NEW p \in Parties, CancelEscrow(k, p) PROVE Final
    <3>1. TouchesOnly(k, "Refunded")
      BY <2>11 DEF CancelEscrow, TouchesOnly, Closed, EscrowState, caseVars
    <3> QED BY <2>1, <3>1
  <2>12. ASSUME UNCHANGED <<escrows, caseVars>> PROVE Final
    BY <2>2, <2>12
  <2>13. ASSUME NEW seconds \in Windows, SetDisputeWindow(seconds) PROVE Final
    BY <2>12, <2>13 DEF SetDisputeWindow
  <2>14. ASSUME NEW seconds \in Timelocks, SetMinTimelock(seconds) PROVE Final
    BY <2>12, <2>14 DEF SetMinTimelock
  <2>15. CASE Tick
    BY <2>12, <2>15 DEF Tick
  <2>16. ASSUME NEW p \in Parties, NEW a \in Assets, OpenTrustline(p, a) \/ CloseTrustline(p, a)
         PROVE  Final
    BY <2>12, <2>16 DEF OpenTrustline, CloseTrustline
  <2> QED BY <1>1, <2>3, <2>4, <2>5, <2>6, <2>7, <2>8, <2>9, <2>10, <2>11, <2>13, <2>14,
             <2>15, <2>16 DEF Next
<1>2. IInv /\ [Next]_vars => [Final]_vars
  BY <1>1
<1> QED BY Invariance, <1>2, PTL DEF Spec, ClosedIsFinal

\* Disputed funds move only on enough signers' votes, or after the deadline.
THEOREM FrozenUntilDecidedAlways == Spec => FrozenUntilDecided
<1> DEFINE Decided(i) ==
             \/ /\ escrows'[i].state = "Released"
                /\ Cardinality(VotersFor(i, TRUE)) >= committee.threshold
             \/ /\ escrows'[i].state = "Refunded"
                /\ \/ Cardinality(VotersFor(i, FALSE)) >= committee.threshold
                   \/ now >= disputes[i].deadline
           Frozen == \A i \in Ids :
             escrows[i].state = "Disputed" /\ escrows'[i].state # "Disputed" => Decided(i)
<1>1. ASSUME IInv, Next PROVE Frozen
  <2> USE <1>1
  <2>0. /\ Inv /\ TypeOK /\ escrows \in Seq(Escrow)
        /\ \A i \in Ids : i \in EscrowIds
    BY StoredEscrow DEF IInv, Inv, TypeOK
  <2>1. ASSUME NEW k \in Ids, NEW s \in EscrowState, SetState(k, s),
               escrows[k].state = "Disputed" => s = "Disputed" \/ Decided(k)
        PROVE  Frozen
    <3>1. \A i \in Ids : i # k => escrows'[i] = escrows[i]
      BY <2>0, <2>1 DEF SetState, Ids
    <3>2. escrows'[k].state = s
      BY <2>0, <2>1 DEF SetState, Ids, Escrow
    <3> HIDE DEF Decided
    <3> QED BY <2>1, <3>1, <3>2
  <2>2. ASSUME NEW k \in Ids, NEW s \in EscrowState, SetState(k, s)
        PROVE  escrows'[k].state = s
    BY <2>0, <2>2 DEF SetState, Ids, Escrow
  <2>3. ASSUME \A i \in Ids : escrows'[i] = escrows[i] PROVE Frozen
    BY <2>3
  <2>4. \A s \in {"Escrowed", "Disputed", "Released", "Refunded"} : s \in EscrowState
    BY DEF EscrowState
  <2> HIDE DEF Frozen
  <2>5. ASSUME NEW seller \in Parties, NEW buyer \in Parties, NEW asset \in Assets,
               NEW amount \in Amounts, NEW timelock \in Timelocks, NEW nonce \in Nonces,
               CreateEscrow(seller, buyer, asset, amount, timelock, nonce)
        PROVE  Frozen
    <3> DEFINE e == NewEscrow(seller, buyer, asset, amount, nonce)
    <3>1. escrows' = escrows \/ escrows' = Append(escrows, e)
      BY <2>5 DEF CreateEscrow, SaveEscrow
    <3>2. e \in Escrow
      BY DEF NewEscrow, Escrow, EscrowState
    <3> HIDE DEF e
    <3>3. \A i \in Ids : escrows'[i] = escrows[i]
      BY <2>0, <3>1, <3>2 DEF Ids
    <3> QED BY <2>3, <3>3
  <2>6. ASSUME NEW k \in Ids, NEW p \in Parties, FundEscrow(k, p) PROVE Frozen
    <3>1. escrows[k].state # "Disputed" /\ SetState(k, "Escrowed")
      BY <2>6 DEF FundEscrow
    <3> QED BY <2>1, <2>4, <3>1
  <2>7. ASSUME NEW k \in Ids, NEW p \in Parties, NEW window \in Windows,
               RaiseDispute(k, p, window)
        PROVE  Frozen
    BY <2>1, <2>4, <2>7 DEF RaiseDispute
  <2>8. ASSUME NEW k \in Ids, NEW p \in Parties, ResolveDispute(k, p) PROVE Frozen
    <3>0. k \in EscrowIds
      BY <2>0
    <3>1. /\ Cardinality(VotersFor(k, TRUE)) = ReleaseVotes(k)
          /\ Cardinality(VotersFor(k, FALSE)) = RefundVotes(k)
      BY <3>0, VotersCounted DEF ReleaseVotes, RefundVotes
    <3>2. CASE ReleaseVotes(k) >= committee.threshold /\ SetState(k, "Released")
      <4>1. escrows'[k].state = "Released"
        BY <2>2, <2>4, <3>2
      <4> QED BY <2>1, <2>4, <3>1, <3>2, <4>1
    <3>3. CASE RefundVotes(k) >= committee.threshold /\ SetState(k, "Refunded")
      <4>1. escrows'[k].state = "Refunded"
        BY <2>2, <2>4, <3>3
      <4> QED BY <2>1, <2>4, <3>1, <3>3, <4>1
    <3> QED BY <2>8, <3>2, <3>3 DEF ResolveDispute, Close
  <2>9. ASSUME NEW k \in Ids, AutoRefund(k) PROVE Frozen
    <3>1. now >= disputes[k].deadline /\ SetState(k, "Refunded")
      BY <2>9 DEF AutoRefund, AutoRefundDue, Close
    <3>2. escrows'[k].state = "Refunded"
      BY <2>2, <2>4, <3>1
    <3> QED BY <2>1, <2>4, <3>1, <3>2
  <2>10. ASSUME NEW k \in Ids, NEW p \in Parties, CancelEscrow(k, p) PROVE Frozen
    <3>1. escrows[k].state # "Disputed" /\ SetState(k, "Refunded")
      BY <2>10 DEF CancelEscrow
    <3> QED BY <2>1, <2>4, <3>1
  <2>11. ASSUME UNCHANGED escrows PROVE Frozen
    BY <2>3, <2>11
  <2>12. ASSUME NEW c \in Committees, NEW window \in Windows, Initialize(c, window) PROVE Frozen
    BY <2>11, <2>12 DEF Initialize
  <2>13. ASSUME NEW k \in Ids, NEW p \in Parties, SubmitEvidence(k, p) PROVE Frozen
    BY <2>11, <2>13 DEF SubmitEvidence
  <2>14. ASSUME NEW k \in Ids, NEW p \in Parties, NEW release \in BOOLEAN, Vote(k, p, release)
         PROVE  Frozen
    BY <2>11, <2>14 DEF Vote
  <2>15. ASSUME NEW seconds \in Windows, SetDisputeWindow(seconds) PROVE Frozen
    BY <2>11, <2>15 DEF SetDisputeWindow
  <2>16. ASSUME NEW seconds \in Timelocks, SetMinTimelock(seconds) PROVE Frozen
    BY <2>11, <2>16 DEF SetMinTimelock
  <2>17. CASE Tick
    BY <2>11, <2>17 DEF Tick
  <2>18. ASSUME NEW p \in Parties, NEW a \in Assets, OpenTrustline(p, a) \/ CloseTrustline(p, a)
         PROVE  Frozen
    BY <2>11, <2>18 DEF OpenTrustline, CloseTrustline
  <2> QED BY <1>1, <2>5, <2>6, <2>7, <2>8, <2>9, <2>10, <2>12, <2>13, <2>14, <2>15, <2>16,
             <2>17, <2>18 DEF Next
<1>2. IInv /\ [Next]_vars => [Frozen]_vars
  BY <1>1
<1> QED BY Invariance, <1>2, PTL DEF Spec, FrozenUntilDecided
-----------------------------------------------------------------------------
(***************************************************************************)
(* The contract implements ArbitratedPayment.  What a party has settled    *)
(* and what it has on deposit add up to what it gained by released         *)
(* escrows, so a step that releases nothing keeps what everybody owns.     *)
(***************************************************************************)
Payments == [i \in Ids |-> [terms |-> TermsOf(escrows[i]), phase |-> Phase(escrows[i])]]
Wealth == [a \in Assets |-> [p \in Parties |-> Owned(a, p)]]

LEMMA SettledPlusDeposit ==
  ASSUME NEW e, ValidEscrow(e), NEW a \in Assets, NEW p \in Parties
  PROVE  Settled(e, a, p) + Deposit(e, a, p) =
           IF e.state # "Released" \/ a # e.asset THEN 0
           ELSE IF p = e.seller THEN e.amount
           ELSE IF p = e.buyer THEN - e.amount ELSE 0
<1>1. CASE IsHeld(e)
  <2>1. e.state # "Released"
    BY <1>1 DEF IsHeld
  <2> QED BY <1>1, <2>1 DEF Settled, Deposit, ValidEscrow
<1>2. CASE ~ IsHeld(e)
  BY <1>2 DEF Settled, Deposit, ValidEscrow
<1> QED BY <1>1, <1>2

LEMMA OwnedInteger ==
  ASSUME Inv, NEW a \in Assets, NEW p \in Parties
  PROVE  Owned(a, p) \in Int
<1>1. balance[a][p] \in Nat
  BY PartyAccounts DEF Inv, TypeOK
<1>2. Len(escrows) \in Nat /\ \A k \in 1..Len(escrows) : escrows[k] \in Escrow
  BY DEF Inv, TypeOK
<1>3. Total([k \in Ids |-> Deposit(escrows[k], a, p)], Len(escrows)) \in Int
  BY <1>2, CreditInt, TotalInt DEF Ids
<1> QED BY <1>1, <1>3 DEF Owned

\* What a call on a stored escrow does to what a party owns.
LEMMA OwnedAfterUpdate ==
  ASSUME Inv, NEW i, NEW s, EscrowUpdate(i, s), NEW a \in Assets, NEW p \in Parties
  PROVE  Owned(a, p)' = Owned(a, p)
           + (Settled(Moved(i, s), a, p) + Deposit(Moved(i, s), a, p))
           - (Settled(escrows[i], a, p) + Deposit(escrows[i], a, p))
<1> DEFINE n == Len(escrows)
           e2 == Moved(i, s)
           f == [k \in 1..n |-> Deposit(escrows[k], a, p)]
           g == [k \in 1..n |-> Deposit(escrows'[k], a, p)]
<1>1. /\ n \in Nat /\ i \in 1..n /\ Len(escrows') = n /\ e2 \in Escrow
      /\ \A k \in 1..n : escrows[k] \in Escrow
      /\ \A k \in 1..n : escrows'[k] = IF k = i THEN e2 ELSE escrows[k]
  BY StoredAfterUpdate
<1>2. balance'[a][p] = balance[a][p] + Settled(e2, a, p) - Settled(escrows[i], a, p)
  BY PartyAccounts DEF EscrowUpdate, Credit
<1>3. balance[a][p] \in Nat
  BY PartyAccounts DEF Inv, TypeOK
<1>4. /\ Owned(a, p) = balance[a][p] + Total(f, n)
      /\ Owned(a, p)' = balance'[a][p] + Total(g, n)
  BY <1>1 DEF Owned, Ids
<1> HIDE DEF n, e2
<1>5. /\ \A k \in 1..n : f[k] \in Int
      /\ \A k \in 1..n : k # i => g[k] = f[k]
      /\ g[i] = Deposit(e2, a, p) /\ f[i] = Deposit(escrows[i], a, p)
      /\ g[i] \in Int /\ f[i] \in Int
      /\ Settled(e2, a, p) \in Int /\ Settled(escrows[i], a, p) \in Int
  BY <1>1, CreditInt
<1> HIDE DEF f, g
<1>6. Total(g, n) = Total(f, n) + g[i] - f[i] /\ Total(f, n) \in Int
  BY <1>1, <1>5, TotalUpdate, TotalInt
<1> QED BY <1>2, <1>3, <1>4, <1>5, <1>6 DEF e2

LEMMA OwnedAfterCreate ==
  ASSUME Inv, NEW e \in Escrow, escrows' = Append(escrows, e), e.state = "Created",
         UNCHANGED balance, NEW a \in Assets, NEW p \in Parties
  PROVE  Owned(a, p)' = Owned(a, p)
<1> DEFINE n == Len(escrows)
           f == [k \in 1..n |-> Deposit(escrows[k], a, p)]
           g == [k \in 1..(n + 1) |-> Deposit(escrows'[k], a, p)]
<1>1. /\ n \in Nat /\ Len(escrows') = n + 1
      /\ \A k \in 1..n : escrows[k] \in Escrow /\ escrows'[k] = escrows[k]
      /\ escrows'[n + 1] = e
  BY DEF Inv, TypeOK
<1>2. Deposit(e, a, p) = 0
  BY DEF Deposit, IsHeld
<1>3. /\ Owned(a, p) = balance[a][p] + Total(f, n)
      /\ Owned(a, p)' = balance[a][p] + Total(g, n + 1)
  BY <1>1 DEF Owned, Ids
<1>4. (\A k \in 1..n : f[k] \in Int /\ g[k] = f[k]) /\ g[n + 1] = 0
  BY <1>1, <1>2, CreditInt
<1> HIDE DEF n, f, g
<1> QED BY <1>1, <1>3, <1>4, TotalAppendZero

\* A call on a stored escrow changes at most the phase of its own payment.
LEMMA PaymentsAfterUpdate ==
  ASSUME Inv, NEW i, NEW s, EscrowUpdate(i, s)
  PROVE  /\ i \in 1..Len(Payments)
         /\ Payments' = [Payments EXCEPT ![i].phase = Phase(Moved(i, s))]
<1> DEFINE e2 == Moved(i, s)
<1>1. /\ Len(escrows) \in Nat /\ i \in Ids /\ Ids' = Ids /\ Ids = 1..Len(escrows)
      /\ \A k \in Ids : escrows'[k] = IF k = i THEN e2 ELSE escrows[k]
  BY StoredAfterUpdate
<1>2. TermsOf(e2) = TermsOf(escrows[i])
  BY <1>1, MovedFields DEF EscrowUpdate, TermsOf
<1> HIDE DEF e2
<1>3. Len(Payments) = Len(escrows)
  BY <1>1 DEF Payments
<1>4. Payments' = [k \in Ids |-> [terms |-> TermsOf(escrows'[k]), phase |-> Phase(escrows'[k])]]
  BY <1>1 DEF Payments
<1>5. \A k \in Ids :
        Payments'[k] = IF k = i THEN [terms |-> TermsOf(escrows[i]), phase |-> Phase(e2)]
                       ELSE Payments[k]
  BY <1>1, <1>2, <1>4 DEF Payments
<1>6. Payments[i] = [terms |-> TermsOf(escrows[i]), phase |-> Phase(escrows[i])]
  BY <1>1 DEF Payments
<1>7. [Payments[i] EXCEPT !.phase = Phase(e2)]
        = [terms |-> TermsOf(escrows[i]), phase |-> Phase(e2)]
  BY <1>6
<1>8. DOMAIN Payments = Ids /\ Payments = [k \in Ids |-> Payments[k]]
  BY DEF Payments
<1> HIDE DEF Payments
<1>9. [Payments EXCEPT ![i].phase = Phase(e2)] =
        [k \in Ids |-> IF k = i THEN [Payments[i] EXCEPT !.phase = Phase(e2)] ELSE Payments[k]]
  BY <1>1, <1>8
<1>10. Payments' = [k \in Ids |-> IF k = i THEN [Payments[i] EXCEPT !.phase = Phase(e2)]
                                  ELSE Payments[k]]
  BY <1>4, <1>5, <1>7
<1> QED BY <1>1, <1>3, <1>9, <1>10 DEF e2

LEMMA RefineInit == Init => Payment!Init
<1> SUFFICES ASSUME Init PROVE Payment!Init
  OBVIOUS
<1>1. Len(escrows) = 0 /\ balance = InitBalance /\ Ids = {}
  BY DEF Init, Ids
<1>2. [i \in Ids |-> [terms |-> TermsOf(escrows[i]), phase |-> Phase(escrows[i])]] = << >>
  BY <1>1
<1>3. \A a \in Assets, p \in Parties : Owned(a, p) = InitBalance[a][p]
  <2> SUFFICES ASSUME NEW a \in Assets, NEW p \in Parties
               PROVE  Owned(a, p) = InitBalance[a][p]
    OBVIOUS
  <2>1. InitBalance[a][p] \in Int
    BY InitBalanceAssumption, PartyAccounts
  <2> QED BY <1>1, <2>1, TotalEmpty DEF Owned
<1> QED BY <1>2, <1>3 DEF Payment!Init

\* A call that releases nothing keeps what everybody owns ...
LEMMA WealthKept ==
  ASSUME Inv, NEW i, NEW s, EscrowUpdate(i, s), s # "Released", escrows[i].state # "Released"
  PROVE  Wealth' = Wealth
<1>1. ASSUME NEW a \in Assets, NEW p \in Parties PROVE Owned(a, p)' = Owned(a, p)
  <2>1. i \in Ids /\ s \in EscrowState
    BY DEF EscrowUpdate
  <2>2. /\ ValidEscrow(escrows[i]) /\ ValidEscrow(Moved(i, s))
        /\ Moved(i, s).state = s
    BY <2>1, StoredEscrow, MovedFields
  <2>3. /\ Settled(escrows[i], a, p) + Deposit(escrows[i], a, p) = 0
        /\ Settled(Moved(i, s), a, p) + Deposit(Moved(i, s), a, p) = 0
    BY <2>2, SettledPlusDeposit
  <2>4. Owned(a, p)' = Owned(a, p)
           + (Settled(Moved(i, s), a, p) + Deposit(Moved(i, s), a, p))
           - (Settled(escrows[i], a, p) + Deposit(escrows[i], a, p))
    BY OwnedAfterUpdate
  <2> QED BY <2>3, <2>4, OwnedInteger
<1> QED BY <1>1 DEF Wealth

\* ... and a release changes it as ArbitratedPayment says.
LEMMA ReleasePays ==
  ASSUME Inv, NEW i, EscrowUpdate(i, "Released"), escrows[i].state # "Released",
         NEW a \in Assets, NEW p \in Parties
  PROVE  Owned(a, p)' =
           LET t == TermsOf(escrows[i]) IN
           CASE a = t.asset /\ p = t.payer -> Owned(a, p) - t.amount
             [] a = t.asset /\ p = t.payee -> Owned(a, p) + t.amount
             [] OTHER -> Owned(a, p)
<1> DEFINE e == escrows[i]
           e2 == Moved(i, "Released")
<1>1. i \in Ids /\ ValidEscrow(e)
  BY StoredEscrow DEF EscrowUpdate
<1>2. /\ ValidEscrow(e2) /\ e2.state = "Released" /\ e2.amount = e.amount
      /\ e2.asset = e.asset /\ e2.seller = e.seller /\ e2.buyer = e.buyer
  BY <1>1, MovedFields DEF EscrowState
<1>3. Owned(a, p)' = Owned(a, p) + (Settled(e2, a, p) + Deposit(e2, a, p))
                                 - (Settled(e, a, p) + Deposit(e, a, p))
  BY OwnedAfterUpdate
<1>4. e.state # "Released"
  OBVIOUS
<1> HIDE DEF e, e2
<1>5. Settled(e, a, p) + Deposit(e, a, p) = 0
  BY <1>1, <1>4, SettledPlusDeposit
<1>6. Settled(e2, a, p) + Deposit(e2, a, p) =
        IF a # e.asset THEN 0 ELSE IF p = e.seller THEN e.amount
        ELSE IF p = e.buyer THEN - e.amount ELSE 0
  BY <1>2, SettledPlusDeposit
<1>7. Owned(a, p) \in Int /\ e.amount \in Int /\ e.seller # e.buyer
  BY <1>1, OwnedInteger DEF ValidEscrow
<1>8. Owned(a, p)' = CASE a = e.asset /\ p = e.buyer -> Owned(a, p) - e.amount
                       [] a = e.asset /\ p = e.seller -> Owned(a, p) + e.amount
                       [] OTHER -> Owned(a, p)
  BY <1>3, <1>5, <1>6, <1>7
<1> QED BY <1>8 DEF TermsOf, e

LEMMA RefineStep == IInv /\ [Next]_vars => [Payment!Next]_Payment!vars
<1> SUFFICES ASSUME IInv, [Next]_vars PROVE [Payment!Next]_Payment!vars
  OBVIOUS
<1>0. Inv /\ \A i \in Ids : ValidEscrow(escrows[i])
  BY StoredEscrow DEF IInv
<1>1. ASSUME NEW i, EscrowUpdate(i, "Escrowed"), escrows[i].state = "Created"
      PROVE  [Payment!Next]_Payment!vars
  <2>1. i \in Ids /\ Moved(i, "Escrowed").state = "Escrowed" /\ Wealth' = Wealth
    BY <1>0, <1>1, WealthKept, MovedFields DEF EscrowUpdate
  <2>2. Phase(Moved(i, "Escrowed")) = "committed" /\ Phase(escrows[i]) = "offered"
    BY <1>1, <2>1 DEF Phase, IsHeld
  <2>3. i \in 1..Len(Payments) /\ Payments' = [Payments EXCEPT ![i].phase = "committed"]
    BY <1>0, <1>1, <2>2, PaymentsAfterUpdate
  <2>4. Payment!Commit(i)
    BY <2>1, <2>2, <2>3 DEF Payment!Commit, Payments, Wealth
  <2> QED BY <2>3, <2>4 DEF Payment!Next, Payments
<1>2. ASSUME NEW i, EscrowUpdate(i, "Disputed"), escrows[i].state = "Escrowed"
      PROVE  [Payment!Next]_Payment!vars
  <2>1. i \in Ids /\ Moved(i, "Disputed").state = "Disputed" /\ Wealth' = Wealth
    BY <1>0, <1>2, WealthKept, MovedFields DEF EscrowUpdate
  <2>2. Phase(Moved(i, "Disputed")) = "committed" /\ Phase(escrows[i]) = "committed"
    BY <1>2, <2>1 DEF Phase, IsHeld
  <2>3. Payments' = [Payments EXCEPT ![i].phase = "committed"]
    BY <1>0, <1>2, <2>2, PaymentsAfterUpdate
  <2>4. Payments' = Payments
    BY <2>1, <2>2, <2>3 DEF Payments
  <2> QED BY <2>1, <2>4 DEF Payment!vars, Payments, Wealth
<1>3. ASSUME NEW i, EscrowUpdate(i, "Released"), escrows[i].state = "Disputed"
      PROVE  [Payment!Next]_Payment!vars
  <2> DEFINE t == TermsOf(escrows[i])
  <2>1. i \in Ids /\ Moved(i, "Released").state = "Released"
    BY <1>0, <1>3, MovedFields DEF EscrowUpdate
  <2>2. Phase(Moved(i, "Released")) = "paid" /\ Phase(escrows[i]) = "committed"
    BY <1>3, <2>1 DEF Phase, IsHeld
  <2>3. i \in 1..Len(Payments) /\ Payments' = [Payments EXCEPT ![i].phase = "paid"]
    BY <1>0, <1>3, <2>2, PaymentsAfterUpdate
  <2>4. Payments[i].phase = "committed" /\ Payments[i].terms = t
    BY <2>1, <2>2 DEF Payments
  <2>5. Wealth' = [a \in Assets |-> [p \in Parties |-> Payment!After(t, a, p)]]
    <3>1. \A a \in Assets, p \in Parties : Owned(a, p)' = Payment!After(t, a, p)
      BY <1>0, <1>3, ReleasePays DEF Payment!After
    <3> QED BY <3>1 DEF Wealth
  <2>6. Payment!Pay(i)
    BY <2>3, <2>4, <2>5 DEF Payment!Pay, Payments, Wealth
  <2> QED BY <2>3, <2>6 DEF Payment!Next, Payments
<1>4. ASSUME NEW i, EscrowUpdate(i, "Refunded"), escrows[i].state \in {"Created", "Disputed"}
      PROVE  [Payment!Next]_Payment!vars
  <2>1. i \in Ids /\ Moved(i, "Refunded").state = "Refunded" /\ Wealth' = Wealth
    BY <1>0, <1>4, WealthKept, MovedFields DEF EscrowUpdate
  <2>2. /\ Phase(Moved(i, "Refunded")) = "void"
        /\ Phase(escrows[i]) \in {"offered", "committed"}
    BY <1>4, <2>1 DEF Phase, IsHeld
  <2>3. i \in 1..Len(Payments) /\ Payments' = [Payments EXCEPT ![i].phase = "void"]
    BY <1>0, <1>4, <2>2, PaymentsAfterUpdate
  <2>4. Payment!Void(i)
    BY <2>1, <2>2, <2>3 DEF Payment!Void, Payments, Wealth
  <2> QED BY <2>3, <2>4 DEF Payment!Next, Payments
<1>5. ASSUME UNCHANGED <<escrows, balance>> PROVE [Payment!Next]_Payment!vars
  BY <1>5 DEF Payment!vars, Ids, Owned
<1>6. ASSUME NEW seller \in Parties, NEW buyer \in Parties, NEW asset \in Assets,
             NEW amount \in Amounts, NEW timelock \in Timelocks, NEW nonce \in Nonces,
             CreateEscrow(seller, buyer, asset, amount, timelock, nonce)
      PROVE  [Payment!Next]_Payment!vars
  <2> DEFINE e == NewEscrow(seller, buyer, asset, amount, nonce)
             t == [payee |-> seller, payer |-> buyer, asset |-> asset, amount |-> amount]
             d == [terms |-> t, phase |-> "offered"]
  <2>1. CASE UNCHANGED escrows
    BY <1>5, <1>6, <2>1 DEF CreateEscrow, ledgerVars
  <2>2. CASE ~ UNCHANGED escrows
    <3>1. escrows' = Append(escrows, e) /\ UNCHANGED balance /\ amount > 0 /\ seller # buyer
      BY <1>6, <2>2 DEF CreateEscrow, SaveEscrow, ledgerVars
    <3>2. e \in Escrow /\ e.state = "Created" /\ TermsOf(e) = t /\ Phase(e) = "offered"
      <4>1. e \in Escrow /\ e.state = "Created" /\ TermsOf(e) = t
        BY DEF NewEscrow, Escrow, EscrowState, TermsOf
      <4> HIDE DEF e
      <4> QED BY <4>1 DEF Phase, IsHeld
    <3> HIDE DEF e
    <3>3. Wealth' = Wealth
      BY <1>0, <3>1, <3>2, OwnedAfterCreate DEF Wealth
    <3>4. /\ Len(escrows) \in Nat /\ Ids = 1..Len(escrows) /\ Ids' = 1..(Len(escrows) + 1)
          /\ \A k \in Ids : escrows'[k] = escrows[k]
          /\ escrows'[Len(escrows) + 1] = e
      BY <1>0, <3>1, <3>2 DEF Inv, TypeOK, Ids
    <3>5. Payments' = Append(Payments, d)
      <4>1. Len(Payments) = Len(escrows) /\ Payments \in Seq({Payments[k] : k \in Ids})
        BY <3>4 DEF Payments
      <4>2. Payments' = [k \in 1..(Len(escrows) + 1) |->
                           [terms |-> TermsOf(escrows'[k]), phase |-> Phase(escrows'[k])]]
        BY <3>4 DEF Payments
      <4>3. \A k \in 1..(Len(escrows) + 1) :
              Payments'[k] = IF k = Len(escrows) + 1 THEN d ELSE Payments[k]
        BY <3>2, <3>4, <4>2 DEF Payments
      <4> HIDE DEF Payments, d
      <4>4. Append(Payments, d) =
              [k \in 1..(Len(escrows) + 1) |-> IF k = Len(escrows) + 1 THEN d ELSE Payments[k]]
        BY <3>4, <4>1, AppendIsFunction
      <4> QED BY <4>2, <4>3, <4>4
    <3>6. t \in Payment!Terms
      BY DEF Payment!Terms
    <3>7. Payment!Offer(t)
      BY <3>1, <3>3, <3>5 DEF Payment!Offer, Payments, Wealth
    <3> QED BY <3>6, <3>7 DEF Payment!Next
  <2> QED BY <2>1, <2>2
<1>7. ASSUME NEW i \in Ids, NEW p \in Parties, FundEscrow(i, p)
      PROVE  [Payment!Next]_Payment!vars
  BY <1>0, <1>1, <1>7, FundEffect DEF FundEscrow
<1>8. ASSUME NEW i \in Ids, NEW p \in Parties, NEW window \in Windows, RaiseDispute(i, p, window)
      PROVE  [Payment!Next]_Payment!vars
  BY <1>0, <1>2, <1>8, QuietEffect DEF RaiseDispute
<1>9. ASSUME NEW i \in Ids, NEW p \in Parties, ResolveDispute(i, p)
      PROVE  [Payment!Next]_Payment!vars
  BY <1>0, <1>3, <1>4, <1>9, CloseEffect DEF ResolveDispute
<1>10. ASSUME NEW i \in Ids, AutoRefund(i) PROVE [Payment!Next]_Payment!vars
  BY <1>0, <1>4, <1>10, CloseEffect DEF AutoRefund, AutoRefundDue
<1>11. ASSUME NEW i \in Ids, NEW p \in Parties, CancelEscrow(i, p)
       PROVE  [Payment!Next]_Payment!vars
  BY <1>0, <1>4, <1>11, QuietEffect DEF CancelEscrow
<1>12. ASSUME NEW c \in Committees, NEW window \in Windows, Initialize(c, window)
       PROVE  [Payment!Next]_Payment!vars
  BY <1>5, <1>12 DEF Initialize, ledgerVars
<1>13. ASSUME NEW i \in Ids, NEW p \in Parties, SubmitEvidence(i, p)
       PROVE  [Payment!Next]_Payment!vars
  BY <1>5, <1>13 DEF SubmitEvidence, ledgerVars
<1>14. ASSUME NEW i \in Ids, NEW p \in Parties, NEW release \in BOOLEAN, Vote(i, p, release)
       PROVE  [Payment!Next]_Payment!vars
  BY <1>5, <1>14 DEF Vote, ledgerVars
<1>15. ASSUME NEW seconds \in Windows, SetDisputeWindow(seconds)
       PROVE  [Payment!Next]_Payment!vars
  BY <1>5, <1>15 DEF SetDisputeWindow, ledgerVars
<1>16. ASSUME NEW seconds \in Timelocks, SetMinTimelock(seconds)
       PROVE  [Payment!Next]_Payment!vars
  BY <1>5, <1>16 DEF SetMinTimelock, ledgerVars
<1>17. CASE Tick
  BY <1>5, <1>17 DEF Tick, ledgerVars
<1>18. ASSUME NEW p \in Parties, NEW a \in Assets, OpenTrustline(p, a) \/ CloseTrustline(p, a)
       PROVE  [Payment!Next]_Payment!vars
  BY <1>5, <1>18 DEF OpenTrustline, CloseTrustline
<1>19. CASE UNCHANGED vars
  BY <1>5, <1>19 DEF vars, ledgerVars
<1> QED BY <1>6, <1>7, <1>8, <1>9, <1>10, <1>11, <1>12, <1>13, <1>14, <1>15, <1>16, <1>17,
           <1>18, <1>19 DEF Next

\* The escrow-dispute contract implements the arbitrated payment.
THEOREM Implementation == Spec => ImplementsPayment
  BY Invariance, RefineInit, RefineStep, PTL DEF Spec, ImplementsPayment, Payment!Spec
=============================================================================
