---------------------------- MODULE EscrowDispute ----------------------------
(***************************************************************************)
(* The escrow-dispute contract (swaptrade-contracts/escrow-dispute): a     *)
(* seller opens an escrow, the buyer deposits, either of them may dispute, *)
(* and a committee of signers releases the deposit to the seller or        *)
(* refunds it; from the deadline of the dispute on, anybody may refund.    *)
(*                                                                         *)
(* A Soroban call is atomic and an Err rolls all of it back, so every      *)
(* action below is one successful call; a call that fails is a stuttering  *)
(* step.  Timestamps and names that are stored and never read (created_at, *)
(* raised_at, raised_by, voted_at, the evidence's hash) are left out.      *)
(***************************************************************************)
EXTENDS AssetLedger, Sequences, FiniteSets

CONSTANTS Amounts,            \* the amounts sellers ask for (i128)
          Nonces,             \* the client-supplied nonces
          Timelocks,          \* the timelocks asked for, and min_timelock's values
          DefaultMinTimelock, \* min_timelock before it is ever set
          Windows,            \* the dispute windows callers ask for
          DefaultWindow,      \* dispute_window before it is ever set
          Committees,         \* the arguments of initialize: [admin, signers, threshold]
          MaxU64,             \* the largest timestamp a deadline can hold
          MaxTime,            \* bound: the last ledger timestamp
          MaxEscrows,         \* bound: escrows ever created
          MaxEvidence,        \* bound: pieces of evidence per dispute
          InitBalance,        \* token balances at the start
          InitTrust,          \* trustlines open at the start
          MutableTrust        \* trustlines the environment opens and closes

ASSUME AmountsAssumption == Amounts \subseteq Int
ASSUME TimesAssumption == /\ Timelocks \subseteq Nat /\ DefaultMinTimelock \in Nat
                          /\ Windows \subseteq Nat /\ DefaultWindow \in Nat
                          /\ MaxU64 \in Nat
ASSUME CommitteesAssumption ==
  Committees \subseteq [admin : Parties, signers : Seq(Parties), threshold : Nat]
ASSUME BoundsAssumption == MaxTime \in Nat /\ MaxEscrows \in Nat /\ MaxEvidence \in Nat
ASSUME InitBalanceAssumption == InitBalance \in [Assets -> [Accounts -> Nat]]
ASSUME InitTrustAssumption ==
  /\ InitTrust \subseteq Parties \X Assets
  /\ MutableTrust \subseteq Parties \X Assets
  /\ \A p \in Parties, a \in Assets : InitBalance[a][p] > 0 => <<p, a>> \in InitTrust

VARIABLES escrows,      \* the escrow map, by id: ids are 1, 2, ... in order of creation
          nonceIndex,   \* (seller, nonce) -> escrow id, 0 where there is none
          disputes,     \* escrow id -> its dispute, NoDispute where there is none
          votes,        \* escrow id -> the votes cast
          evidence,     \* escrow id -> who submitted each piece of evidence
          committee,    \* the signers and the threshold
          minTimelock, disputeWindow,  \* the configuration
          now,          \* the ledger timestamp
          balance,      \* the token contracts: asset -> account -> amount
          trust         \* the token contracts: open trustlines

ledgerVars == <<balance, trust>>
configVars == <<committee, minTimelock, disputeWindow>>
caseVars == <<disputes, votes, evidence>>
vars == <<escrows, nonceIndex, caseVars, configVars, now, ledgerVars>>

Ids == 1..Len(escrows)
EscrowIds == 1..MaxEscrows

EscrowState == {"Created", "Escrowed", "Disputed", "Released", "Refunded"}
DisputeStatus == {"None", "Open", "ResolvedRelease", "ResolvedRefund", "AutoRefunded"}

Escrow == [seller : Parties, buyer : Parties, asset : Assets, amount : Amounts,
           nonce : Nonces, state : EscrowState]
Dispute == [status : DisputeStatus, deadline : Nat, evidenceCount : Nat, voteCount : Nat]
DisputeVote == [signer : Parties, release : BOOLEAN]
Committee == [signers : SUBSET Parties, threshold : Nat]

NoDispute == [status |-> "None", deadline |-> 0, evidenceCount |-> 0, voteCount |-> 0]

IsParty(e, p) == p \in {e.seller, e.buyer}

\* storage::is_signer
IsSigner(p) == p \in committee.signers
-----------------------------------------------------------------------------
Init ==
  /\ escrows = << >>
  /\ nonceIndex = [key \in Parties \X Nonces |-> 0]
  /\ disputes = [i \in EscrowIds |-> NoDispute]
  /\ votes = [i \in EscrowIds |-> {}]
  /\ evidence = [i \in EscrowIds |-> << >>]
  /\ committee = [signers |-> {}, threshold |-> 0]
  /\ minTimelock = DefaultMinTimelock
  /\ disputeWindow = DefaultWindow
  /\ now = 0
  /\ balance = InitBalance
  /\ trust = InitTrust

\* The admin and everybody on the list
AllSigners(c) == {c.admin} \cup {c.signers[k] : k \in 1..Len(c.signers)}

\* The length of the stored list: the admin once, the others as often as they are listed
SignerCount(c) == 1 + Cardinality({k \in 1..Len(c.signers) : c.signers[k] # c.admin})

\* initialize: nothing stops a second call, which replaces the committee.
Initialize(c, window) ==
  /\ c.threshold > 0
  /\ c.threshold <= SignerCount(c)
  /\ committee' = [signers |-> AllSigners(c), threshold |-> c.threshold]
  /\ disputeWindow' = window
  /\ UNCHANGED <<escrows, nonceIndex, caseVars, minTimelock, now, ledgerVars>>

NewEscrow(seller, buyer, asset, amount, nonce) ==
  [seller |-> seller, buyer |-> buyer, asset |-> asset, amount |-> amount,
   nonce |-> nonce, state |-> "Created"]

\* storage::save_escrow
SaveEscrow(e) ==
  /\ escrows' = Append(escrows, e)
  /\ nonceIndex' = [nonceIndex EXCEPT ![<<e.seller, e.nonce>>] = Len(escrows) + 1]

\* create_escrow: the timelock is checked and then forgotten.
CreateEscrow(seller, buyer, asset, amount, timelock, nonce) ==
  /\ amount > 0
  /\ seller # buyer
  /\ timelock >= minTimelock
  /\ HasTrustline(trust, seller, asset)
  /\ \/ /\ nonceIndex[<<seller, nonce>>] # 0
        /\ UNCHANGED <<escrows, nonceIndex>>
     \/ /\ nonceIndex[<<seller, nonce>>] = 0
        /\ Len(escrows) < MaxEscrows
        /\ SaveEscrow(NewEscrow(seller, buyer, asset, amount, nonce))
  /\ UNCHANGED <<caseVars, configVars, now, ledgerVars>>

\* The escrow of i moves to state s.
SetState(i, s) == escrows' = [escrows EXCEPT ![i].state = s]

\* Mutation: an escrow may be funded again.
FundEscrowAgain(i, funder) ==
  LET e == escrows[i]
  IN /\ funder = e.buyer
     /\ e.state \in {"Created", "Escrowed"}
     /\ TransferOk(balance, trust, e.asset, funder, Contract, e.amount)
     /\ balance' = Transfer(balance, e.asset, funder, Contract, e.amount)
     /\ SetState(i, "Escrowed")
     /\ UNCHANGED <<nonceIndex, caseVars, configVars, now, trust>>

\* fund_escrow
FundEscrow(i, funder) ==
  LET e == escrows[i]
  IN /\ funder = e.buyer
     /\ e.state = "Created"
     /\ TransferOk(balance, trust, e.asset, funder, Contract, e.amount)
     /\ balance' = Transfer(balance, e.asset, funder, Contract, e.amount)
     /\ SetState(i, "Escrowed")
     /\ UNCHANGED <<nonceIndex, caseVars, configVars, now, trust>>

SaturatingAdd(t, d) == IF t + d > MaxU64 THEN MaxU64 ELSE t + d

\* raise_dispute: the window is the caller's, not the configured one.
RaiseDispute(i, disputer, window) ==
  /\ IsParty(escrows[i], disputer)
  /\ escrows[i].state = "Escrowed"
  /\ SetState(i, "Disputed")
  /\ disputes' = [disputes EXCEPT ![i] =
       [NoDispute EXCEPT !.status = "Open", !.deadline = SaturatingAdd(now, window)]]
  /\ UNCHANGED <<nonceIndex, votes, evidence, configVars, now, ledgerVars>>

\* submit_evidence
SubmitEvidence(i, submitter) ==
  /\ IsParty(escrows[i], submitter)
  /\ disputes[i].status = "Open"
  /\ Len(evidence[i]) < MaxEvidence
  /\ disputes' = [disputes EXCEPT ![i].evidenceCount = @ + 1]
  /\ evidence' = [evidence EXCEPT ![i] = Append(@, submitter)]
  /\ UNCHANGED <<escrows, nonceIndex, votes, configVars, now, ledgerVars>>

\* Mutation: only the same vote counts as a duplicate.
NotVotedSame(i, signer) == \A release \in BOOLEAN :
  [signer |-> signer, release |-> release] \notin votes[i] \/
  [signer |-> signer, release |-> ~ release] \notin votes[i]

\* storage::record_vote's check for a duplicate
NotVoted(i, signer) == \A v \in votes[i] : v.signer # signer

\* vote: until the dispute is closed, its deadline notwithstanding
Vote(i, signer, release) ==
  /\ disputes[i].status = "Open"
  /\ IsSigner(signer)
  /\ NotVoted(i, signer)
  /\ votes' = [votes EXCEPT ![i] = @ \cup {[signer |-> signer, release |-> release]}]
  /\ UNCHANGED <<escrows, nonceIndex, disputes, evidence, configVars, now, ledgerVars>>

\* Mutation: every vote counts for either outcome.
VotesForEither(i, release) == votes[i]

VotesFor(i, release) == {v \in votes[i] : v.release = release}
ReleaseVotes(i) == Cardinality(VotesFor(i, TRUE))
RefundVotes(i) == Cardinality(VotesFor(i, FALSE))

\* The contract can pay the deposit of e to `to`.
CanPayOut(e, to) == TransferOk(balance, trust, e.asset, Contract, to, e.amount)

\* Mutation: whatever the outcome, the seller is paid.
CloseToSeller(i, to, state, status) ==
  /\ CanPayOut(escrows[i], escrows[i].seller)
  /\ balance' = Transfer(balance, escrows[i].asset, Contract, escrows[i].seller,
                         escrows[i].amount)
  /\ SetState(i, state)
  /\ disputes' = [disputes EXCEPT ![i].status = status]
  /\ UNCHANGED <<nonceIndex, votes, evidence, configVars, now, trust>>

\* Every exit of a dispute: pay, close the escrow, close the dispute.
Close(i, to, state, status) ==
  /\ CanPayOut(escrows[i], to)
  /\ balance' = Transfer(balance, escrows[i].asset, Contract, to, escrows[i].amount)
  /\ SetState(i, state)
  /\ disputes' = [disputes EXCEPT ![i].status = status]
  /\ UNCHANGED <<nonceIndex, votes, evidence, configVars, now, trust>>

\* resolve_dispute: release is looked at first, whatever the other count is.
ResolveDispute(i, resolver) ==
  /\ disputes[i].status = "Open"
  /\ IsSigner(resolver)
  /\ \/ /\ ReleaseVotes(i) >= committee.threshold
        /\ Close(i, escrows[i].seller, "Released", "ResolvedRelease")
     \/ /\ ReleaseVotes(i) < committee.threshold
        /\ RefundVotes(i) >= committee.threshold
        /\ Close(i, escrows[i].buyer, "Refunded", "ResolvedRefund")

\* Mutation: a single vote holds the refund back.
AutoRefundDueUnvoted(i) ==
  disputes[i].status = "Open" /\ now >= disputes[i].deadline /\ votes[i] = {}

\* auto_refund up to its transfer
AutoRefundDue(i) == disputes[i].status = "Open" /\ now >= disputes[i].deadline

\* auto_refund: anybody may call it.
AutoRefund(i) ==
  /\ AutoRefundDue(i)
  /\ Close(i, escrows[i].buyer, "Refunded", "AutoRefunded")

\* cancel_escrow
CancelEscrow(i, caller) ==
  /\ caller = escrows[i].seller
  /\ escrows[i].state = "Created"
  /\ SetState(i, "Refunded")
  /\ UNCHANGED <<nonceIndex, caseVars, configVars, now, ledgerVars>>

\* set_dispute_window and set_min_timelock: any caller, at any time
SetDisputeWindow(seconds) ==
  /\ disputeWindow' = seconds
  /\ UNCHANGED <<escrows, nonceIndex, caseVars, committee, minTimelock, now, ledgerVars>>

SetMinTimelock(seconds) ==
  /\ minTimelock' = seconds
  /\ UNCHANGED <<escrows, nonceIndex, caseVars, committee, disputeWindow, now, ledgerVars>>
-----------------------------------------------------------------------------
(***************************************************************************)
(* The environment: ledger time, and holders opening and closing           *)
(* trustlines (a trustline closes only with a zero balance).               *)
(***************************************************************************)
Tick ==
  /\ now < MaxTime
  /\ now' = now + 1
  /\ UNCHANGED <<escrows, nonceIndex, caseVars, configVars, ledgerVars>>

OpenTrustline(holder, asset) ==
  /\ <<holder, asset>> \in MutableTrust \ trust
  /\ trust' = trust \cup {<<holder, asset>>}
  /\ UNCHANGED <<escrows, nonceIndex, caseVars, configVars, now, balance>>

CloseTrustline(holder, asset) ==
  /\ <<holder, asset>> \in MutableTrust \cap trust
  /\ balance[asset][holder] = 0
  /\ trust' = trust \ {<<holder, asset>>}
  /\ UNCHANGED <<escrows, nonceIndex, caseVars, configVars, now, balance>>
-----------------------------------------------------------------------------
Next ==
  \/ \E c \in Committees, window \in Windows : Initialize(c, window)
  \/ \E seller, buyer \in Parties, asset \in Assets, amount \in Amounts,
        timelock \in Timelocks, nonce \in Nonces :
       CreateEscrow(seller, buyer, asset, amount, timelock, nonce)
  \/ \E i \in Ids, p \in Parties : FundEscrow(i, p)
  \/ \E i \in Ids, p \in Parties, window \in Windows : RaiseDispute(i, p, window)
  \/ \E i \in Ids, p \in Parties : SubmitEvidence(i, p)
  \/ \E i \in Ids, p \in Parties, release \in BOOLEAN : Vote(i, p, release)
  \/ \E i \in Ids, p \in Parties : ResolveDispute(i, p)
  \/ \E i \in Ids : AutoRefund(i)
  \/ \E i \in Ids, p \in Parties : CancelEscrow(i, p)
  \/ \E seconds \in Windows : SetDisputeWindow(seconds)
  \/ \E seconds \in Timelocks : SetMinTimelock(seconds)
  \/ Tick
  \/ \E p \in Parties, a \in Assets : OpenTrustline(p, a)
  \/ \E p \in Parties, a \in Assets : CloseTrustline(p, a)

Spec == Init /\ [][Next]_vars

(***************************************************************************)
(* Time advances, and somebody calls auto_refund when it is due: it needs  *)
(* no authorisation, so any keeper will do.                                *)
(***************************************************************************)
KeeperRefund(i) == i \in Ids /\ AutoRefund(i)

Fairness == WF_vars(Tick) /\ \A i \in EscrowIds : WF_vars(KeeperRefund(i))

FairSpec == Spec /\ Fairness
-----------------------------------------------------------------------------
(***************************************************************************)
(* Properties.                                                             *)
(***************************************************************************)

\* Every variable has its type; in particular no transfer overdraws an account.
TypeOK ==
  /\ escrows \in Seq(Escrow) /\ Len(escrows) <= MaxEscrows
  /\ nonceIndex \in [Parties \X Nonces -> Nat]
  /\ disputes \in [EscrowIds -> Dispute]
  /\ votes \in [EscrowIds -> SUBSET DisputeVote]
  /\ evidence \in [EscrowIds -> Seq(Parties)]
  /\ committee \in Committee
  /\ minTimelock \in Nat /\ disputeWindow \in Nat
  /\ now \in 0..MaxTime
  /\ balance \in [Assets -> [Accounts -> Nat]]
  /\ trust \in SUBSET (Parties \X Assets)

\* The status a dispute must have, given the state of its escrow
StatusesOf(state) ==
  CASE state \in {"Created", "Escrowed"} -> {"None"}
    [] state = "Disputed" -> {"Open"}
    [] state = "Released" -> {"ResolvedRelease"}
    [] state = "Refunded" -> {"None", "ResolvedRefund", "AutoRefunded"}

\* The escrow map and the dispute map, written one after the other, never disagree:
\* vote, submit_evidence and auto_refund read only the dispute, fund and raise only
\* the escrow.  Votes and evidence exist only where a dispute was raised.
CaseMatchesEscrow ==
  \A i \in EscrowIds :
    /\ i \in Ids => disputes[i].status \in StatusesOf(escrows[i].state)
    /\ i \notin Ids => disputes[i].status = "None"
    /\ disputes[i].status = "None" => votes[i] = {} /\ evidence[i] = << >>

\* Idempotency of create_escrow: no seller has two escrows under one nonce.
NonceIndexExact ==
  /\ \A i \in Ids : nonceIndex[<<escrows[i].seller, escrows[i].nonce>>] = i
  /\ \A p \in Parties, n \in Nonces :
       nonceIndex[<<p, n>>] # 0 =>
         /\ nonceIndex[<<p, n>>] \in Ids
         /\ escrows[nonceIndex[<<p, n>>]].seller = p
         /\ escrows[nonceIndex[<<p, n>>]].nonce = n

\* The evidence counter of a dispute counts the list stored beside it.
EvidenceCounted == \A i \in EscrowIds : disputes[i].evidenceCount = Len(evidence[i])

\* The contract holds the deposit of e.
IsHeld(e) == e.state \in {"Escrowed", "Disputed"}

Held(e, a) == IF IsHeld(e) /\ e.asset = a THEN e.amount ELSE 0

HeldInAll(a) == Total([i \in Ids |-> Held(escrows[i], a)], Len(escrows))

\* Escrows share one account: what the contract holds of an asset is exactly the
\* deposits of the escrows that still hold one.
Solvency ==
  \A a \in Assets : balance[a][Contract] = InitBalance[a][Contract] + HeldInAll(a)

\* What escrow e has added to party p's balance of asset a
Settled(e, a, p) ==
  IF e.asset # a THEN 0
  ELSE (IF p = e.seller /\ e.state = "Released" THEN e.amount ELSE 0)
       - (IF p = e.buyer /\ (IsHeld(e) \/ e.state = "Released") THEN e.amount ELSE 0)

SettledInAll(a, p) == Total([i \in Ids |-> Settled(escrows[i], a, p)], Len(escrows))

\* No funds lost: every balance is explained by the states of the escrows.  A buyer is
\* short of its held and released deposits, a seller ahead by its released ones, and a
\* cancelled or refunded escrow has cost nobody anything.
PartiesReconcile ==
  \A a \in Assets, p \in Parties :
    balance[a][p] = InitBalance[a][p] + SettledInAll(a, p)

\* Whatever the other escrows have done with the shared account, the deposit of a
\* disputed escrow can be paid to whichever party holds a trustline: no resolution and
\* no automatic refund fails for want of tokens.
HeldFundsCovered ==
  \A i \in Ids : \A p \in {escrows[i].seller, escrows[i].buyer} :
    /\ escrows[i].state = "Disputed" \/ disputes[i].status = "Open"
    /\ HasTrustline(trust, p, escrows[i].asset)
    => CanPayOut(escrows[i], p)

VotersFor(i, release) == {p \in Parties : [signer |-> p, release |-> release] \in votes[i]}

\* With a threshold above half of the committee, and nobody but its members voting, the
\* two outcomes of a dispute never both reach the threshold, so that the outcome does not
\* depend on who resolves, or when.
NoSplitDecision ==
  \A i \in EscrowIds :
    /\ 2 * committee.threshold > Cardinality(committee.signers)
    /\ \A v \in votes[i] : v.signer \in committee.signers
    => ~ (/\ ReleaseVotes(i) >= committee.threshold
          /\ RefundVotes(i) >= committee.threshold)

\* Disputed funds are frozen: they go to the seller only if as many different signers as
\* the threshold asks for want it, and to the buyer only if that many want it, or the
\* deadline has come.
FrozenUntilDecided ==
  [][\A i \in Ids :
       escrows[i].state = "Disputed" /\ escrows'[i].state # "Disputed" =>
         \/ /\ escrows'[i].state = "Released"
            /\ Cardinality(VotersFor(i, TRUE)) >= committee.threshold
         \/ /\ escrows'[i].state = "Refunded"
            /\ \/ Cardinality(VotersFor(i, FALSE)) >= committee.threshold
               \/ now >= disputes[i].deadline
    ]_vars

\* Released and Refunded are final: the escrow, its dispute, the votes and the evidence
\* stay as they were, however resolve_dispute and auto_refund race.  No step changes
\* the terms of any escrow.
ClosedIsFinal ==
  [][\A i \in Ids :
       /\ escrows[i].state \in {"Released", "Refunded"} =>
            /\ escrows'[i] = escrows[i]
            /\ disputes'[i] = disputes[i]
            /\ votes'[i] = votes[i]
            /\ evidence'[i] = evidence[i]
       /\ escrows'[i] = [escrows[i] EXCEPT !.state = escrows'[i].state]
    ]_vars

(***************************************************************************)
(* The contract implements an arbitrated payment: a party owns its balance *)
(* and its deposits, and only a release changes what anybody owns.         *)
(***************************************************************************)
Phase(e) == CASE e.state = "Created" -> "offered"
              [] IsHeld(e) -> "committed"
              [] e.state = "Released" -> "paid"
              [] e.state = "Refunded" -> "void"

TermsOf(e) == [payee |-> e.seller, payer |-> e.buyer, asset |-> e.asset, amount |-> e.amount]

Deposit(e, a, p) == IF IsHeld(e) /\ e.asset = a /\ e.buyer = p THEN e.amount ELSE 0

Owned(a, p) ==
  balance[a][p] + Total([i \in Ids |-> Deposit(escrows[i], a, p)], Len(escrows))

Payment == INSTANCE ArbitratedPayment WITH
  InitWealth <- [a \in Assets |-> [p \in Parties |-> InitBalance[a][p]]],
  payments <- [i \in Ids |-> [terms |-> TermsOf(escrows[i]), phase |-> Phase(escrows[i])]],
  wealth <- [a \in Assets |-> [p \in Parties |-> Owned(a, p)]]

\* Funding, disputing, refunding and cancelling move no wealth; releasing moves the
\* amount from the buyer to the seller, once.
ImplementsPayment == Payment!Spec

(***************************************************************************)
(* Liveness, under the fairness above.                                     *)
(***************************************************************************)
OpenDue(i) == /\ disputes[i].status = "Open" /\ disputes[i].deadline <= MaxTime
              /\ HasTrustline(trust, escrows[i].buyer, escrows[i].asset)

\* A dispute stays open for ever only if the buyer keeps closing the trustline: otherwise
\* it is closed once its deadline has come, whatever has been voted.  (Deadlines the
\* bounded clock never reaches are left out.)
DisputesClose == \A i \in EscrowIds : []<> ~ OpenDue(i)

\* escrow-dispute/README.md, Key Features: "Timelock ensures funds are never
\* permanently locked".
HoldsFunds(i) == i \in Ids /\ IsHeld(escrows[i])

NeverLocked == \A i \in EscrowIds : HoldsFunds(i) ~> ~ HoldsFunds(i)
=============================================================================
