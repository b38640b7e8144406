------------------------------ MODULE Treasury ------------------------------
(***************************************************************************)
(* The treasury of the governance suite, counter/src/governance/           *)
(* treasury.rs, for one asset: deposits, proposals that signers approve,   *)
(* and withdrawals under a spending limit per period.  The treasury is a   *)
(* plain structure: what a call stored before it failed stays stored.      *)
(*                                                                         *)
(* The id of a proposal folds its free text, the proposer, the amount and  *)
(* a byte of the time by exclusive or: any id may come out, also one that  *)
(* is in use.  The audit log is left out.                                  *)
(***************************************************************************)
EXTENDS Integers, Sequences, Sums

CONSTANTS
    People, Signers,        \* Signers: those the treasury is created with
    Threshold, EmergencyThreshold,
    ProposalIds,
    Amounts, Limits, Thresholds, Lives,     \* bounds: the inputs of calls
    Period,             \* bound: the only duration of a spending limit
    MaxDeposited, MaxTime   \* bounds

TreasuryAssumption ==
    /\ Signers \subseteq People /\ Threshold \in 1..Cardinality(Signers)
    /\ EmergencyThreshold \in 1..Threshold /\ Amounts \subseteq Nat \ {0}
    /\ Limits \subseteq Nat /\ Thresholds \subseteq Nat /\ Period \in Nat
    /\ Lives \subseteq Nat /\ MaxTime \in Nat \ {0}

VARIABLES
    balance, deposited, withdrawn,  \* AssetBalance
    signers, threshold,
    limit,          \* the SpendingLimit, in a sequence: empty when none is set
    proposals,      \* by their id: <<>>, or one proposal
    payments,       \* history: the withdrawals since the limit was set
    now

vars == <<balance, deposited, withdrawn, signers, threshold, limit, proposals, payments, now>>

TreasuryProposal == [emergency : BOOLEAN, amount : Amounts, expires : Nat,
                     approvals : SUBSET People, required : Nat,
                     status : {"Pending", "Approved", "Executed", "Rejected"}]

TypeOK ==
    /\ balance \in Nat /\ signers \subseteq People /\ threshold \in Nat
    /\ \A id \in ProposalIds : \A i \in DOMAIN proposals[id] : proposals[id][i] \in TreasuryProposal
    /\ now \in 1..MaxTime

Init ==
    /\ balance = 0 /\ deposited = 0 /\ withdrawn = 0
    /\ signers = Signers /\ threshold = Threshold /\ limit = <<>>
    /\ proposals = [id \in ProposalIds |-> <<>>] /\ payments = <<>> /\ now = 1

moneyVars == <<balance, deposited, withdrawn>>
proposal(id) == proposals[id][1]
Exists(id) == proposals[id] /= <<>>
IsExpired(p) == now > p.expires

-----------------------------------------------------------------------------
AddSigner(s) ==
    /\ s \notin signers /\ signers' = signers \cup {s}
    /\ UNCHANGED <<moneyVars, threshold, limit, proposals, payments, now>>

\* Approvals a removed signer gave stay in the proposals
RemoveSigner(s) ==
    /\ Cardinality(signers) > threshold /\ signers' = signers \ {s}
    /\ UNCHANGED <<moneyVars, threshold, limit, proposals, payments, now>>

UpdateThreshold(n) ==
    /\ n \in 1..Cardinality(signers) /\ threshold' = n
    /\ UNCHANGED <<moneyVars, signers, limit, proposals, payments, now>>

Deposit(amount) ==
    /\ deposited + amount <= MaxDeposited
    /\ balance' = balance + amount /\ deposited' = deposited + amount
    /\ UNCHANGED <<withdrawn, signers, threshold, limit, proposals, payments, now>>

SetSpendingLimit(max) ==
    /\ limit' = <<[max |-> max, spent |-> 0, start |-> now]>> /\ payments' = <<>>
    /\ UNCHANGED <<moneyVars, signers, threshold, proposals, now>>

\* SpendingLimit::remaining
Remaining(l) == IF now > l.start + Period THEN l.max
                ELSE IF l.max > l.spent THEN l.max - l.spent ELSE 0

\* Mutation: the new period does not begin
RecordSpendStuck(l, amount) ==
    IF now > l.start + Period THEN [l EXCEPT !.spent = amount]
    ELSE [l EXCEPT !.spent = @ + amount]

\* SpendingLimit::record_spend
RecordSpend(l, amount) ==
    IF now > l.start + Period THEN [l EXCEPT !.start = now, !.spent = amount]
    ELSE [l EXCEPT !.spent = @ + amount]

CheckSpendingLimit(amount) == \A i \in DOMAIN limit : amount <= Remaining(limit[i])

-----------------------------------------------------------------------------
\* Replaces whatever has the id; the proposer approves, which never decides
CreateProposal(s, id, emergency, amount, life) ==
    /\ s \in signers /\ balance >= amount
    /\ proposals' = [proposals EXCEPT ![id] =
          <<[emergency |-> emergency, amount |-> amount, expires |-> now + life,
             approvals |-> {s}, status |-> "Pending",
             required |-> IF emergency THEN EmergencyThreshold ELSE threshold]>>]
    /\ UNCHANGED <<moneyVars, signers, threshold, limit, payments, now>>

Decided(p) == p.status \in {"Executed", "Rejected"}

ApproveProposal(s, id) ==
    LET p == proposal(id)
        approvals == p.approvals \cup {s}
    IN  /\ Exists(id) /\ s \in signers /\ ~Decided(p) /\ ~IsExpired(p) /\ s \notin p.approvals
        /\ proposals' = [proposals EXCEPT ![id][1].approvals = approvals,
              ![id][1].status = IF Cardinality(approvals) >= p.required THEN "Approved" ELSE @]
        /\ UNCHANGED <<moneyVars, signers, threshold, limit, payments, now>>

\* An approval that comes too late fails, and leaves the proposal rejected
ApproveTooLate(s, id) ==
    /\ Exists(id) /\ s \in signers /\ ~Decided(proposal(id)) /\ IsExpired(proposal(id))
    /\ proposals' = [proposals EXCEPT ![id][1].status = "Rejected"]
    /\ UNCHANGED <<moneyVars, signers, threshold, limit, payments, now>>

ExecuteProposal(id) ==
    LET p == proposal(id)
    IN  /\ Exists(id) /\ p.status = "Approved" /\ ~IsExpired(p)
        /\ CheckSpendingLimit(p.amount) /\ balance >= p.amount
        /\ balance' = balance - p.amount /\ withdrawn' = withdrawn + p.amount
        /\ limit' = [i \in DOMAIN limit |-> RecordSpend(limit[i], p.amount)]
        /\ proposals' = [proposals EXCEPT ![id][1].status = "Executed"]
        /\ payments' = Append(payments, [at |-> now, amount |-> p.amount])
        /\ UNCHANGED <<deposited, signers, threshold, now>>

RejectProposal(id) ==
    /\ Exists(id) /\ proposal(id).status /= "Executed"
    /\ proposals' = [proposals EXCEPT ![id][1].status = "Rejected"]
    /\ UNCHANGED <<moneyVars, signers, threshold, limit, payments, now>>

Tick == now < MaxTime /\ now' = now + 1
        /\ UNCHANGED <<moneyVars, signers, threshold, limit, proposals, payments>>

Next ==
    \/ \E s \in People : AddSigner(s) \/ RemoveSigner(s)
    \/ \E n \in Thresholds : UpdateThreshold(n)
    \/ \E amount \in Amounts : Deposit(amount)
    \/ \E max \in Limits : SetSpendingLimit(max)
    \/ \E s \in People, id \in ProposalIds, e \in BOOLEAN, amount \in Amounts, life \in Lives :
          CreateProposal(s, id, e, amount, life)
    \/ \E s \in People, id \in ProposalIds : ApproveProposal(s, id) \/ ApproveTooLate(s, id)
    \/ \E id \in ProposalIds : ExecuteProposal(id) \/ RejectProposal(id)
    \/ Tick

Spec == Init /\ [][Next]_vars

-----------------------------------------------------------------------------
PaidWithin(from, to) ==
    Total([i \in DOMAIN payments |->
              IF payments[i].at \in from..to THEN payments[i].amount ELSE 0],
          Len(payments))

\* With a limit set, what leaves the treasury in any span as long as a period is at most
\* twice the limit (the span may straddle two periods), however many proposals were
\* approved in advance; and the balance is what came in without what left.
SpendingCapped ==
    /\ limit /= <<>> =>
          \A t \in 1..MaxTime : PaidWithin(t, t + Period) <= 2 * limit[1].max
    /\ balance = deposited - withdrawn
=============================================================================
