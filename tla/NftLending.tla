----------------------------- MODULE NftLending -----------------------------
(***************************************************************************)
(* Loans against NFTs in the counter contract (counter/src/nft_lending.rs, *)
(* with the registries of counter/src/nft_storage.rs): loans between two   *)
(* people, loans from a pool of deposits, and three ways of liquidation.   *)
(*                                                                         *)
(* Time is in days.  No money moves in this code: it records amounts.  The *)
(* totals of a portfolio that nothing reads are left out.  An NFT has one  *)
(* value, which both valuations, the floor and the estimate, are read as.  *)
(***************************************************************************)
EXTENDS Integers, Sequences, Functions

CONSTANTS
    Users, Nfts,
    Pools,          \* bound: the ids of pools
    Frozen,         \* the users the emergency module has frozen
    Split,          \* the NFTs that are fractionalized
    MaxRate,        \* MAX_INTEREST_RATE_BPS
    RateUnit,       \* the whole a rate is a part of (10000)
    Precision,      \* INTEREST_PRECISION
    Optimal, Slope1, Slope2,    \* OPTIMAL_UTILIZATION_RATE_BPS, RATE_SLOPE_1, _2
    BaseRate,       \* base_rate_bps of a pool
    MaxLtv, TriggerLtv, PartialLtv,     \* in parts of LtvUnit
    LtvUnit,
    MinCover,       \* LIQUIDATION_COLLATERALIZATION_RATIO_MIN, in hundredths
    Grace,          \* LIQUIDATION_GRACE_PERIOD
    QueueSize,      \* MAX_LIQUIDATION_QUEUE_SIZE
    Amounts, Rates, Days, Values, Bids,     \* bounds: the arguments of calls
    MaxLoans, MaxDeposit, MaxTime           \* bounds

LendingAssumption ==
    /\ Frozen \subseteq Users /\ Split \subseteq Nfts
    /\ Users \intersect Pools = {}
    /\ Amounts \union Rates \union Days \union Values \union Bids \subseteq Nat
    /\ RateUnit \in Nat \ {0} /\ Precision \in Nat \ {0} /\ LtvUnit \in Nat \ {0}
    /\ Optimal \in 1..(RateUnit - 1)
    /\ Slope1 \in Nat /\ Slope2 \in Nat /\ BaseRate \in Nat
    /\ MaxLoans \in Nat /\ QueueSize \in Nat /\ MaxTime \in Nat

VARIABLES
    listed,         \* the NFTs with an active listing: the marketplace's
    owner,          \* the owner of each NFT
    loans,          \* the loans, in the order of their ids
    collateral,     \* collateral_loans: the NFT's loan, absent as 0
    activeCount,    \* active_count of the loan registry
    taken, given,   \* active_loans and loans_given of each portfolio
    pools,          \* the pools created
    deposits,       \* lender_deposits, absent as 0
    value,          \* the valuation of each NFT
    queue,          \* the liquidation queue: loan ids
    bids,           \* the best liquidation bid of each loan, none as <<>>
    paused,         \* MARKETPLACE_PAUSED_KEY
    now

loanVars == <<loans, collateral, activeCount, taken, given>>
poolVars == <<pools, deposits>>
saleVars == <<queue, bids>>
vars == <<owner, loanVars, poolVars, value, saleVars, paused, now>>

Parties == Users \union Pools

NFTLoan == [nft : Nfts, borrower : Users, lender : Parties, amount : Nat, rate : Nat,
            repayment : Nat, days : Nat, due : Nat,
            active : BOOLEAN, repaid : BOOLEAN, liquidated : BOOLEAN]

LendingPool == [deposited : Int, borrowed : Int]

TypeOK ==
    /\ owner \in [Nfts -> Parties] /\ loans \in Seq(NFTLoan) /\ Len(loans) <= MaxLoans
    /\ collateral \in [Nfts -> 0..MaxLoans] /\ activeCount \in Nat
    /\ taken \in [Parties -> Nat] /\ given \in [Parties -> Nat]
    /\ DOMAIN pools \subseteq Pools /\ \A p \in DOMAIN pools : pools[p] \in LendingPool
    /\ deposits \in [Pools \X Users -> Nat] /\ value \in [Nfts -> Nat]
    /\ queue \in Seq(DOMAIN loans)
    /\ bids \in [1..MaxLoans -> {<<>>} \union (Users \X Nat)]
    /\ paused \in BOOLEAN /\ now \in 0..MaxTime

Init ==
    /\ listed = {}
    /\ owner \in [Nfts -> Users \ Frozen]
    /\ loans = <<>> /\ collateral = [n \in Nfts |-> 0] /\ activeCount = 0
    /\ taken = [u \in Parties |-> 0] /\ given = [u \in Parties |-> 0]
    /\ pools = <<>> /\ deposits = [entry \in Pools \X Users |-> 0]
    /\ value \in [Nfts -> Values]
    /\ queue = <<>> /\ bids = [i \in 1..MaxLoans |-> <<>>]
    /\ paused = FALSE /\ now = 0

-----------------------------------------------------------------------------
(* Arithmetic.                                                             *)

Minus(x, y) == IF x > y THEN x - y ELSE 0

Live(loan) == loan.active /\ ~loan.repaid /\ ~loan.liquidated

DailyInterest(amount, rate) == (amount * rate) \div RateUnit

\* total_due: each whole day over the due date adds a day's interest
TotalDue(loan) ==
    loan.repayment +
        IF Live(loan) THEN DailyInterest(loan.amount, loan.rate) * Minus(now, loan.due)
        ELSE 0

\* The interest fund_loan adds: the scale is divided out twice
FundedInterest(amount, rate, days) ==
    (((amount * Precision * rate) \div (RateUnit * Precision)) * days) \div Precision

\* calculate_dynamic_interest_rate
DynamicRate(pool) ==
    LET used == (pool.borrowed * RateUnit) \div pool.deposited
    IN  IF pool.deposited = 0 THEN BaseRate
        ELSE IF used <= Optimal THEN BaseRate + (Slope1 * used) \div Optimal
        ELSE BaseRate + Slope1 + (Slope2 * (used - Optimal)) \div (RateUnit - Optimal)

Liquidity(pool) == pool.deposited - pool.borrowed

Ltv(loan) == (TotalDue(loan) * LtvUnit) \div value[loan.nft]

Undercollateralized(loan) ==
    Live(loan) /\ IF value[loan.nft] = 0 THEN TRUE ELSE Ltv(loan) > TriggerLtv

\* can_liquidate_loan
CanLiquidate(loan) ==
    /\ Live(loan)
    /\ \/ (value[loan.nft] * 100) \div loan.amount < MinCover
       \/ now > loan.due + Grace

-----------------------------------------------------------------------------
(* Loans between two people.                                               *)

MayPledge(borrower, n) ==
    /\ ~paused /\ borrower \notin Frozen
    /\ owner[n] = borrower /\ collateral[n] = 0 /\ n \notin Split

\* create_loan: the registry counts a request as active, and never takes the
\* NFT out of its index
Recorded(loan) ==
    /\ Len(loans) < MaxLoans
    /\ loans' = Append(loans, loan)
    /\ collateral' = [collateral EXCEPT ![loan.nft] = Len(loans) + 1]
    /\ activeCount' = activeCount + 1

RequestLoan(borrower, n, amount, rate, days) ==
    /\ MayPledge(borrower, n) /\ n \notin listed
    /\ amount > 0 /\ rate > 0 /\ rate <= MaxRate /\ days >= 1
    /\ Recorded([nft |-> n, borrower |-> borrower, lender |-> borrower,
                 amount |-> amount, rate |-> rate, repayment |-> amount,
                 days |-> days, due |-> 0,
                 active |-> FALSE, repaid |-> FALSE, liquidated |-> FALSE])
    /\ UNCHANGED <<owner, taken, given, poolVars, value, saleVars, paused, now>>

\* Any loan that is not active is funded, the closed ones too
FundLoan(lender, i) ==
    /\ ~paused /\ lender \notin Frozen
    /\ ~loans[i].active /\ loans[i].borrower # lender
    /\ loans' = [loans EXCEPT ![i] = [@ EXCEPT
            !.lender = lender, !.due = now + loans[i].days, !.active = TRUE,
            !.repayment = loans[i].amount
                + FundedInterest(loans[i].amount, loans[i].rate, loans[i].days)]]
    /\ taken' = [taken EXCEPT ![loans[i].borrower] = @ + 1]
    /\ given' = [given EXCEPT ![lender] = @ + 1]
    /\ UNCHANGED <<owner, collateral, activeCount, poolVars, value, saleVars, paused, now>>

\* What decrement_portfolio_loans_taken and _given do, saturating
Closed(borrower, lender) ==
    /\ taken' = [taken EXCEPT ![borrower] = Minus(@, 1)]
    /\ given' = [given EXCEPT ![lender] = Minus(@, 1)]

MarkRepaid(i) ==
    /\ loans' = [loans EXCEPT ![i].repaid = TRUE, ![i].active = FALSE]
    /\ activeCount' = Minus(activeCount, 1)

MarkLiquidated(i) ==
    /\ loans' = [loans EXCEPT ![i].liquidated = TRUE, ![i].active = FALSE]
    /\ activeCount' = Minus(activeCount, 1)

RepayLoan(borrower, i, paid) ==
    /\ ~paused
    /\ loans[i].borrower = borrower /\ Live(loans[i])
    /\ paid >= TotalDue(loans[i])
    /\ MarkRepaid(i)
    /\ Closed(borrower, loans[i].lender)
    /\ UNCHANGED <<owner, collateral, poolVars, value, saleVars, paused, now>>

\* Mutation: a loan repaid once and funded again is liquidated
LiquidateLoanRepaid(i) ==
    /\ loans[i].active /\ ~loans[i].liquidated
    /\ now > loans[i].due + Grace
    /\ owner' = [owner EXCEPT ![loans[i].nft] = loans[i].lender]
    /\ MarkLiquidated(i)
    /\ Closed(loans[i].borrower, loans[i].lender)
    /\ UNCHANGED <<collateral, poolVars, value, saleVars, paused, now>>

\* Anybody: the lender takes the NFT of an overdue loan
LiquidateLoan(i) ==
    /\ Live(loans[i])
    /\ now > loans[i].due + Grace
    /\ owner' = [owner EXCEPT ![loans[i].nft] = loans[i].lender]
    /\ MarkLiquidated(i)
    /\ Closed(loans[i].borrower, loans[i].lender)
    /\ UNCHANGED <<collateral, poolVars, value, saleVars, paused, now>>

\* cancel_loan_request emits an event and changes nothing
CancelLoanRequest(borrower, i) ==
    /\ loans[i].borrower = borrower /\ ~loans[i].active
    /\ UNCHANGED vars

-----------------------------------------------------------------------------
(* Pools.                                                                  *)

CreateLendingPool(p) ==
    /\ p \notin DOMAIN pools
    /\ pools' = [q \in DOMAIN pools \union {p} |->
            IF q = p THEN [deposited |-> 0, borrowed |-> 0] ELSE pools[q]]
    /\ UNCHANGED <<owner, loanVars, deposits, value, saleVars, paused, now>>

DepositToLendingPool(lender, p, amount) ==
    /\ lender \notin Frozen /\ amount > 0
    /\ pools[p].deposited + amount <= MaxDeposit
    /\ pools' = [pools EXCEPT ![p].deposited = @ + amount]
    /\ deposits' = [deposits EXCEPT ![<<p, lender>>] = @ + amount]
    /\ UNCHANGED <<owner, loanVars, value, saleVars, paused, now>>

\* Mutation: a lender may take out what others put in
WithdrawFromLendingPoolAll(lender, p, amount) ==
    /\ lender \notin Frozen /\ amount > 0
    /\ amount <= Liquidity(pools[p])
    /\ pools' = [pools EXCEPT ![p].deposited = @ - amount]
    /\ deposits' = [deposits EXCEPT ![<<p, lender>>] = @ - amount]
    /\ UNCHANGED <<owner, loanVars, value, saleVars, paused, now>>

\* Mutation: what is lent out is not kept back
WithdrawFromLendingPoolLent(lender, p, amount) ==
    /\ lender \notin Frozen /\ amount > 0
    /\ amount <= pools[p].deposited /\ amount <= deposits[p, lender]
    /\ pools' = [pools EXCEPT ![p].deposited = @ - amount]
    /\ deposits' = [deposits EXCEPT ![<<p, lender>>] = @ - amount]
    /\ UNCHANGED <<owner, loanVars, value, saleVars, paused, now>>

WithdrawFromLendingPool(lender, p, amount) ==
    /\ lender \notin Frozen /\ amount > 0
    /\ amount <= Liquidity(pools[p]) /\ amount <= deposits[p, lender]
    /\ pools' = [pools EXCEPT ![p].deposited = @ - amount]
    /\ deposits' = [deposits EXCEPT ![<<p, lender>>] = @ - amount]
    /\ UNCHANGED <<owner, loanVars, value, saleVars, paused, now>>

\* The interest of a pool's loan is fixed at the rate of the moment; a
\* listing is no obstacle.  A total below zero, which repaying into the wrong
\* pool leaves, is read as unsigned, and its multiple overflows.
BorrowFromLendingPool(borrower, p, n, amount, days) ==
    /\ MayPledge(borrower, n)
    /\ amount > 0 /\ days >= 1 /\ amount <= Liquidity(pools[p])
    /\ pools[p].deposited = 0 \/ pools[p].borrowed >= 0
    /\ amount <= (value[n] * MaxLtv) \div LtvUnit
    /\ LET rate == DynamicRate(pools[p])
       IN  Recorded([nft |-> n, borrower |-> borrower, lender |-> p,
                     amount |-> amount, rate |-> rate,
                     repayment |-> amount + DailyInterest(amount, rate) * days,
                     days |-> days, due |-> now + days,
                     active |-> TRUE, repaid |-> FALSE, liquidated |-> FALSE])
    /\ pools' = [pools EXCEPT ![p].borrowed = @ + amount]
    /\ taken' = [taken EXCEPT ![borrower] = @ + 1]
    /\ UNCHANGED <<owner, given, deposits, value, saleVars, paused, now>>

\* The caller names the pool that is paid back
RepayLendingPoolLoan(borrower, p, i, paid) ==
    /\ ~paused
    /\ loans[i].borrower = borrower /\ Live(loans[i])
    /\ paid >= TotalDue(loans[i])
    /\ pools[p].deposited + paid - loans[i].amount <= MaxDeposit
    /\ MarkRepaid(i)
    /\ pools' = [pools EXCEPT ![p] =
            [deposited |-> @.deposited + paid - loans[i].amount,
             borrowed |-> @.borrowed - loans[i].amount]]
    /\ Closed(borrower, loans[i].lender)
    /\ UNCHANGED <<owner, collateral, deposits, value, saleVars, paused, now>>

\* The liquidator gets the NFT, and a pool that lent writes the loan off
LiquidateUndercollateralizedLoan(liquidator, i) ==
    /\ liquidator \notin Frozen /\ CanLiquidate(loans[i])
    /\ MarkLiquidated(i)
    /\ owner' = [owner EXCEPT ![loans[i].nft] = liquidator]
    /\ pools' = [p \in DOMAIN pools |->
            IF p = loans[i].lender
            THEN [pools[p] EXCEPT !.borrowed = @ - loans[i].amount] ELSE pools[p]]
    /\ taken' = [taken EXCEPT ![loans[i].borrower] = Minus(@, 1)]
    /\ UNCHANGED <<collateral, given, deposits, value, saleVars, paused, now>>

-----------------------------------------------------------------------------
(* The queue and the auction of undercollateralized loans.                 *)

EnqueueLiquidation(i) ==
    /\ Undercollateralized(loans[i]) /\ Len(queue) < QueueSize
    /\ queue' = IF i \in Range(queue) THEN queue ELSE Append(queue, i)
    /\ UNCHANGED <<owner, loanVars, poolVars, value, bids, paused, now>>

\* The size of the queue bounds what one call adds, not the queue
MonitorAndQueueLiquidations ==
    LET found[k \in 0..Len(loans)] ==
            IF k = 0 THEN <<>>
            ELSE IF /\ Undercollateralized(loans[k]) /\ k \notin Range(queue)
                    /\ Len(found[k - 1]) < QueueSize
                 THEN Append(found[k - 1], k) ELSE found[k - 1]
    IN  /\ queue' = queue \o found[Len(loans)]
        /\ UNCHANGED <<owner, loanVars, poolVars, value, bids, paused, now>>

PlaceLiquidationBid(bidder, i, bid) ==
    /\ bid > 0 /\ loans[i].borrower # bidder
    /\ Undercollateralized(loans[i])
    /\ bids[i] # <<>> => bid > bids[i][2]
    /\ bids' = [bids EXCEPT ![i] = <<bidder, bid>>]
    /\ UNCHANGED <<owner, loanVars, poolVars, value, queue, paused, now>>

\* execute_liquidation as a function of what it changes.  Half the debt of a
\* loan that is a little short is struck off; for the others the best bidder
\* or the lender takes the NFT, and the registry's count is not told.
Liquidated(s, i) ==
    LET loan == s.loans[i]
        due  == TotalDue(loan)
        new  == IF s.bids[i] # <<>> THEN s.bids[i][1] ELSE loan.lender
    IN  IF value[loan.nft] # 0 /\ Ltv(loan) <= PartialLtv
        THEN [s EXCEPT !.loans = [@ EXCEPT ![i].repayment = due - due \div 2]]
        ELSE [owner |-> [s.owner EXCEPT ![loan.nft] = new],
              loans |-> [s.loans EXCEPT ![i].liquidated = TRUE, ![i].active = FALSE],
              taken |-> [s.taken EXCEPT ![loan.borrower] = Minus(@, 1)],
              given |-> [s.given EXCEPT ![loan.lender] = Minus(@, 1)],
              bids |-> [s.bids EXCEPT ![i] = <<>>]]

Ledger == [owner |-> owner, loans |-> loans, taken |-> taken, given |-> given, bids |-> bids]

Becomes(s) ==
    /\ owner' = s.owner /\ loans' = s.loans /\ taken' = s.taken
    /\ given' = s.given /\ bids' = s.bids
    /\ UNCHANGED <<collateral, activeCount, poolVars, value, paused, now>>

ExecuteLiquidation(i) ==
    /\ Undercollateralized(loans[i])
    /\ Becomes(Liquidated(Ledger, i))
    /\ UNCHANGED queue

\* The loans of the queue that can be liquidated are, at most so many; the
\* others keep their places
ProcessLiquidationQueue(most) ==
    LET step(acc, i) ==
            IF Undercollateralized(acc.s.loans[i]) /\ acc.done < most
            THEN [s |-> Liquidated(acc.s, i), done |-> acc.done + 1, left |-> acc.left]
            ELSE [acc EXCEPT !.left = Append(@, i)]
        after[k \in 0..Len(queue)] ==
            IF k = 0 THEN [s |-> Ledger, done |-> 0, left |-> <<>>]
            ELSE step(after[k - 1], queue[k])
    IN  /\ Becomes(after[Len(queue)].s)
        /\ queue' = after[Len(queue)].left

-----------------------------------------------------------------------------
(* The environment.                                                        *)

SetValue(n, v) ==
    /\ value' = [value EXCEPT ![n] = v]
    /\ UNCHANGED <<owner, loanVars, poolVars, saleVars, paused, now>>

SetPaused(flag) ==
    /\ paused' = flag
    /\ UNCHANGED <<owner, loanVars, poolVars, value, saleVars, now>>

Tick ==
    /\ now < MaxTime
    /\ now' = now + 1
    /\ UNCHANGED <<owner, loanVars, poolVars, value, saleVars, paused>>

PeerNext ==
    \/ \E user \in Users, n \in Nfts, amount \in Amounts, rate \in Rates, days \in Days :
        RequestLoan(user, n, amount, rate, days)
    \/ \E i \in DOMAIN loans :
        \/ \E user \in Users : \/ FundLoan(user, i)
                               \/ RepayLoan(user, i, TotalDue(loans[i]))
                               \/ CancelLoanRequest(user, i)
        \/ LiquidateLoan(i)

PoolNext ==
    \/ \E p \in Pools : CreateLendingPool(p)
    \/ \E p \in DOMAIN pools, user \in Users, amount \in Amounts :
        \/ DepositToLendingPool(user, p, amount)
        \/ WithdrawFromLendingPool(user, p, amount)
        \/ \E n \in Nfts, days \in Days : BorrowFromLendingPool(user, p, n, amount, days)
    \/ \E p \in DOMAIN pools, user \in Users, i \in DOMAIN loans :
        RepayLendingPoolLoan(user, p, i, TotalDue(loans[i]))

SaleNext ==
    \/ \E i \in DOMAIN loans :
        \/ EnqueueLiquidation(i) \/ ExecuteLiquidation(i)
        \/ \E user \in Users : \/ LiquidateUndercollateralizedLoan(user, i)
                               \/ \E bid \in Bids : PlaceLiquidationBid(user, i, bid)
    \/ MonitorAndQueueLiquidations
    \/ \E most \in 1..QueueSize : ProcessLiquidationQueue(most)

Next ==
    \/ PeerNext \/ PoolNext \/ SaleNext
    \/ \E n \in Nfts, v \in Values : SetValue(n, v)
    \/ \E flag \in BOOLEAN : SetPaused(flag)
    \/ Tick

Spec == Init /\ [][Next /\ UNCHANGED listed]_<<vars, listed>>

-----------------------------------------------------------------------------
(* Properties.                                                             *)

\* The step liquidates a loan on n that is live, and short or overdue
Seized(n) ==
    \E i \in DOMAIN loans :
        /\ loans[i].nft = n /\ Live(loans[i]) /\ loans'[i].liquidated
        /\ \/ Undercollateralized(loans[i]) \/ CanLiquidate(loans[i])
           \/ now > loans[i].due + Grace

\* A deposit is never withdrawn out of what is lent: while borrowers name
\* their own pool, a pool holds what it has lent out (withdraw, borrow,
\* repay and liquidate keep total_borrowed below total_deposited).
PoolCoversLoans ==
    \A p \in DOMAIN pools : Liquidity(pools[p]) >= 0
=============================================================================
