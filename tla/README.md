# SwapTrade contracts: a TLA+ verification project

This directory models the Soroban contracts of the SwapTrade workspace
(`swaptrade-contracts/`) in TLA+, checks the models with TLC on small instances
and proves what matters most about them with TLAPS for every instance: the safety of the
five contracts that stand alone, and every property of the parts of `counter` but their types. The models map
about 14,700 lines of the implementation. Paths below
are relative to `src/`, or to `src/swaptrade-contracts/` where they name a crate.

Contents: 1 the system, 2 the modelling conventions, 3 the modules, 4 the runs,
5 the proofs, 6 where the code and its documents disagree, 7 what is not
modelled, 8 the plan.

## 1. The system

The repository is a Cargo workspace of smart contracts (`counter`,
`soroban-ping`, `atomic-swap`, `governance`, `escrow-dispute`, `trade-engine`)
with crates, servers, an SDK and scripts around it that no workspace builds.

A contract call is one transaction: it runs to its end, or its `Err` (or trap)
takes back everything it wrote and every transfer it made. All the concurrency is
therefore *between* calls: whoever is authorised may make the next call, ledger
time passes between two calls, and a token contract may refuse a payment because
a trustline was closed in the meantime. The contracts of the workspace do not call
each other; what they share is the token contracts, which they call to take and
to pay assets, and the clock of the ledger.

| Component | State it keeps | Operations that change it | Hard behaviours | What makes it correct |
| --- | --- | --- | --- | --- |
| **Atomic swap** `atomic-swap/` | swaps by id, index (creator, nonce) -> id, next id, minimum expiry | `create_swap`, `fund_swap`, `accept_swap`, `cancel_swap`, `refund_swap`, `set_min_expiry` | accept, refund and cancel race on one swap; the expiry itself; two payments in one call; one custody account for all swaps; retries by nonce | each swap leaves by one exit, a settled swap never moves again, custody covers the open swaps, every party gets exactly what the terms say, a deposit comes back |
| **Escrow with disputes** `escrow-dispute/` | escrows, index (seller, nonce) -> id, disputes, votes, evidence, committee and threshold | `initialize`, `create_escrow`, `fund_escrow`, `raise_dispute`, `submit_evidence`, `vote`, `resolve_dispute`, `auto_refund`, `cancel_escrow` | resolution races the deadline; the committee is replaced in the middle of a dispute; both outcomes have enough votes; two maps that must agree | a decision has the votes it needs, a closed escrow is final, custody covers what is held, a dispute always closes |
| **Governance and proxy** `governance/` | signers, threshold, delay, proposals, paused flag, implementation, scheduled upgrade | `initialize`, `propose`, `approve`, `revoke`, `execute` (7 actions), `cancel`, `execute_scheduled_upgrade` | the rules change while proposals wait under the old ones; signers leave and return; cancel, revoke and execute race | nothing executes without the signatures it was proposed with and the delay it was given, finished proposals are final, an approved one can be carried |
| **Trade engine** `trade-engine/` | orders, one list per pair and side, pools, admin | `initialize`, `create_order`, `cancel_order`, `create_pool`, `execute_trade` (several legs, order book then pool) | matching rebuilds the list it walks; partial fills and rounding; expired orders met half-way; pool fallback; both orientations of a pair share a list | the account covers the open orders and the pools, price-time priority, the list is exactly the open orders, a limit is kept, pools never shrink in value |
| **KYC records** `counter/src/kyc.rs` | records, operators, override proposals, timelock, request duration | `submit_kyc`, `update_status`, `propose_override`, `execute_override`, the setters, add/remove operator, `set_admin` | a final verdict and a timelocked override meet; requests expire; the timelock changes while overrides wait | a final verdict only changes by an override that waited, and is dated |
| **Pool registry** `counter/src/liquidity_pool.rs` | pools of two tokens, shares, fees beside the reserves, hop limit, treasury | register, add and remove liquidity, swap, claim, find a route and swap along it | rounding in four formulas; fees claimed in three ways; the quote and the swap round differently | a share never loses worth, a route pays its quote, the seed cannot be burnt |
| **Portfolio and trades** `counter/portfolio.rs`, `trading.rs`, `batch.rs`, `lib.rs` | balances, one pool, trade counts, profit, three query caches | deposit, swap, batches, LP, trades with profit, faucet | caches must be dropped by every write; batches that stop half-way or not at all; tiers from counts | the pool's shares keep their worth, a cached answer is stale only after a faucet payment |
| **Orders** `counter/src/orders.rs` | orders, book, recurring list, balances | place, take, cancel, match, run a due occurrence | reserves against fills and cancellations; priority; schedule | no order uses more than it may, the book keeps its order, an occurrence waits its interval |
| **Guards** `oracle_adapter.rs`, `volume_circuit_breaker.rs`, `rate_limit.rs` | prices and their history, breaker, traded volume, counts per user and hour, one cached hour for all | update and read a price, record a volume, count, clean up | a trip stored by a call that fails; a window kept in a shared cache | a tripped breaker freezes the price, the volume breaker trips in time, a count does not fall within its hour |
| **NFTs: shares, loans, market** `nft_fractional.rs`, `nft_lending.rs`, `nft_marketplace.rs`, `nft_storage.rs` | owners, shares and vaults; loans, pools, pledges, liquidation queue and bids; listings and offers | about forty operations | an NFT listed, offered, pledged and split at once; two ways to close a loan | the lists and counters agree with the records, a pool keeps what it lent, an NFT moves by one open deal |
| **Farming and bonuses** `farming.rs`, `staking_bonus.rs` | an accumulator per share and debts; stakes with bonuses, totals, a registry | stake, unstake, claim, emit, distribute | claims between changes of the rate; early exits; a distribution walks all stakers | rewards are covered by the emission, totals add up |
| **Votes** `governance_system.rs`, `governance_params.rs`, `governance/delegation.rs`, `quadratic_voting.rs`, `multi_sig.rs` | proposals, votes, delegations, signatures, parameters | propose, vote, delegate, approve, sign, execute, cancel, stage and apply a parameter | several doors to one execution | nothing runs before its vote and its delay |
| **Decentralization** `governance/governance.rs`, `admin.rs` | phase, timelock queue, signatures, log, admin settings | queue, cancel, execute, approve, override, advance | powers shrink while operations wait; a clock that may go back | the log tells what ran, what is cancelled and who approved |
| **Treasury, emergency levels, upgrades, rewards** `governance/treasury.rs`, `emergency.rs`, `upgrade.rs`, `upgrade_manager.rs`, `rewards.rs`, `migration.rs` | proposals and limits; actions and the level; versions; records, epochs and pools | the operations of each | approvals outlive signers, periods straddle, actions overlap, rollbacks | spending per period is capped, a level is that of an active action, a settled upgrade stays settled, a pool covers its claims |
| **Fees** `fee_adjustment_manager.rs` and the four files it uses | configuration, metrics, fee, history, override | update, set by hand, override, configure | cooldown, trend, cap and override meet | the history accounts for the fee in force |
| **Referrals, seasons, gamification** `referral_system/`, `referral.rs`, `seasons.rs`, `gamification.rs` | referrers, codes, commissions, boards, scores, badges, streaks, challenges | register, pay, claim, record, end, join, complete | circles, held commissions, boards cut at their size, claims | nobody pays themselves, boards rank by score, a challenge pays once |
| Everything else | see section 7 | | | not modelled |

The parts of `counter` keep their own storage keys. Where two of them meet in the code
they meet in the models: `NftMarket` composes the marketplace with `NftLending` over one
set of owners, `LimitOrders` holds the reserves its entry points take from the portfolio,
`UpgradeManager` holds the version that the migration also writes.

`PROJECT.json` lists each component with its sources under `components`, and each
hazard at the line where it bites under `hazards`.

## 2. Conventions

* **One action per successful call.** A call that fails changes nothing, so it is a
  stuttering step and has no action. The exceptions are calls that store something and
  then report an error to a caller who may go on: these have an action of their own
  (`Treasury!ApproveTooLate`, `SwapGuards!UpdatePriceJump`). The guard of an action is the conjunction of
  the conditions under which the call returns `Ok`, transfers included: a transfer
  is possible when the payer has the balance and the payee a trustline. `require_auth`
  is modelled by who the caller is.
* **The environment** is time (`Tick`) and the holders' trustlines (`OpenTrustline`,
  `CloseTrustline`) in `AssetLedger.tla`, the token contracts as the code uses them:
  balances, trustlines and the transfer that may fail. They are external code.
* **Numbers** are mathematical integers where the code's checks bound them; timestamps
  saturate at `MaxU64` where the code calls `saturating_add`, and the model instance
  picks a small `MaxU64` so that saturation is reached.
* **Bounds** are constants that only guards of the environment or of creating
  operations mention (`MaxTime`, `MaxSwaps`, `MaxEscrows`, `MaxProposals`,
  `MaxOrders`, ...). The theorems hold whatever their values are.
* **Small units:** where a formula divides, the instance makes the unit small (a fee of
  one in four, prices in halves, a day of one), so that the quotient has a rest and
  rounding takes part in what is checked.
* **Declared twice:** some files of `counter` define a field or a method twice. The module's
  header says which definition is followed; where both can be meant, both are modelled
  (`approve_proposal` in `CounterGovernance`).
* **Abstracted:** events, error codes, view functions, the text of evidence and
  reasons, hashes, `extend_ttl`.

## 3. The modules

| Module | What it is |
| --- | --- |
| `AssetLedger` | the token contracts: `balance`, `trust`, `TransferOk`, `Transferred`, opening and closing trustlines (external code, modelled from its use) |
| `Sums` | `Total` and `SetTotal`, the sums over a list and over a finite set, and `Picked`, the part of a list at a set of places, as recursive functions |
| `AtomicSwap`, `EscrowDispute`, `TradeEngine` | the contracts that hold assets, each composed with `AssetLedger` |
| `Governance`, `KycSystem` | the contracts that hold only their own state |
| `BilateralExchange`, `ArbitratedPayment`, `TimelockedDecisions`, `PriceTimeBook`, `ReviewedStanding` | what each of these five promises, without its mechanism |
| `MCAtomicSwap`, `MCEscrowDispute`, `MCGovernance`, `MCTradeEngine` | the instances for TLC: balances, trustlines, committees, actions, trades (`KycSystem` needs none) |
| `NftFractions`, `NftLending`, `NftMarket` | shares and vaults; loans, pools and liquidations; the marketplace with the loans on its NFTs |
| `PoolRegistry`, `CounterTrading`, `LimitOrders`, `SwapGuards` | the trading side of `counter`: the registered pools, the portfolio with its own pool, the orders, and the guards in front of a swap |
| `Farming`, `StakingBonus` | the accumulator of the farms; the stakes with bonuses |
| `CounterGovernance`, `Decentralization`, `Treasury`, `EmergencyControls`, `UpgradePath`, `UpgradeManager`, `ParticipationRewards` | the governance suite of `counter` |
| `DynamicFees`, `Referrals`, `ReferralCodes`, `Gamification` | fees, both referral programmes, and what scores on the boards (seasons and the profiles of players) |
| `CounterCore` | all parts of `counter` side by side, each with its constants in a record |
| `MCCounter` | gives the parts of `CounterCore` their values for TLC |
| `SequenceLemmas` | lemmas on lists, sums and transfers that the proofs share |
| `AtomicSwapProofs`, `EscrowDisputeProofs`, `GovernanceProofs`, `TradeEngineProofs`, `CounterProofs`, `CounterTimedProofs`, `CounterSuiteProofs` | the theorems of section 5 (those about `KycSystem` stand at the end of `GovernanceProofs`; the names of the two contracts are kept apart for that) |

The constants that a module calls a *bound* are not in the code. Operators whose comment
begins with *Mutation* are altered forms of the operator beside them, of the kind a slip
in the code would make. No specification uses them: putting one in the place of its
original makes the property fail that `PROJECT.json` pairs it with (`mutants`), which
shows that the property says something about the code.

### Atomic swap

`swaps` is the map `SwapKey -> Swap` (ids are handed out 1, 2, 3, ..., so it is a
sequence, and `next_id` is its length), `nonceIndex` the index (creator, nonce) -> id,
`minExpiry` the configured minimum. `CreateSwap` ... `SetMinExpiry` are the entry
points of `lib.rs`. A retried `create_swap` with a known nonce returns the old id
and changes nothing, which is a stuttering step. `AcceptSwap` and `RefundSwap` make
two transfers and are possible only when both are (`AcceptPayable`, `RefundPayable`).

*Promise:* `BilateralExchange`. Each exchange is open, exchanged, or closed; while it
is open it holds what its parties deposited; what a party owns, deposits included,
changes only by an exchange at the agreed terms.

### Escrow with disputes

`escrows`, `disputes`, `votes`, `evidence` and `nonceIndex` are the maps of `storage.rs`;
`committee` is the signer list and threshold. `Initialize` may be called again at any
time, as in the code. `ResolveDispute` releases when the release votes reach the
threshold, and only otherwise looks at the refund votes; `AutoRefund` needs nobody's
authorisation and is due at `deadline = SaturatingAdd(now, window)`.

*Promise:* `ArbitratedPayment`. A payment is offered, held, paid or returned; what is
held belongs to the payer until it is paid in full, and only once.

### Governance

`signers` is a list (a founder may be listed twice), a proposal carries the threshold
and the end of its timelock as of the day it was proposed, `Execute` applies one of
seven actions (`Apply`) and `ScheduleUpgrade`/`ExecuteUpgrade`/`Pause`/`Unpause` are the
proxy's own. Every one of these calls is modelled as the code has it: the wrapper
checks authorisation, and `execute` and `execute_scheduled_upgrade` ask for no signer.

*Promise:* `TimelockedDecisions`. Members, quorum and delay change only when a pending
decision is carried, by what it says, at most once.

### Trade engine

`orders` by id, `book` one list per unordered pair and side (`get_pair_key` sorts the
two addresses), `pools` and the index `pairPool`. `execute_trade` is one action: `MatchLegs`
threads the state (orders, lists, pools, balances) through all the legs, `MatchBook`
visits the list as the loop of `match_leg` does and `UsePool` is the fallback. A leg that
cannot be filled fails the whole trade. Products saturate at `MaxU128` and `MaxI128`
as in the code; the instances keep below both.

*Promise:* `PriceTimeBook`. Fills go to live orders, and an order is touched only
when every live order before it, by price and then by id, is filled by then.

### KYC records

`records`, `operators`, `overrides`, and the two configured durations. `Never` (-1) is an
`Option` that is `None`. `UpdateStatus` and the submissions of users are refused once
`finalized_at` is set; `ProposeOverride`/`ExecuteOverride` are the admin's way around,
behind a timelock of at least `MinTimelock`. `SetAdmin` is `admin.rs`, because everything
here asks who the admin is.

*Promise:* `ReviewedStanding`. A verdict changes only by an override that was announced
at least the minimum time before.

### The parts of `counter`

The crate as committed does not compile (`lib.rs` declares `governance` and
`governance_system` twice, `orders.rs` and `governance_system.rs` define methods twice),
and the NFT files are not declared as modules at all. The models are of what the files
say, function by function; the header of each module names the files and what is left
out. State and actions correspond one to one: a variable is a storage key or a field of
the stored structure, an action a public function. The parts share no storage key, so
`CounterCore` lets a behaviour pick one part and stay in it. Its variables `s1`..`s17`
stand for the variables of the part that runs, in the order the module declares them.

* **`NftFractions`.** `HoldersListed`: the holder list of an NFT is the set of those with
  shares, though sales, transfers and joins write the two separately.
  `VaultSharesBacked`: what a vault minted is what its holders have, within its maximum.
* **`NftLending`.** Loans record amounts; no token moves. What a pool has lent cannot be
  withdrawn from it (`PoolCoversLoans`). `repay_lending_pool_loan` takes the name of any
  pool; the instance has one, the theorem any number. The interest of a loan between two people is divided by the precision twice
  (`nft_lending.rs:218`), `cancel_loan_request` changes nothing, the index of pledges is
  never cleared, and a loan can be funded again: all of this is in the model.
* **`NftMarket`.** `INSTANCE`s `NftLending` with the listed NFTs, so that sales and loans
  interleave on one owner map. `OneDealPerMove` holds although a pledged NFT may be sold.
* **`PoolRegistry`.** Shares, fees and reserves in small integers; routes of two hops.
  `SharesKeepTheirWorth` compares products, so no rounding hides in the property.
* **`CounterTrading`.** Swaps debit the input twice (`perform_swap`), a batch that adds
  liquidity does not debit, one that removes it mints unchecked: the model does the same,
  and `LpWorthNeverFalls` is about the pool's reserves per share. `Root` is the Newton
  iteration of `lib.rs`, which may end one above the root just below a square (3 for 8),
  so the first provider may get a token too many. `StaleOnlyByFaucet` says which write
  misses the caches.
* **`LimitOrders`.** The history variables `budget` and `used` say what an order reserved and
  what it has spent. Nobody but tests calls the matching pass; the model lets anybody.
  A taker is never debited, and the reserve of an expired order is not paid back.
* **`SwapGuards`.** Three independent parts in one module (`OracleNext`, `VolumeNext`,
  `RateNext`); `CounterCore` runs them one by one. A price that jumps for good is refused
  for ever; the staleness test of the wrapper compares `now` with itself.
* **`Farming`, `StakingBonus`.** `claimed`, `earned` and `taken` count what left. A bonus
  distribution credits unclaimed bonuses again; a 365-day bonus can be claimed after 30
  days, and the stake left early.
* **`CounterGovernance`.** Weights are roots of balances while the quorum is in tokens,
  delegators multiply a delegate's weight, a council member may sign repeatedly and a
  canceled proposal still executes; what `NothingRunsEarly` keeps is the vote's end and
  the delays.
* **`Decentralization`.** Ids are tuples in the place of hashes: the same content in the same
  second is the same id, as in the code. The clock may go back, as `SystemTime` may.
* **`Treasury`.** `SpendingCapped` is what a limit per period gives: at most twice the
  limit in any span of that length, because a span may straddle two periods.
* **`EmergencyControls`, `UpgradePath`, `UpgradeManager`, `ParticipationRewards`.** Approvals,
  lifetimes and timelocks as in the code, down to the approvals that remain after a
  signer is removed.
* **`DynamicFees`.** The formula with the code's own thresholds, on three loads of the
  network. `HistoryChains`: each record starts where the last one ended, and the last one
  is the fee in force.
* **`Referrals`, `ReferralCodes`, `Gamification`.** Circles of four and
  more referrers are accepted, which the three users of the instance cannot form; the
  second programme never forms a chain of two. `Gamification` holds the seasons too
  (`SeasonsNext`): the two boards share `Placed`, which takes an entry out and puts it in
  front of the first that is not better. `history` is the code's own list of payments, by which
  `RewardsPaidOnce` counts; `podiums` is a history variable.

## 4. The runs

The instances are the smallest in which the cases that matter occur: two records in
one custody account (so that one can be paid with the deposit of the other), times
before, at and after an expiry, two values of each argument that is compared, and one
trustline per way to fail. Deadlock checking is off everywhere: every bounded instance
ends with time and ids used up, which is the bound and not the system.

| Run | Instance | What it shows |
| --- | --- | --- |
| `swap` | 2 parties, 2 assets, amounts 1-2, nonces 1-2, 2 swaps, expiry 1, times 0-2, one trustline opens and closes (147 thousand states) | `Solvency`, `ExactlyOneExit`, the refinement, and `DepositsComeBack` |
| `escrow_pool` | 3 parties, one asset, amounts 1-2, 2 escrows, sole arbiter, one mutable trustline (83 thousand) | custody: `Solvency`, the refinement, and `DisputesClose` |
| `escrow_votes` | 4 parties, 1 escrow, three committees that replace each other (one lists a signer twice), windows 0, 1 and one that saturates, 2 pieces of evidence (319 thousand) | decisions: `NoSplitDecision`, `FrozenUntilDecided` |
| `escrow_locked` | as above, smaller | section 6 |
| `governance_rules` | 3 addresses, 2 proposals, thresholds 0-2, delays 0-1, `MaxU64` 1 (338 thousand) | `ExecutedHasQuorum`, the refinement, and `ApprovedIsCarried`, while the signers change their own rules |
| `governance_proxy` | 2 addresses, implementations v1 and v2, pause and upgrades by both ways (557 thousand) | `ScheduleIsNews` |
| `trade` | 2 makers, prices 0 and 3 at precision 2, orders of 2 filled one by one (so that halves are rounded), with and without expiry, 2 orders, 1 pool with a 10% fee, one leg each way with a limit and a round trip; the makers are symmetric (64 thousand) | `Solvency`, `NoStrandedBase`, `LimitKept`, and the refinement |
| `trade_orientation` | both orientations of the pair | section 6 |
| `kyc` | 2 people who may be admin, operator and user at once, timelocks 0 and 2 with minimum 1, durations 0 and 4, 2 overrides, times 0-2 (1,364 thousand) | `OverridesWait`, `FrozenUntilOverride`, the refinement |
| `counter` | the parts below, one at a time (753 thousand) | the properties of `CounterCore`; all are proved as well, `TypeOK` in fifteen parts |
| `emergency`, `rewards` | one part of `counter` each | section 6 |

In `counter` (the bounds are in `MCCounter`, beside each part):

| Part | Instance | Properties |
| --- | --- | --- |
| `fractions` | 2 users, one NFT in 2-3 shares, one vault | `BooksAgree` |
| `lending` | 2 users, one NFT, one pool, one loan at 2 of 4 a day, a queue of one, bids, three values of the NFT that are sound, short and due for liquidation, days 0-3 | `PoolCoversLoans` |
| `market` | one NFT, one listing, one offer, one loan without grace, so that a pledge is seized, sold and listed in turn | `BooksAgree`, `OneDealPerMove` |
| `pools` | three tokens in two pools that share one (a route has two hops), fees of 1 and 2 in 4, reserves up to 4 | `SharesKeepTheirWorth`, `QuotesAndSeedsStay` |
| `oracle`, `volume`, `rates` | prices 8, 10 and 14 (the jump to 14 trips), windows 1 and 2; ceilings 0 and 2; an hour of 2 moments | `BreakersHold`, `HourCountKept` |
| `trading` | one trader, amounts of 3 with a fee of 1 in 4, reserves up to 6, a batch of one | `SharesKeepTheirWorth`, `StaleOnlyByFaucet` |
| `orders` | 2 traders, 2 orders, prices in halves, deadlines, one recurring schedule | `OrdersHold` |
| `farming`, `bonuses` | 2 stakers with rates 0 and 2; one staker with two stakes of two tiers | `StakersAreCovered` |
| `treasury` | 2 signers who may leave, one id that is used again, periods of 1 | `SpendingCapped` |
| `emergency` | 2 signers, 2 actions of levels 0, 1 and 3, expiring or not | `LevelCovered` |
| `path`, `manager` | 2 proposals over three versions; 2 pending upgrades and the migration | `UpgradesSettle` |
| `rewards` | 2 participants, 2 epochs, a pool that runs out | `RewardsAccounted` |
| `phases` | 2 guardians, a clock that jumps between moments of all four phases (0, 3, 6, 12 with a delay of 3), a log of 5 | `LogTellsState` |
| `votes` | 16 and 9 tokens (4 and 3 votes), one proposal and one update, delegation, two signatures | `NothingRunsEarly` |
| `fees` | 3 configurations, 3 loads, a history of 3 in pages of 2 | `HistoryChains` |
| `referrals`, `codes` | 3 users | `CommissionsEarned` |
| `seasons`, `games` | 3 traders for 2 places; 2 users for one place, one challenge | `BoardsRank`, `RewardsAccounted` |

`TypeOK` of `CounterCore` joins the type invariants of all parts. A bound of one record where
two could exist (listings, loans, challenges) is enough where the records do not meet;
where they do (orders, offers against listings, upgrade proposals, actions, stakes) there
are two. No liveness is claimed of these parts: nothing in them happens by itself, and
each waits for a caller that nothing obliges to come.

**Fairness.** The clock of the ledger goes on (`WF(Tick)`) in every fair specification.
Beyond that nothing in these contracts happens by itself, so every liveness property
names a caller who keeps trying:

* `DepositsComeBack` assumes `WF(Refund(i))`: the creator of an expired swap with a
  deposit keeps calling `refund_swap`. That is an assumption about people and not a
  fact of the code. The property then says that nothing *else* keeps a deposit in,
  whichever other swaps are settled from the same account, as long as the depositors
  can be paid.
* `DisputesClose` assumes `WF(KeeperRefund(i))`: `auto_refund` needs no
  authorisation, so that one honest keeper is enough. It covers disputes whose
  deadline the clock reaches, and buyers who have a trustline.
* `ApprovedIsCarried` assumes `WF(KeeperExecute(i))`: `execute` needs no
  authorisation either. An approved proposal may still be canceled by its proposer or
  lose a signature; these are the other ways its state may end.

`governance_proxy`, `escrow_votes`, `trade`, `kyc` and `counter` assume no fairness: they
check safety only. Symmetry is used in `trade` and nowhere else. It is sound there: the
start is the same for both makers, and no argument, property or `CHOOSE` singles anybody out.

## 5. The proofs

The theorems hold for every value of the constants: any parties, assets, amounts,
bounds, committees and lists. They rest on the named assumptions in the modules
(`ContractAssumption`: the contract is not one of the parties; amounts are integers
and times are naturals; initial balances are functions to the naturals; the sentinel
`None` is not an address; `TimeAssumption` for KYC; `CoreAssumption`, which joins those of
the parts of `counter`) and on the library's theorems on finite sets, functions and sequences.
Nothing else is assumed, except where a theorem says so; TLC evaluates every assumption on
the instances of section 4.

| Contract | Proved of `Spec` | By |
| --- | --- | --- |
| Atomic swap | `TypeOK`, `FlagsMatchState`, `NonceIndexExact`, `Solvency`, `PartiesReconcile`, `RefundAlwaysCovered`, `ExactlyOneExit`, `SettledIsFinal`, `ImplementsExchange` | `AtomicSwapProofs` |
| Escrow | `TypeOK`, `CaseMatchesEscrow`, `NonceIndexExact`, `EvidenceCounted`, `Solvency`, `PartiesReconcile`, `HeldFundsCovered`, `NoSplitDecision`, `ClosedIsFinal`, `FrozenUntilDecided`, `ImplementsPayment` | `EscrowDisputeProofs` |
| Governance | `TypeOK`, `NonceExact`, `SignedOnce`, `ExecutedHasQuorum`, `ScheduleIsNews`, `FinishedIsFinal`, `ListedOnce`; `ImplementsDecisions` when the founders are distinct | `GovernanceProofs` |
| Trade engine | `TypeOK`, `ImplementsPriceTime`; `Solvency` and `NoStrandedBase` under `NoSaturation` and `OneOrientation`; `LimitKept` under `NoSaturation` and `LimitsFit` | `TradeEngineProofs` |
| KYC | `KycTypeOK`, `VerdictsDated`, `OverridesWait`, `FrozenUntilOverride`, `ImplementsStanding` | `GovernanceProofs` |
| Parts of `counter`: swaps, pools, loans, NFTs | of `CoreSpec`: `PoolCoversLoans`, `QuotesAndSeedsStay`, `SharesKeepTheirWorth`, `StaleOnlyByFaucet`, `BreakersHold`, `HourCountKept`, `BooksAgree`, `OneDealPerMove` | `CounterProofs` |
| in which time decides | of `CoreSpec`: `OrdersHold`, `StakersAreCovered`, `SpendingCapped`, `LevelCovered`, `UpgradesSettle`, `HistoryChains`; `NothingRunsEarly` under `SilenceIsNoQuorum`; `TypeOK` in these parts | `CounterTimedProofs` |
| logs, boards and accounts | of `CoreSpec`: `LogTellsState`, `RewardsAccounted`, `BoardsRank`, `CommissionsEarned`; `TypeOK` in these parts | `CounterSuiteProofs` |

**Custody (swap, escrow).** `Solvency` alone is not inductive: that a payment leaves
enough for the other records depends on what the paid record contributed to the
sum, hence on its flags and state agreeing, and that depends on its terms being the
ones `create` checked (the amounts positive, the parties different). The invariant
`IInv` therefore joins the types, the validity of the terms, `FlagsMatchState` (for the
escrow `CaseMatchesEscrow` and one vote per signer), the exact index, and the two
sums `Solvency` and `PartiesReconcile`. A step changes one record of the sequence,
and the lemmas of `SequenceLemmas` say what this does to `Total`: appending adds
the last term, replacing one term changes the sum by the difference, and each term
is at most the sum when none is negative; others say what one
transfer does to each account. `RefundAlwaysCovered`, `ExactlyOneExit`, `HeldFundsCovered`
and the action properties then follow from `IInv` without induction.

**Decisions (escrow).** `NoSplitDecision` counts: the two sets of voters are disjoint
subsets of the committee, so both cannot be larger than half of it. It needs that a
signer has one vote in the set (part of `IInv`).

**Governance.** `Inv` is `TypeOK`, what the books say of every proposal (nonce, no
double signature, quorum behind an execution) and the state of the proxy.
`ListedOnce` needs the invariant that additions and removals keep the list injective.
The refinement reads the list of signers as a set, and removing one occurrence from the
list removes the member from the set only if nobody is listed twice; `initialize` does
not check that, hence the hypothesis `FoundersDistinct` of `Implementation`.

**KYC.** `IInv` adds to the two invariants that the configured timelock, and the
wait of every override, are at least `MinTimelock`: a proposal takes the timelock of
the day, so it is the setter that has to keep it long enough.

**Trade engine.** The loops over a list and over the legs are recursive functions, and the
proofs go by induction over their index, with an invariant of the state that the loop
threads. `TradeInv` says that an order is filled to between nothing and its amount, that each
list holds the open orders of its pair and side, each once and by price and then id, that the
index leads to the pools, and the types. The refinement follows: a matching pass touches a
prefix of the list and closes every order of it but the last. `NetInv` is `Solvency` with what is owed written as a sum
over orders and pools. No step lowers what the account holds beyond it, and only the
rounding of bids raises it, because the quotes of the parts of a bid sum to no more than the
quote of the whole (`QuoteSplit`). That needs two things the code leaves to its callers:
products that do not saturate (`NoSaturation`), and no leg that trades a pair the other way
round than its orders were placed (`OneOrientation`). The instance `trade` satisfies both; the
run `trade_orientation` shows what happens without the second (section 6). `NoStrandedBase` is
the same sum for assets that no order quotes in. `LimitKept` adds the rounding of each fill: a
bid pays at most a unit of price more, an ask loses at most one unit of quote for every fill.

**Parts of `counter`.** `CoreSpec` runs the parts of `CounterCore` one at a time, so the
invariant of each theorem is `part = "x" => XInv`; the constants of a part are fields of an
arbitrary record with the part's own assumption. `PartBegins` and `PartGoesOn` dispatch to
the lemmas of the part (what `Init` gives, what one call keeps). The run `counter` checks `CoreSpec`
itself, so the theorems speak of the behaviours that TLC explores on the instance.

* *Loans.* `LendingInv` types loans, pools, queue and bids, because the liquidations divide
  by what they hold, and keeps what each pool lent within what it was given. Repaying into
  another pool than the one that lent may make `total_borrowed` negative, which the
  invariant allows: the bound is from above only. So the theorem needs no borrower who names
  the right pool.
* *Registered pools.* The tokens handed out (a sum over providers) stay below the total by the
  seed, so no burn reaches it. The quote of a hop and its swap use the same curve, which is
  monotone, and a fee rounded down: by induction over the hops a route pays what it was
  quoted. Each of swap, deposit and burn satisfies R1 * R2 * T'^2 <= R1' * R2' * T^2, and
  every quotient is rounded for the pool.
* *Portfolio.* `BookInv` adds that the tokens of the positions sum to the supply, so that a burn
  never asks for more than the pool has; a batch is an induction over its operations, each of
  which keeps the worth of a share (`NoLess`).
* *Caches.* `CacheInv`: every write but the faucet's empties the three caches, so what they
  hold was computed from the present state or before a payment.
* *Farming.* Every claim and every debt is rounded down, so `RewardsCovered` is proved from
  the sum without the rounding: over the farmers, scale * (claimed + pending) +
  (accumulator - debt) * staked is at most scale * distributed, while the stakes sum to the
  pool's and no debt is ahead of the accumulator.
* *Bonuses.* The totals of a staker are sums over the list of stakes, the totals of the contract
  sums over the stakers; a distribution walks the registry, which holds each staker once.
* *Treasury.* The code counts what it paid in the present period only. `FundsInv` relates the
  payments to it (`Counted`): none is later than the period, those in it are within the count
  and those of a period's length before it within the limit. With that a span of any start is
  capped (`Capped`); setting a limit starts the count and the property anew.
* *Guards.* Between a trip and the reset no path writes the price; the recorded trade is in the
  window, so the sum that is stored is the sum that is compared; the start of an hour is a
  multiple of it, so the clean-up never takes the running one.
* *Levels and upgrades.* The types are the invariant, joined with `LevelCovered` itself for the
  levels; the cases of the calls do the rest.
* *Votes.* The time a proposal may run at is set by its first vote that passes it and is zero before,
  so nothing may run without a vote. The code asks for a quorum and an approval, and both are met by no
  votes at all when the supply is at most 3: the quorum in tokens is then 0. The supply is
  written in a test only (`governance_system.rs:507`) and is 0 by default, so a proposal without votes
  needs no more than its signatures there. The hypothesis `SilenceIsNoQuorum` excludes
  that, and the instance `votes` satisfies it. The types do without it: `VotesStayTyped` is
  proved apart from the rest of the invariant.
* *Shares.* The holder list of an NFT is exact and without repetition, the shares of its
  holders sum to its supply, and what the holders of a vault have sums to what it minted;
  that is what a join relies on when it empties both.
* *Market.* The loans are `NftLending` on the terms of the market, so their invariant is used
  again as it is. What a portfolio counts is the cardinality of its open listings and offers.
  The seizures of a liquidation are an induction over the queue: each ends the loans that it
  seizes for, and an NFT moves to the lender of one of them (`SeizedBooks`).
* *Log.* `LogTellsState` reads the log backwards: an id that the newest event does not name keeps what
  the rest of the log tells of it. So an action owes a proof only for the id it logs, from the guard that
  let it run. The clock may be set back, and no step of this argument needs it to go on.
* *Reward pools.* The sums by epoch, by participant and in total move together, and an epoch's
  pool is what it was minus its own claims.
* *Challenges.* A claim moves one entry of `progress` from completed to claimed and adds one payment
  to the history, so that claimed entries and payments correspond one to one; the places
  taken are the cardinality of those who joined.
* *Orders.* `OrdersInv` says of each order that what it has used and the reserve of what remains are
  within what it reserved: the quotients of the parts of an order sum to no more than the
  quotient of the whole (`QuotientsAdd`), so a refund after any number of fills is covered. The
  lists stand by price and then id; the matching pass is an induction over its walk
  (`WalkKeeps`, `WalkEnds`), at every step of which the two lists still stand and every order met is sound. A
  recurring order has run no more often than the intervals since its start allow.
* *Fee.* `FeesInv` carries the account in one shape: the history is chained and ordered in time, and
  ends with the fee in force. A clean-up picks by age out of a list ordered in time and a drop takes the
  first entry, so both leave an end of the list (`IsEnd`), and an end of an account is an account. The
  pages join to the history by induction over the pages, and the mean of a list of fees lies
  between its least and its greatest because the sum does, times the length.
* *Referrals.* The search for circles looks a few steps up and accepts longer circles. `Loopless`
  says that nobody is among their own referrers up to three steps, which is as far as a commission
  goes; a registration keeps it, whichever end of a chain it lengthens, because a user registers
  once. What a user earned is what is held and what was withdrawn.
* *Codes.* A trader's referrer has none (`OneStepUp`), so a chain has at most one step and is walked in
  one; badges and their tokens correspond one to one (`BadgesSound`); what was credited to a
  user is what was claimed and what still waits, and the list that waits is split by a
  claim into what is ripe and what stays.
* *Boards.* Taking an entry out and putting it back keeps the order of the rest, and
  cutting at the size keeps whoever is better than one that stays.

**Refinement.** Each `Implementation` proves `Init => Abstract!Init` and that under the
invariant each action is a step of the abstract specification or a stutter, one step of
the proof per action, and joins them by temporal logic.

What is proved for every instance of the contracts that stand alone is not checked again on a
small one unless it is worth a run of its own: of the first table, the runs of section 4 check
`Solvency`, `ExactlyOneExit`, `NoSplitDecision`, `FrozenUntilDecided`, `ExecutedHasQuorum`,
`ScheduleIsNews`, `NoStrandedBase`, `LimitKept`, `OverridesWait`, `FrozenUntilOverride` and the
refinements; the other invariants are carried by the proofs alone.

**Only model-checked.**

* Liveness (`DepositsComeBack`, `DisputesClose`, `ApprovedIsCarried`): fairness is not within
  reach of the prover.
* `TypeOK` of `CounterCore` in the parts that `CounterProofs` is about (fractions, loans, market,
  pools, trading, breakers and rate limits): the invariants of these parts carry the types that
  their proofs need.
* The violations are counterexamples and need no proof.

## 6. Where the code and its documents disagree

With a run that shows it (`findings` in `PROJECT.json`):

* **`escrow_locked`.** "Timelock ensures funds are never permanently locked"
  (`escrow-dispute/README.md:25`): the timelock is checked and not stored; a funded
  escrow nobody disputes stays. `DisputesClose` is what holds instead.
* **`trade_orientation`.** Orders written (A, B) and (B, A) share a list, but a leg reads
  the order it meets in its own units (`trade-engine/src/matching.rs:123`), and pays
  out an asset the maker never locked.
* **`emergency`.** "For critical levels, multi-sig is required" (`emergency.rs:274`): a
  pending action of level High is stored as active, and `recalculate_level` counts it as
  soon as another action is lifted (`emergency.rs:411`). `LevelCovered` is what holds.
* **`rewards`.** "Maximum reward per participant per epoch" (`governance/rewards.rs:81`):
  nothing notes which epoch was claimed, so the same epoch pays again after the cooldown
  (`rewards.rs:405`), until its pool is used up. `PoolsCoverClaims` is what holds.

Met while modelling, without a run of their own:

* atomic swap: "Either party can trigger a refund" (`atomic-swap/README.md:7`), but
  `refund_swap` authorises the creator only.
* escrow: "The outcome is determined by the majority vote" (`escrow-dispute/src/lib.rs:343`):
  with a threshold of at most half, the release wins whenever it reaches the threshold.
  `NoSplitDecision` is what holds instead.
* governance: `vote_count` is never updated; a scheduled upgrade lifts the pause
  (`upgradeable_proxy.rs:41`; `SECURITY.md:96` wants the pause to last); the threshold is
  compared with the length of a list that may repeat a signer.
* trade engine: `get_user_orders` says active orders and returns closed ones too
  (`lib.rs:227`); `OrderStatus::Expired` is never set; the type of
  an order only decides whether its price may be 0 (`types.rs:16-18` promise more), so
  that a market order rests in the book at price 0; the scale of a price differs between `types.rs:42` and
  `types.rs:119`; a maker is paid the floor of each fill, and an ask filled in parts too
  small for a unit of quote is sold for nothing; `fee_bps` has no upper bound; the
  products of the pool formulas saturate instead of failing.
* trade engine: a limited summary of the bids shows the worst levels
  (`trade-engine/src/orderbook.rs:201`).
* `counter`, besides what section 3 says of each part: `swap` of `lib.rs` checks the rate
  limit and never records against it; `safe_swap` counts a refused swap as a trade; the
  "volume" of the tiers is profit; `claim_fees` is zero unless one provider holds
  everything (`liquidity_pool.rs:206`); `emergency_resume` takes one signer where the
  comment asks for the critical threshold (`emergency.rs:358`); an upgrade may be rolled
  back repeatedly; any approver cancels an upgrade of `upgrade_manager.rs`; the reward
  pool of a challenge is not reduced by claims and a streak may grow twice a day; the end
  time of a season is never read and an ended season keeps scoring; "Phase 4: blocked
  entirely" (`admin.rs`), yet proposals of the guardians execute; the cap of a manual
  override is never applied.
* KYC: a second override proposed under an earlier verdict executes on a record that is in
  a new review (`kyc.rs:594`; `kyc.rs:110` and `:518` speak of finalised records);
  `expires_at` outlives the pending state after an override (`kyc.rs:366`, the comment
  at `:79` says it is only set while pending); a request that expired while pending can
  be neither reviewed nor submitted again (`kyc.rs:345`).

## 7. What is not modelled, and why

* **In `counter`:** stop-loss orders and the list of feeds, `oracle.rs` (a price the trades
  read as a constant), badges and daily values of the portfolio, audit trails, the DAO with
  staked votes (`voting.rs`, compiled in test builds only), nonces and snapshots, bridge
  requests (a status without funds), alerts and analytics that no other part reads, and
  the stubs (emergency, flash loans, proof verification), which do nothing. `swap.rs` is
  called by nothing; the volume breaker it feeds is modelled.
* **Outside of every workspace, or not compiled:** `market-data-streaming` (its order
  book is a `BTreeMap` keyed by `f64`), the validator bridge (`src/src/`, without a
  manifest), and the sketches beside the workspace members (access control, bounties,
  private transactions).
* **Clients, scripts, benches, documents:** they call the contracts.
* Within the modelled contracts: views, events, error codes, `extend_ttl`, texts and
  hashes; what the transaction layer of the ledger does to fees and sequence numbers.

## 8. The plan

Done: the contracts that hold assets first, then governance and KYC with their proofs,
then the parts of `counter`, the proofs of the trade engine and those of all parts of
`CounterCore`. Next, by importance:

1. `CounterGovernance` and `Treasury` as further implementations of `TimelockedDecisions`,
   under the conditions that make them one (each council member signs once).
2. `ConnectionManager` (`market-data-streaming/src/connection.rs`), where tasks interleave
   inside an operation: the limit is read, the connection inserted and the metrics counted
   in three steps (`:107`).
3. The validator bridge: a breaker tripped by a call that fails (`src/src/bridge.rs:122`),
   a mint for every attestation from the ninth on (`:100`).
