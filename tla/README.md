# Trellis contracts in TLA+

This directory holds a TLA+ development of the Trellis smart contracts
(`src/contracts/*`, `src/shared`): specifications written from the Rust sources,
configurations that let TLC check them on small instances, and proofs that TLAPS
checks for every value of the constants.

`PROJECT.json` lists the components, the runs, the mutants that show each property
can fail, the source lines behind every definition, the hazards the properties are
aimed at, and the theorems.

## 1. The system

Trellis is a set of Soroban (Stellar) contracts. Three facts about the host shape
every model here:

* **A call is a transaction.** A handler that returns `Err` or panics leaves no trace:
  every write and transfer it made is rolled back, in the contracts it called too. So an
  action of a module is one *successful* call; its guard is the conjunction of all
  checks the handler makes, wherever they stand, and of the conditions under which its token
  transfers return. A refused call is a step that changes nothing.
* **Calls are serial and not re-entrant.** The concurrency of the system is the order in which
  independent users' calls, and the closing of ledgers (the clock), follow one another.
  That order is arbitrary.
* **Storage entries that outlive their TTL are archived and can be restored**, so expiry of
  storage is not a loss of state and is not modelled.

### Components

| Component | State it keeps | Operations | Interacts with |
|---|---|---|---|
| NFT marketplace (`nft-marketplace`) | settings, currency whitelist, collections with royalties and counters, listings, auctions, offers, three sequences | admin settings; register collection, set royalties; list, buy, cancel; English auction: create, bid, settle; Dutch auction: create, buy, cancel; offer: make, accept, cancel; bulk list, bulk create auctions; oracle setting | token contracts of currencies and NFTs (one pooled balance per token) |
| Aid (`aid-contract`) | admin, treasury, token, pause flag, counter, aid records (and a map of all of them, which only `create_aid` reads) | initialize, update config, create, claim, refund, pause; paginated queries | token contract |
| Payments (`payments-contract`, `shared/payments.rs`) | admin, token, fee, deposits per user and their total, escrow records, list of active escrows | initialize, set fee, deposit, withdraw (all or part), create/release/refund escrow, batch payout | token contract, batch helpers |
| Batch (`shared/batch.rs`) | a re-entrancy guard | multi-transfer and multi-invoke, atomic or not | token contract, any contract |
| Referral (`referral-contract`) | tier configuration, referrer graph, accrued and lifetime rewards, addresses of treasury and registry | configure tiers, set referrer, register, accrue, claim | treasury, registry |
| Treasury (`treasury-contract`) | managers, withdrawal limit, a number per category, the referral contract allowed to have rewards paid | deposit, withdraw, emergency withdraw, distribute reward | referral |
| Registry (`registry-contract`) | address and version of each name, its version history, metadata | set contract, set metadata | asked by referral |
| Governance (`governance-contract`) | roles, admin set with threshold, proposals, parameters | grant, revoke, set admins, propose, approve, execute, set parameter | - |
| Access control (`access-control`) | admins, roles with parents, grants | add/remove admin, create role, set parent, grant, revoke | - |
| Upgradeability (`upgradeability`) | registered contracts and versions, pending proposals, hooks | register, propose, execute, cancel | hooks of the target |
| Shared helpers (`shared`) | - | authorization, storage with TTL, arithmetic, events | all |
| Rebalancer | none | rebalance, which stores nothing and calls no contract | - |
| Oracle | admin | initialize | - |

### What is hard here, and what makes each component correct

* **One pot for everybody's money.** The marketplace, the aid escrow and the payments contract each hold
  the tokens of many parties in one balance per token. No transfer says whose tokens it moves; that
  every open obligation is covered is an invariant of all handlers together.
* **Several ways to close one record** (buy / cancel / settle; accept / cancel; claim / refund;
  release / refund), raced by different callers and by a deadline: exactly one may win, and at least
  one must stay possible.
* **Settings that change under open records**: fee, royalties, bid increment, auto-extension window,
  whitelist, threshold and admin set, tier count, token.
* **Writes that never persist**: `place_bid` stores `Ended` and returns `Err`; `accept_offer` refunds
  an expired offer and returns `Err`. Both are undone by the host; the model treats them as refusals.
* **Re-initialization**: several `initialize` functions have no guard.
* **Integer arithmetic**: shares of a price rounded down one by one, a Dutch price interpolated by an
  integer division, products that overflow to "no royalty".
* **Derived state**: counters, totals and active lists kept beside the records.
* **Cross-contract steps**: reward payment through the treasury, upgrade hooks, batches of calls of which some fail.
* **A graph that calls edit**: parents of roles and referrers are replaced in any order, and loops without a bound walk along them.
* **Two names, two copies**: a contract may be entered again under another name, and pending proposals, hooks and versions are each stored twice.

The `hazards` of `PROJECT.json` give each of these at its line, with the properties that cover it.

## 2. Plan

Most important behaviour first. Each step is: module, MC module, runs, mutants, proofs.

| # | Modules | Abstract specification | Runs | Theorems worth proving |
|---|---|---|---|---|
| 1 | `Ledger`, `Marketplace`, `MCMarketplace`, `LedgerProofs`, `MarketplaceProofs` | custody: the pot covers the obligations | done: `mkt_sales`, `mkt_overdraw` | done: `TypeCorrect`, `CustodyHolds`, `PayoutsAlwaysFunded`, `OutbidAlwaysMadeWhole`, `ClosedForGood`, `SalesCostThePrice`, `AcceptedOffersSwap`, `DutchPricesOnlyFall`, `CountersAlwaysMatch`, `OpenRecordsCanBeClosed`, `NothingIsStuck` |
| 2 | `Escrow` (abstract), `Aid`, `MCAid`, `AidProofs` | `Escrow`: conditional payments that are paid once, to the right party, on the right side of the deadline | done: `aid` | done: `TypeCorrect`, `PotAlwaysPending`, `WalkComplete`, `AidImplementsEscrow`, `PendingAlwaysFunded`, `EachLedgerHasItsWayOut` |
| 3 | `Batch`; `Payments`, `MCPayments`, `PaymentsProofs` | the same `Escrow` for its entries | done: `payments`, `payments_drain` | done: `TypeCorrect`, `ActiveListCorrect`, `TotalCorrect`, `OnlyPayoutsDrain`, `PaymentsImplementEscrow`, `CoveredAlwaysPays`, `CoveredCallsGoThrough`, `PrudenceHoldsTheFunds` |
| 4 | `Referral`; `Rewards` composing it with `Treasury` and `Registry`; `MCRewards`, `RewardsProofs` | `Referral` with a treasury that pays or refuses as it likes, implemented by `Rewards` | done: `rewards` | done: `TypeCorrect`, `NobodyRefersItself`, `RewardsImplementReferral`, `BooksAlwaysBalance`, `TreasuryPaysWhatWasEarned`, `ClaimsArePaid`, `HistoryAlwaysComplete`, `ImmutableMetadataStays`, `AccrualsAreFair` |
| 5 | `Governance`, `MCGovernance`, `GovernanceProofs` | - | done: `governance` | done: `TypeCorrect`, `VotesAlwaysCounted`, `DecisionsAlwaysBacked` |
| 6 | `AccessControl`, `RoleQueries`, `MCAccessControl`, `AccessControlProofs` | reachability in the role graph as a least closed set | done: `access` | done: `AccessTyped`, `HierarchyHasNoCycle`, `RightsHaveACause`, `QueriesAlwaysAgree` |
| 7 | `Upgradeability`, `UpgradeQueries`, `MCUpgradeability`, `UpgradeabilityProofs` | - | done: `upgrades` | done: `UpgradesTyped`, `CopiesAlwaysAgree`, `TargetCannotFollowExecution`, `HistoryIsAChain`, `AnswersAlwaysAgree` |
| 8 | `BatchOutcome` (abstract), `BatchRun`, `MCBatchRun`, `PaymentsProofs` | `BatchOutcome`: a batch is one step with a right receipt | done: `batch`, `batch_promise` | done: `BatchesAreOneStep`, `BatchesMoveOn`, `PromiseNeedsValidAmounts` |
| 9 | `MarketplaceBulk`, `MCMarketplaceBulk` | custody, under the bulk calls too | done: `mkt_bulk` | done, in `MarketplaceProofs`: `BulkCustodyHolds`, `BulkPayoutsFunded`, `BulkReportsAreTrue`, `BulkOffersSwap`, `BulkCountersMatch`, `BulkClosedForGood`, `BulkOutbidMadeWhole`, `BulkDutchPricesOnlyFall`, `BulkSalesCostThePrice`, `NothingIsStuckInBulk` |

Every module is written to be proved about: parameters are `CONSTANTS` with named assumptions,
one action per operation, invariants as conjunctions of named parts, finite sums by cardinality instead of recursion. Loops of the
code are recursive functions or folds (`Uplines`, the shares of a tier configuration, the walks of `RoleQueries` and `UpgradeQueries`), which the prover can unfold; no module declares a recursive operator.

## 3. Modules

### `Ledger` (external code)

Token contracts are not in the repository; `Ledger` states how the contracts use them. The balances of one token are a
function from accounts to naturals. `CanTransfer` is the condition under which `transfer` returns,
`Transfer` its effect, debit first and credit second so that a transfer to oneself changes nothing;
`CanPayAll` and `PayAll` are a run of transfers from one payer. Sums are `SumOver(S, F)`, defined as the
cardinality of a set of units so that proofs can use the finite-set theorems.

### `Marketplace` (`src/contracts/nft-marketplace/src/lib.rs`)

| State | Code |
|---|---|
| `now` | `env.ledger().timestamp()` |
| `config` | `ADMIN`, platform fee, fee recipient, bid increment, auto-extension, in instance storage |
| `currencies`, `collections` | the whitelist and the `CollectionInfo` map |
| `listing_seq`, `auction_seq`, `offer_seq` | the sequences of identifiers |
| `listings`, `auctions`, `offers` | the three maps of records |
| `balance` | what the token contracts keep, for currencies and for collections (NFTs are moved by the same token interface) |

There is one action per entry point, named for it; `settle_english_auction` is two actions,
`SettleWithoutBid` and `SettleWithWinner`, over the shared `Settle`. Details kept because properties depend on them:

* fee, each royalty and the proceeds are separate transfers in the order of the code, rounded down one by
  one, and the proceeds are paid only when positive;
* a royalty product that overflows counts as zero while a fee that overflows fails the call (`MaxI128`);
* `initialize` asks for no signature, has no guard, and resets settings and sequences but no record;
* `set_collection_royalties` checks shares but not the number of recipients;
* `make_offer` does not look at the collection or the recipient, and `accept_offer` takes no royalty;
* `settle_english_auction` does not look at the type of the auction, so an expired Dutch auction can be settled by anyone and returns to its seller;
* the window of an auction is fixed when it is created, and is nothing for a Dutch auction.

Left out: events, error codes, the metadata of collections and tokens and its hash check, the oracle
setting (stored, never read), the pause flag (read, never set by this contract), and view functions. The two bulk
entry points are in `MarketplaceBulk`.

Definitions preceded by the word *Mutant* are plausible faults; no action uses them. `PROJECT.json` says which
property each of them breaks.

### `MCMarketplace`

Values for the constants: two or three users, one or two tokens, prices around the rounding and
increment boundaries. A collection may be a currency at the same time, which the contract permits.

### `MarketplaceBulk`

`Marketplace` with `BulkList` and `BulkCreateAuctions`. A call is one action, its loop a recursive function over the items: `Begun`, `Skip` and `Take` are the state of the
loop before the first item, after a failed and after an accepted one; `ListableItem` and `AuctionableItem` are the checks, which are not those
of the single calls (a currency is not looked at for auctions, a Dutch floor may be zero or negative). A transfer that traps ends the call with all items undone
(`returns`); the answer of a call is the `result` of its loop (`ListRun`, `AuctionRun`). `DutchPrice` therefore has the clamp of the code for a price
that falls below zero before the end. `MCMarketplaceBulk` extends `MCMarketplace` with the items.

### `Escrow` (abstract specification)

What a reader expects of any escrow in this repository, without ledgers, tokens or records: a set of deals (donor, recipient, amount, deadline side, status)
and the purses of the parties. `Open` takes the whole amount from the donor, `Deliver` gives the whole amount to the recipient
and only before the deadline, `Return` gives it back to the donor (only after the deadline unless `EarlyReturn`),
`Pass` is the deadline going by, and `OtherBusiness` is money that moves for other reasons, allowed only with `SharedPurse`. It translates no
code; `Aid` and `Payments` are shown to implement it.

### `Aid` (`src/contracts/aid-contract`)

| State | Code |
|---|---|
| `sequence` | `env.ledger().sequence()`, which the expiry is compared with |
| `config`, `paused` | `ADMIN`, treasury, token; the shared pause flag |
| `counter` | `AidCounter`, in instance storage |
| `aids` | the persistent records `Aid(id)` |
| `balance` | the balance of the one token the contract works with |
| `walk` | an external client that asks for page after page, passing back the cursor it was given |

One action per entry point: `Initialize`, `UpdateConfig`, `SetPaused`, `CreateAid`, `ClaimAid`, `RefundAid`; `Tick` is the clock;
`StartWalk` and `ReadPage` are the queries as a client uses them, with a page limit chosen afresh for every page, interleaved with
all the other calls; like `list_aids` and `list_aids_by_donor` they read the records `Aid(id)`. The persistent map `KEY_AIDS`, which `create_aid` extends and nothing else reads, is left out. `AidDeals` maps the records to deals of `Escrow`: the purse is the users' balances, `EarlyReturn` and `SharedPurse` are false.

### `Batch` (`src/shared/src/batch.rs`)

No state: the operators that say what a batch of transfers does. `Accepted` is the check before the first operation, `Performed` the operations an
atomic batch gets through, `Reverted` the flag of its result. A transfer that traps takes the whole transaction with it (`CanPayAll` in the
guard of the caller); an operation with an invalid amount only ends the loop, and what came before it stays. These are the operators
`Payments` uses, whose one batch is atomic; the whole executor is in the next two modules.

### `BatchOutcome` (abstract specification) and `BatchRun` (`src/shared/src/batch.rs`)

`BatchOutcome` is what a caller gets: a batch is refused, or fails and leaves nothing, or its effect is that of the operations its `Receipt`
calls successful (`OutcomeSpec`; what it assumes of its constants is `BatchAssumption`). What the documentation promises is more and is stated beside it as `PromisedSpec`. The two differ in one outcome, that of
an atomic batch of transfers that meets an invalid amount and returns with `reverted = true`: the executor keeps what precedes it (`KeepWhatPrecedes`), the promise is all or nothing (`AllOrNothing`). `BatchRun` is the executor, one operation a step:

| State | Code |
|---|---|
| `run` | the local variables of an executor: kind, mode, payer, operations, position, results and counts; `saved` is what the host restores when the transaction fails |
| `guard` | the re-entrancy flag in temporary storage |
| `balances`, `flags` | the token, and what invoked contracts (external) set |
| `answer` | the `BatchResult`, a refusal or a trap, until the caller has read it |

`ExecuteMultiTransfer`, `MultiTransferAll`, `ExecuteMultiInvoke` and `BatchInvokeNoArgs` begin a batch (over `Begin`), `RefuseBatch` is their early return; `TransferStep`,
`InvokeStep` and `NoArgsStep` are a round of their loops, `Return` what follows the loop; `RunOutOfBudget` is the host stopping the transaction. In non-atomic mode the calls are
`try_` calls, so a trap is recorded; in atomic mode it takes the transaction with it (`RollBack`), the guard included. A target that calls back into the contract
that runs the batch is trapped by the host, one of the reasons for which an invocation may fail here. `OneStep` maps the state to `BatchOutcome` through `Seen`: while a batch runs, others see what was saved.
`RunInv`, the invariant by which this is proved, says what the results collected so far have to do with the state.

### `Payments` (`src/contracts/payments-contract`, `src/shared/src/payments.rs`)

| State | Code |
|---|---|
| `sequence` | `env.ledger().sequence()` |
| `inits` | no code: how often `initialize` was called, for the bound `MaxInits` and for properties about a contract initialized once |
| `config` | admin, `TOKEN`, `FEE_RATE`, `FEE_RECIPIENT` in instance storage |
| `deposited`, `total` | `DEPOSITED` per user, `TOTAL_DEPOSITS` |
| `escrow_seq`, `escrows`, `active` | `ESCROW_ID_SEQ`, the records `esc_rec`, the list `ESCROW_ACTIVE` (a set here: no code depends on its order, and identifiers do not repeat) |
| `balance` | what the token contracts keep |

One action per entry point, each with the shared function it runs: `Initialize`, `SetFeeRate`, `Deposit`, `Withdraw` and `WithdrawAmount` (over `TakeOut`),
`CreateEscrow`, `ReleaseEscrow` and `RefundEscrow` (over `CloseEscrow`), `BatchPayout`; `Tick` closes a ledger. Details kept because properties depend on them:

* every transfer is in the token configured at the time of the call, also when the record of an entry names an older one;
* a second `initialize` may change the token and sets the total to zero, and touches neither deposits nor entries;
* fee and net amount are two transfers, the fee rounded down; a fee product that overflows makes the withdrawal fail;
* a refund does not look at the expiry; fee recipient, beneficiary and payout recipient may be the contract itself.

`Entries` and `Purses` map the state to `Escrow`: the purse of a user is the balance of the configured token, `EarlyReturn` and `SharedPurse` are true.
`MCPayments` gives the constants values.

### `Referral` (`src/contracts/referral-contract`)

| State | Code |
|---|---|
| `admin` | `KEY_ADMIN` |
| `tier_bps`, `reward_cap` | `TierBps(1)` to `TierBps(MaxTiers)`, so the length is `MaxTiers`; `RewardCap` |
| `referrer` | `Referrer(wallet)` |
| `accrued`, `lifetime` | `Accrued(wallet)`, `LifetimeAccrued(wallet)` |
| `paid` | no storage: the sum of the amounts in `ClaimRewardsEvent`s |

One action per entry point: `Initialize`, `SetTierConfig`, `SetReferrer` and `Register` (over `Link`), `Accrue`, `ClaimRewards`. The search for a cycle is
the statement that a path of at most `MAX_SUPPORTED_TIERS` wallets leads from the new referrer to the wallet; the credits of an accrual, which the code
makes tier by tier, are one cut of their sum per referrer, which comes to the same. Here a claim succeeds or not as it likes.

### `Treasury`, `Registry`, `Rewards` (`src/contracts/treasury-contract`, `registry-contract`)

`Treasury` has the managers, the withdrawal limit, the registered referral contract and the number kept per category; `Registry` the address and version of a name,
its history and its metadata (of a document only what is judged, the lengths of hash and URI). Both are small state machines without a specification of their own. `Rewards` extends `Referral` and instantiates the two:
a step is a call of one of the contracts, and `Claim` is the one call that crosses all three, with `ResolvesTo` (registry first, own address second; another contract in the registry's place answers what it likes) and the
treasury's `DistributeReward` in one atomic action. The addresses may also name `Elsewhere`, any other contract: in the treasury's place it accepts or refuses claims out of sight
(`ClaimElsewhere`), and registered with the treasury in place of the referral contract it may have any amount paid (`ForeignReward`).

### `Governance` (`src/contracts/governance-contract`)

| State | Code |
|---|---|
| `admin` | the address of `set_admin`, which sets parameters |
| `threshold`, `admin_set` | `KEY_THRESHOLD`, `KEY_ADMIN_SET` |
| `held` | the persistent entries `Role(account, role)` |
| `paused` | the shared pause flag |
| `params` | `Parameter(key)`: the parameters that have a value |
| `proposals` | `(KEY_PROPOSAL, id)`; the length is `KEY_PROP_CNT` |
| `approvals` | `(KEY_APPROVAL, id, account)` |

One action per entry point: `Initialize`, `GrantRole`, `RevokeRole`, `SetAdminSet`, `SetParam`, `Propose`, `Approve`, `Execute`, the last over `ExecuteAction`.
Details kept because properties depend on them:

* an execution reads the threshold of the moment, and the approvals may come from accounts that have lost the role since;
* a parameter proposed with a value out of its bounds is accepted, approved, and refused when executed; a tier beyond the tenth has no bounds and can never be set;
* `initialize` asks for no signature and has no guard: it adds roles, replaces threshold and admin set, seeds parameters, and leaves proposals and approvals.

### `AccessControl` and `RoleQueries` (`src/contracts/access-control`)

| State | Code |
|---|---|
| `super_admin`, `admins` | `SuperAdmin`; the accounts that the map `Admins` maps to true |
| `roles`, `all_roles` | the flags `RoleExists(role)`; the list `all_roles`, which every `initialize` extends once more |
| `parent` | `RoleParent(role)` |
| `members` | `RoleMembers(role)`, all roles in one set of pairs |

One action per entry point: `Initialize`, `AddAdmin`, `RemoveAdmin`, `CreateRole`, `SetRoleParent`, `GrantRole`, `RevokeRole`. The ancestors of a role are the
least set that has it and is closed under `parent` (`Up`), which needs no recursion; `RoleQueries` adds the loops of `has_role`, `has_ancestor` and
`get_role_ancestors` as the code runs them: functions of the number of steps the walk may still take, which gives up after more steps than there are roles. The code has no such bound; `QueriesAlwaysAgree` proves that
no walk ever meets it. `QueryAssumption` says that there are finitely many roles.

### `Upgradeability` and `UpgradeQueries` (`src/contracts/upgradeability`)

| State | Code |
|---|---|
| `roles` | the persistent entries `Role(account, role)` |
| `entries`, `by_name`, `reg_count` | `RegistryEntry` per contract, the contract per name, the number of registrations |
| `hooks` | `KEY_HOOK`, the second copy of an entry's hook |
| `prop_count`, `proposals`, `pending` | the sequence of proposals, the proposals, `KEY_PENDING` per contract |
| `history` | the `UpgradeRecord` per contract and proposal |

One action per entry point: `Initialize`, `RegisterContract`, `SetMigrationHook`, `ProposeUpgrade`, `ExecuteUpgrade`, `CancelProposal`; `VerifyUpgradeAuthorization` is the question a
target asks. Hooks are external and answer as they like (`pre_ok`, `post_ok`); a refusal undoes the call. `UpgradeQueries` has what off-chain readers are told, the loop
of `get_upgrade_history` included, as a function of the id it is at and the number of records still missing.

### `LedgerProofs`, `MarketplaceProofs`, `AidProofs`, `PaymentsProofs`, `RewardsProofs`, `GovernanceProofs`, `AccessControlProofs`, `UpgradeabilityProofs`

Lemmas about sums and transfers, and the theorems of section 5.

## 4. What the runs show

Nobody is obliged to call a contract, so no call is fair. What matters instead
is that the party concerned *can* always act, which `NothingStuck` states with `ENABLED`. Only the steps *inside* a call are fair: a host that began a transaction
runs it to its end or stops it, so `BatchRun` has `WF_runVars(Work)`, and `BatchEnds` is the liveness property that rests on it. Deadlock checking is on in every run;
it finds nothing because an administrator can always change a setting. A type invariant is among the properties of a run only where it says more than types
(`governance`); the others are proved (section 5), and PROJECT.json lists these theorems without a run.

**`mkt_sales`** - listings and both auctions of one collection, with fee, royalty, bid increment and
auto-extension. Checks that every token is covered (`Custody`), the collections' counters are exact while `initialize` has been called once at most (`CountersMatch`), nothing is stuck
(`NothingStuck`), a sale costs its price and not more, unless the NFTs are themselves the currency (`SaleCostsThePrice`), an outbid bidder gets back the
whole bid and the auction never becomes shorter (`OutbidIsMadeWhole`), a Dutch price only falls and stays in its range (`DutchPriceOnlyFalls`),
and closed records stay closed (`ClosedStaysClosed`). The last three speak of identifiers that the step does not hand out again, as a second `initialize` makes
the sequences do (`ListingReissued`, `AuctionReissued`, `OfferReissued`).

**`mkt_bulk`** - bulk calls and all other calls of two users over one pot, an offer, two listings and an auction, `initialize` called a second time over open records. Checks that
a bulk call returns exactly the records it opened and escrows exactly their NFTs, wherever a failing item stands (`BulkTakesWhatItReports`), that custody holds also for the records
no single call could open, that offers past their deadline and bulk records can be closed (`NothingStuck`), and that accepting an offer is an exact swap (`OfferIsASwap`). The
items are two good ones around a bad one, one that traps behind a good one, a Dutch auction without duration before one with a negative floor, and a Dutch one
with a floor above its start before an English one with the same, which is accepted.

**`mkt_overdraw`** - a violation. `register_collection` bounds each royalty share (10 %) and the number of recipients (10)
but not their sum; with a platform fee on top, payments of a sale exceed its price. `settle_english_auction` pays from the contract's
balance, so the difference is taken from somebody else's escrow. TLC ends with a pending offer the contract does not hold the tokens for.

**`aid`** - three aids between two (interchangeable) users. Checks that the contract's balance is what strangers sent it plus exactly the pending aids
(`PotIsPending`), that a claim and a refund of one aid are never possible together and a pending one always allows one of them (`OneWayOut`), that a client
which follows the cursors gets every matching aid exactly once and in order although aids are created between its pages (`WalkMissesNothing`), and that
every step is a step of `Escrow` or changes nothing it sees (`ImplementsEscrow`).
Amounts are 0 to 2 and page limits 0 to 2, so three aids make a full page, a partial page and an empty one, and the illegal zero occurs; the
expiries 1 and 2 with ledgers up to 2 give an aid that is created at its deadline, one that expires and one that does not.

**`payments`** - two users and two entries over two tokens, payouts, a second `initialize` that may change the token. Checks that only a payout ever takes
more from the contract than off its books (`OnlyPayoutsEatIntoCustody`), that the list of active entries and the total of deposits agree with the records they are copies of
(`ActiveListIsExact`, `TotalIsTheSum`), that a contract which holds what it owes can be emptied by those it owes it to (`CoveredMeansPayable`), and that entries
implement `Escrow`. Bounds: ann's four units are two deposits, two entries, or one of each, and reach ben only through entries and payouts; the fee of 50 % on
two units is one unit, that of 70 % overflows `MaxI128` on two units and not on one, and 100.01 % must be refused; ledgers up to 2 with
expiry 1 give releases before, at and after the deadline. The fee recipient is a user here; that the contract may be its own fee recipient is covered by the proofs.

**`payments_drain`** - a violation: with `initialize` called once and no user doing anything unusual, a payout spends what an active entry holds.

**`rewards`** - three wallets, one of them the admin of all three contracts. Checks that no order of registrations and replaced links leads a wallet to itself within the tiers an accrual can reward
(`NoShortCycle`), that an accrual credits the buyer nothing, everybody for at most one tier, nothing beyond the cap in force and no more than the amount in all
(`AccrualIsFair`), that what a referrer earned is what it was paid and may still claim (`BooksBalance`), that the category of rewards shrinks
only by a withdrawal within the limit, by exactly what one referrer had accrued and then was paid, or for another contract registered instead
(`RewardsLeaveOnlyAsEarned`), that no claim is cleared unpaid unless it was sent elsewhere (`NoEmptyClaim`), that the registry's history is complete (`HistoryIsComplete`),
and that immutable metadata stays (`ImmutableIsForGood`).
The whole product of graph, books and names is too large for one run, so the constraint `MCFocus` of `MCRewards` keeps TLC to two parts of it that overlap. In `GraphAlone` treasury and registry are idle and the graph of three wallets
takes every shape: `MAX_SUPPORTED_TIERS` is 2 instead of 10, so that the search misses the ring of three wallets as the code misses one of eleven; the shares are one of
100 % and two of 50 %, which round on an amount of 3; three more configurations must be refused. In `OneReferrer` ben alone earns, under a cap of 2, and the three contracts do everything else they can: rewards of 1 and 2
against a limit of 1 and a category of up to 2 give claims a withdrawal could not make and claims the category does not cover; two versions let an older one return. TLC checks the states and steps at the border of a part and goes no further from there.
The constraint cuts behaviours short, which is sound for safety properties; none of these is a liveness property. There is one category here; that a claim touches no other, and all seven properties without the constraint, are proved.

**`governance`** - three accounts, two of them admins at first, two proposals. Checks that parameters stay within their bounds whichever of three ways sets them (`TypeOK`),
that the number of approvals kept in a proposal is the number of accounts that gave one (`VotesAreCounted`), and that a proposal is executed once, with as many approvers as the
threshold of the moment, and that nothing else pauses the contract (`DecisionsAreBacked`). Thresholds 0 to 3 against lists of two give a refused zero, one below, one equal and one
above the length; the proposals include one that takes the role from an admin who may vote and one that gives it to an outsider, and one whose value is out of bounds.

**`access`** - two accounts, the super role and two more, at most four entries in the list of roles. Checks that no order of `set_role_parent` closes a cycle (`NoRoleCycle`, on which the loops
of the code depend to end), that what the queries answer fits together (`QueriesAgree`), and that a user wins or loses a role only by a call about that user or about the
hierarchy above the role (`RightsFollowTheirCause`). Three roles are the least for a cycle the check of the direct parent would miss; the fourth list entry is a second `initialize`.

**`upgrades`** - two contracts, two names, three proposals, versions 0 to 3. Checks that pending entries, live proposals, hooks and counts agree in every order of proposing, executing, cancelling and entering again
(`CopiesAgree`), that a target which asks after the execution is refused (`ExecutedIsRefused`, a property of the code the documentation contradicts, see section 6), that the history is a gapless chain that ends at the registered version
(`HistoryTellsTheVersion`), and that readers are told just that (`AnswersAgree`). The last three speak of contracts entered once; entered again under a second name, a contract may get a lower version. Two names let one
contract take both; three proposals give two upgrades of one contract with a cancelled one, or one of the other contract, between them.

**`batch`** - every batch of up to three transfers of 0 to 2 units from a purse of 2, of up to two invocations, and one that is too long, in both modes. Checks that the executor
implements `BatchOutcome` (`BatchIsOneStep`) and that a batch that began ends with the guard open (`BatchEnds`). Amount 0 is invalid, a transfer of 2 after one of 1 finds too little, a transfer to
oneself leaves enough: all mixes of success, failure and trap occur at each position.

**`batch_promise`** - a violation: the same batches against what the documentation says of the atomic mode (`BatchKeepsItsPromise`). TLC ends with a batch of a transfer of 1 and one of 0 that returned `reverted = true`, and the
first transfer made.

Bounds of the marketplace runs. One or two identifiers of each kind are enough for two records to compete for one pot, for an identifier to be reused
after a second `initialize` (`MaxInits = 2`), and for a bid to be outbid and outbid again. `MaxTime` passes the end
of the longest auction or offer. Prices are few but chosen so that fee and royalty
round, so that an increment is below one unit, and (`MaxI128`) so that a product overflows: in
`mkt_sales` the price times the highest share is above 19999, and the sale pays no royalty.

## 5. What is proved

`LedgerProofs` proves, about finite sums: a sum is a natural number, splits over disjoint sets, changes by the
difference when one summand changes, is monotone, and bounds another sum whose terms go into its own one to one (`SumInjected`); and about transfers: they return natural balances, a payer loses at most what is paid,
and a run of payments that the balance covers in full goes through (`CoveredIsPayable`). `IterationExists` says that a step can be iterated any number of times: it is what turns a recursive function of the model into the
equation it was written as, for one number of steps after the other.

`MarketplaceProofs` proves, for all users, tokens, balances, prices, settings and bounds allowed by `MarketAssumption`:

* **`TypeCorrect`**: `Spec => []TypeOK`. `TypeOK` is `WellFormed` and `FloorsChecked`. `WellFormed` is inductive by itself because it carries two facts that the record
  types alone do not give: `AuctionTerms` (start before end; without it the Dutch price could divide by zero) and
  `RoyaltiesChecked` (shares within limits; without it a royalty could be negative). `FloorsChecked` (floors between zero and the start) is what the single calls add and the bulk calls do not, so the theorems
  that hold with bulk calls rest on `WellFormed` alone. The proof has one lemma per action group, over lemmas
  on `SalePayments`, `Trade`, `Pull`, `Push` and the Dutch price.
* **`CustodyHolds`**: `ASSUME RoyaltiesLeaveRoom PROVE Spec => []Custody`. The hypothesis, that no royalty list a caller passes adds up to more than
  the highest fee leaves, is exactly what `mkt_overdraw` shows the code does not enforce. `Custody` is inductive relative to `WellFormed`: each action
  changes one record and moves tokens; the debt of that record is one summand of `Owed`, and the lemmas compare the change of the summand with the
  change of the contract's balance, token by token, also when currency and collection are one token and when the fee recipient or a royalty recipient is
  the contract itself. The key step is **`SaleTotal`**: fee, royalties and proceeds come to exactly the price.
* **`PayoutsAlwaysFunded`**: under the same hypothesis, `Spec => []PayoutsFunded`: whenever a record is open, the transfers that cancel or settle it, or accept an offer, find the balances
  they need. This is what of `NothingStuck` is about money.
* **`OpenRecordsCanBeClosed`**, **`NothingIsStuck`** and **`NothingIsStuckInBulk`**: the rest of `NothingStuck` but the `ENABLED`, an operator the prover cannot reason about. What makes a step possible is given
  instead: `ListingTakenBack`, `AuctionClosedAs`, `AuctionTakenBack`, `AuctionPaidOut` and `OfferTakenBack` spell out the state after the call, and `WaysOut` says that the action allows the step into it, guards on callers, statuses and times
  included, for an open listing by its seller, for an auction past its end by anyone, for a Dutch one also by its seller, for a pending offer by its offerer. It follows from `PayoutsFunded` and `SettlementsFit`, that the fee on the standing bid is a product
  that fits; and these hold in every state, of `Spec` and of `BulkSpec`, under `RoyaltiesLeaveRoom` and `FeesFit`, that no fee within the limit overflows on a price that can be bid. The code has no bound on bids from which that follows (a bid above the
  largest amount divided by the fee is taken and cannot be settled), so it is a hypothesis. The inductive invariant is `BidsAndFee`.
* **`DutchPriceBounds`** and **`DutchPricesOnlyFall`**: the Dutch price lies between floor and start at every time, and `Spec => DutchPriceOnlyFalls`, by the monotony of its division.
* **`OutbidAlwaysMadeWhole`**: `Spec => OutbidIsMadeWhole`. It needs the invariant `StandingBidders` (only users, never the contract itself, hold a standing bid, and on English auctions only),
  so that the refund leaves the contract.
* **`ClosedForGood`**, **`AcceptedOffersSwap`**, and, under `RoyaltiesLeaveRoom`, **`SalesCostThePrice`**: the action properties `ClosedStaysClosed`, `OfferIsASwap`, `SaleCostsThePrice`; the last rests on `SaleTotal`.
* **`BulkCustodyHolds`**, **`BulkPayoutsFunded`** (both under `RoyaltiesLeaveRoom`), **`BulkOffersSwap`** and **`BulkReportsAreTrue`**: with the bulk calls among the steps, `BulkSpec => []Custody`,
  `BulkSpec => []PayoutsFunded`, `BulkSpec => OfferIsASwap` and `BulkSpec => BulkTakesWhatItReports`, for every batch of every length. The argument is an invariant of the loop, `ListingRuns` or `AuctionRuns`: after any number of
  items, the identifiers in the result are the ones taken from the sequence so far, in order, one for each success; the contract holds the NFTs of exactly these records on top of what it held (`Reported`); and what the
  records of the loop are owed beyond the stored ones, it holds beyond its balance (`ListingsCovered`, `AuctionsCovered`: more only where a restarted sequence overwrites an open record). `TakeEffect` and `SkipEffect` say what one item does, `ListItemKeeps` and `AuctionItemKeeps`
  that the invariant survives it, `ListRunKeeps` and `AuctionRunKeeps` that it holds of the whole loop. A buyer who pays a price below the start, or none, for an auction with a negative floor takes nothing from the pot (`PricedSale`, `NothingPaid`).
* **`CountersAlwaysMatch`** and **`BulkCountersMatch`**: `Spec => []CountersMatch` and `BulkSpec => []CountersMatch`. Until a second `initialize` the inductive `CountersInv` adds that the next identifiers have never been used, that open records belong to
  registered collections and that there is nothing before the first `initialize`; without the first of these a new record could replace an active one, which is what happens after a second `initialize`. For bulk calls the loop
  invariants carry it from item to item (`ListingsCounted`, `AuctionsCounted`).
* **`BulkClosedForGood`**, **`BulkOutbidMadeWhole`**, **`BulkDutchPricesOnlyFall`** and, under `RoyaltiesLeaveRoom`, **`BulkSalesCostThePrice`**: the other action properties with bulk calls among the steps. They are not word for word those of `Marketplace`, for two reasons.
  One bulk call takes several identifiers, so the exception for identifiers taken again is `ListingReopened` and `AuctionReopened` (any identifier the step takes, and only after a second `initialize`: `ReissuedIsReopened`
  derives from `CountersInv` that a single call, too, takes the identifier of a record only then). And floors may be negative, so that the hammer price of an auction may be: `BulkDutchPriceFalls` adds that it is so at most when the auction is over, and `BulkSaleCostsThePrice` counts
  it as nothing (`Cost`), which is what is then paid. The loop invariants carry that no record but those opened is touched (`OthersKept`) and that a Dutch auction has room to fall (`StartsAboveFloor`).

`AidProofs` proves, for all users, amounts, expiries and bounds allowed by `AidAssumption`:

* **`TypeCorrect`**: `Spec => []TypeOK`, where `TypeOK` carries that the identifiers of records are exactly those below the counter.
* **`PotAlwaysPending`**: `Spec => []PotIsPending`. `PendingUpdate` says what a change of one record does to the sum of pending amounts; each action
  then moves exactly that amount.
* **`WalkComplete`**: `Spec => []WalkMissesNothing`. The invariant says that what the client has received is exactly what matches at or below its cursor.
  It is inductive because records are only added at the counter (`RecordsBelowCounter`), so nothing is ever inserted
  behind the cursor, and because one page is a gapless segment (`PageIsASegment`, over `LeastExists` and `GreatestExists`).
* **`AidImplementsEscrow`**: `Spec => ImplementsEscrow`, by step simulation: creating is `Open`, claiming `Deliver`, refunding `Return`, a ledger that closes `Pass` for
  the deals it takes past their deadline, everything else a stutter.
* **`PendingAlwaysFunded`**: `Spec => []PendingIsFunded`, from `PotAlwaysPending`: the transfer of a claim or a refund is never without funds, the part of `OneWayOut` that is about money.
* **`EachLedgerHasItsWayOut`**: the rest of `OneWayOut` but the `ENABLED`: in a typed and funded state, up to its expiry a pending aid has the claim by its recipient, with the state that follows spelled out (`PaidOut`), and no refund; after it the refund and no claim.

`PaymentsProofs` proves, for all users, tokens, amounts, fee rates, payouts and bounds allowed by `PaymentsAssumption`:

* **`TypeCorrect`**: `Spec => []TypeOK`. `TypeOK` carries that entries exist exactly up to the sequence number (`RecordsUpToSequence`), without which a new entry could overwrite an old one.
* **`ActiveListCorrect`**, **`TotalCorrect`**: `Spec => []ActiveListIsExact` and `Spec => []TotalIsTheSum`. The second is not inductive alone: before the first `initialize` nothing
  can be deposited (`BeforeInitialize`), so the total that `initialize` sets to zero is right the first time.
* **`OnlyPayoutsDrain`**: `Spec => OnlyPayoutsEatIntoCustody`. Of each call an effect lemma (`DepositEffect`, `TakeOutEffect`, `CreateEffect`, `CloseEffect`) says what it
  does to the books and what to the contract's balance; the change of `Owed` is the change of one summand, and `SharesTotal` says that fee and net amount come to the amount.
* **`PaymentsImplementEscrow`**: `Spec => ImplementsEscrow`, by step simulation: `CreateOpens` and `CloseCloses` are the steps on entries, a closed ledger is `Pass`, everything else `OtherBusiness`.
* **`CoveredAlwaysPays`**: `ASSUME BPS_DENOM <= MaxI128 PROVE Spec => []CoveredPays`: a contract that holds what it owes has the funds for any withdrawal, refund or release, fee and net amount one after the other.
* **`CoveredCallsGoThrough`**: the rest of `CoveredMeansPayable` but the `ENABLED`: where `CoveredPays` holds, each withdrawal and each refund passes its checks and has the next state that `TakenOut` and `GivenBack` spell out.
* **`PrudenceHoldsTheFunds`**: `Init /\ [][Prudent]_vars` implies `[]FundsAreHeld`, the property that `payments_drain` shows violated, and that the contract holds what it owes. `Prudent` is `Next` where a payout leaves what is owed and a second
  `initialize` keeps the token: what the operator has to watch for the description of the contract to be true, and all of it.

and for all purses, flags, batches of any length allowed by `BatchAssumption`:

* **`BatchesAreOneStep`**: `RunSpec => BatchIsOneStep`, the refinement of `BatchOutcome` by the executor. The inductive `RunInv` says at every position of the loop that the counts are those of the results (`Tally`), that the
  balances are what the payments recorded as made leave (`TransfersMade`), that the flags set are those of the successful invocations (`InvocationsMade`), that in atomic mode nothing failed before the present
  operation (`AtomicProgress`), and that `saved` is the state others see. Beginning and working are stutters, `Return` is the one step with the whole effect (`ReturnTransacts`), a trap in atomic mode `Fail`.
* **`BatchesMoveOn`**: `RunSpec => [][MovesOn]_runVars`: each step of a batch in progress takes one operation off what remains of the same batch, or ends it and removes the guard. A batch therefore ends after at most one step more than it has operations, if it is
  given the steps: that it is, is the fairness of `BatchEnds`.
* **`PromiseNeedsValidAmounts`**: where no batch of transfers has an amount that is not positive, `RunSpec => BatchKeepsItsPromise`, the property `batch_promise` shows violated. It follows from `BatchesAreOneStep`: under the hypothesis
  `KeepWhatPrecedes` and `AllOrNothing` are one.

`RewardsProofs` proves, for all wallets, amounts, tier configurations, limits and versions allowed by `ReferralAssumption` and `RewardsAssumption`:

* **`TypeCorrect`** and **`NobodyRefersItself`**: `Spec => []TypeOK` and `Spec => []NoShortCycle`, for the referral contract by itself. A short cycle that a new link closes
  uses the new edge; from behind its last use to before its first one (`LeastExists`) the cycle runs over old edges from the new referrer to the wallet, in fewer than
  `MAX_SUPPORTED_TIERS` steps, and the search would have found that path (`LinkClosesNoCycle`).
* **`AccrualsAreFair`**: `Spec => AccrualIsFair`. The tiers a wallet stands on are found by the recursive function `Uplines`; `UplinesClimb` derives its recursion from its definition, by a least length without such a
  function (`LeastExists`), `UplinesAreWallets` and `OneTierEach` follow, the second because two tiers of one wallet would be a short cycle. That the shares come to the whole at most is the invariant `SharesFit`, for which
  `FoldIsSum` shows the fold in `ValidTierConfig` to be a sum; the credits go one to one into the commissions of the tiers (`SumInjected`), and these come to no more than the amount (`SumScaled`).
* **`RewardsImplementReferral`**: `RewardsSpec => Spec`, by step simulation; what is proved of `Referral` therefore holds among the other contracts.
* **`RewardsTypeCorrect`**, **`HistoryAlwaysComplete`**: invariants of the treasury and the registry, inductive as they stand.
* **`ImmutableMetadataStays`**: `RewardsSpec => ImmutableIsForGood`, one case per call of the registry.
* **`BooksAlwaysBalance`**: an accrual adds the same credit, a natural number (`CreditBounds`), to both sides; a claim moves it from one to the other.
* **`TreasuryPaysWhatWasEarned`**, **`ClaimsArePaid`**: `RewardsSpec` implies the action properties `RewardsLeaveOnlyAsEarned` and `NoEmptyClaim`. Each names the calls that can take from the category or
  clear an accrued balance, and only `Claim` does both.

`GovernanceProofs` proves, for every finite set of accounts, all roles, parameters with bounds, thresholds and numbers of proposals allowed by `GovernanceAssumption`:

* **`TypeCorrect`**: `Spec => []TypeOK`, which contains that every parameter lies within its bounds. It needs the assumption that the seeded defaults do, which the constants of the code fulfil.
* **`VotesAlwaysCounted`**: `Spec => []VotesAreCounted`. An approval adds one to the number and one account to the approvers (`ApproverAdded`); a new proposal has none because approvals are of proposals that exist.
* **`DecisionsAlwaysBacked`**: `Spec => DecisionsAreBacked`. The inductive invariant `IInv` adds `Begun`: as long as the threshold is still zero nobody holds a role, so that nothing can be executed without a vote.

`AccessControlProofs` proves, for all accounts and roles, and any bound of the list, allowed by `AccessAssumption` (and, for the queries, finitely many roles):

* **`AccessTyped`**: `Spec => []TypeOK`; among it that once initialized somebody can always administer.
* **`HierarchyHasNoCycle`**: `Spec => []NoRoleCycle`. Ancestors are defined as a least closed set, so that induction over walks becomes the choice of a closed set: `UpIsClosed`, `UpIsLeast`
  and `UpIsWalked` replace it, and `NoCycleSetParent` names, for the new edge, the closed set that would have to contain the role if it closed a cycle.
* **`RightsHaveACause`**: `Spec => RightsFollowTheirCause`, one lemma for steps that change members and one for the step that changes a parent.
* **`QueriesAlwaysAgree`**: `Spec => []QueriesAgree`. The loops of the code against the least closed sets of the properties: because no role is its own ancestor, every step up leaves one role less above
  (`HeightOfParent`), so by induction over that number, as a choice of the least counterexample, a walk with at least as many steps as there are roles above finds what there is to find (`FoundAtTop`, `FoundFromParent`,
  `WalksFind`) and a chain never names a role twice. The invariants it needs are `TypeOK` and `NoRoleCycle`.

`UpgradeabilityProofs` proves, for all accounts, contracts, hashes, hooks, versions and numbers of proposals, and all finite sets of names, allowed by `UpgradeAssumption`:

* **`UpgradesTyped`**, **`CopiesAlwaysAgree`**, **`AuthorizationIsAhead`**, **`HistoryIsAChain`**: four invariants of the module (the third says that what is authorised is never the registered hash, and brings a higher version), from one inductive invariant `UInv`. Beyond them it says that proposals and records have ids up to the counter
  (`IdsAreCounted`; otherwise a new proposal might reuse the id of a record), that a contract without a name is unregistered and was never upgraded (`NamelessIsNew`; otherwise the first registration could
  contradict its history), and that a live proposal of a contract entered once brings more than it has (`PendingIsAhead`).
* **`TargetCannotFollowExecution`**: `Spec => []ExecutedIsRefused`, from the last two: the hash that the last execution recorded is the registered one, and that is never authorised.
* **`AnswersAlwaysAgree`**: `Spec => []AnswersAgree`, from the same invariant. `ToldRight` says of any id and any limit what the loop has collected when it is at that id; `ToldOneMore` is the step from one id to the next, where the link
  from a record to the one before it comes from `HistoryTellsTheVersion`, and `AlwaysToldRight` the induction. That the loop, which starts at the counter, sees every record is `IdsAreCounted`.

Only model-checked:

* `BatchEnds`: liveness under fairness is beyond the prover; what it needs besides the fairness is `BatchesMoveOn`;
* `NothingStuck`, `OneWayOut` and `CoveredMeansPayable`, which speak of `ENABLED`, an operator the prover cannot expand; that the calls they speak of have their funds, pass their guards and have a next state is
  proved by `NothingIsStuck` with `OpenRecordsCanBeClosed`, `EachLedgerHasItsWayOut` with `PendingAlwaysFunded`, and `CoveredCallsGoThrough` with `CoveredAlwaysPays`.

## 6. Where code and documentation differ

Met while modelling the marketplace (`src/contracts/nft-marketplace/src/lib.rs`):

* royalties and fee may exceed the price (section 4, `mkt_overdraw`), against "Escrow for payments" (line 16);
* the module promises "Royalty enforcement at transaction level" (line 12); `accept_offer` pays no royalty;
* `initialize` may be called by anyone at any time and restarts the sequences, so new records overwrite open ones, whose escrow no record owns any more;
* `place_bid` (line 984) and `accept_offer` (line 1393) write a status and return `Err`; the write is rolled back, so `Ended` is never stored and an expired
  offer is refunded only through `cancel_offer`;
* `bulk_create_auctions` checks neither currency nor metadata hash, and its Dutch floor may be zero or negative; with a negative one the price reaches zero before the end,
  where `buy_dutch_auction` refuses, and is the negative floor from the end on, where it does not: no payment is made and the NFT is the buyer's.

In the aid contract (`src/contracts/aid-contract/src/lib.rs`):

* `refund_aid` takes no caller and asks for nobody's signature, against "Only the donor or the admin may trigger the refund" (line 308); the money still goes to the donor, so the model's refund has no caller either;
* the indexes by donor and recipient that the comment at lines 167-168 describes are never written; the queries look at every record up to the counter;
* `create_aid` also keeps a map of all aids under one key (lines 211-217), which nothing reads and neither a claim nor a refund updates;
* `create_aid` does not look at the pause flag.

In the payments contract (`src/contracts/payments-contract/src/lib.rs`) and the modules it shares (`src/shared/src`):

* `batch_payout` spends deposits and entries alike (`payments_drain`), against "funds are held until a release or refund condition is met" (`lib.rs`, line 7);
* an atomic batch keeps the transfers before an operation with an invalid amount and returns with `reverted = true`, against "If any fails, the entire batch reverts" (`batch.rs`, line 10; also lines 101, 174 and 232-234, and `SECURITY_BATCH.md`): run `batch_promise`;
* such an amount is never answered with `BatchError::InvalidOperation`, against `batch.rs` line 249;
* the comment at `batch.rs` line 376 takes `Ok(Err)` for an error of the callee; it is a returned value that cannot be converted;
* only the admin can refund an entry, at any time; the comment at `payments.rs` line 463 gives an expired entry's depositor that call;
* `initialize` "must be called once" (`lib.rs`, line 67), and nothing keeps anyone from calling it again, with another token.

In the referral contract and the treasury (`src/contracts/referral-contract/src/lib.rs`, `src/contracts/treasury-contract/src/lib.rs`):

* the search for a cycle looks at ten wallets, so a ring of eleven is accepted, against "cycles are rejected" (`referral-contract`, line 231); no accrual climbs that far;
* `set_referrer` leaves the `ReferralRecord` that `register` wrote as it was, so `get_referral_record` may name a former referrer;
* referral edges and balances are in instance storage, against the guidance at `src/shared/src/storage.rs` line 10;
* `emergency_withdraw` needs the treasury's pause flag, which no call of the treasury sets;
* the treasury transfers no tokens: `withdraw` and `distribute_reward` change a number and emit an event, against "Pays a referral commission" (line 267).

In the governance contract (`src/contracts/governance-contract/src/lib.rs`):

* the admin set decides nothing: `set_admin_set` "Updates the set of addresses that can participate in multi-sig approvals" (line 232), while every check reads the role, which this call neither grants nor revokes;
* what proposals are voted on, a single admin can do without a vote: `grant_role`, `revoke_role`, the threshold; the admin alone, `set_param`;
* `Pause` sets a flag that no call of the contract looks at;
* like others, `initialize` may be called by anyone at any time.

In access control (`src/contracts/access-control/src/lib.rs`):

* `initialize` may be called again by anyone and makes its argument the only admin; the former super admin keeps the super role;
* the super role can be revoked, also from the super admin, and `set_role_parent` puts other roles above it like above any role.

In upgradeability (`src/contracts/upgradeability/src/lib.rs` and its documentation):

* a contract can be entered again under another name, with a lower version, against "Monotonically increasing version number" (line 98); its hook is dropped from the entry and stays in the second copy;
* `cancel_proposal` asks for no signature, against "Only callable by the original proposer or an admin" (line 589);
* the hooks are called `pre_upg` and `pst_upg`; the comment at lines 321-325 says `pre_upgrade` and `post_upgrade`;
* a target that asks `verify_upgrade_authorization` after `execute_upgrade` is refused, since the pending proposal is gone (line 496), while `UPGRADEABILITY.md` (sections 3 and 4, and its checklist) and `scripts/upgrade.sh` (lines 46-65) have it
  ask then: the procedure as documented cannot succeed (`ExecutedIsRefused` in `upgrades`, `TargetCannotFollowExecution`). A target that asks before is authorised while no hook has seen the upgrade.

## 7. What is not modelled

* Events and error codes: output, which no contract reads. Views that return a stored record as it is.
* `safe_transfer` and `deduct_fee` of `payments.rs`, which no contract calls, and `set_oracle` of the marketplace, whose address is never read.
* The checked arithmetic of `math.rs` other than the shares of an amount: the amounts of the models stay within range, except where a product that overflows changes the outcome (`MaxI128`).
* Storage TTL: an archived entry is restored, not lost.
* `emergency_withdraw` of the treasury: it needs a pause flag no call sets, so no state enables it.
* Cost and size limits of the host, except that a batch may be stopped by them (`RunOutOfBudget`): the growing storage entries of the aid contract are listed as a hazard without a property.
* The rebalancer, whose `rebalance` computes an answer from its arguments and stores nothing, and the oracle, which has no call but `initialize`; tests, scripts, branding and security tooling.
