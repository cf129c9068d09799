# Burrowland in TLA+

A specification of the Burrowland lending contract (`contracts/contract`, a
NEAR smart contract in Rust) and of the exchanges it works with
(`contracts/mock-ref-exchange`, `contracts/mock-dcl`), model-checked with TLC on
small instances; lending, margin trading and the farms are also proved about
with TLAPS, for every value of the constants.

Paths below are relative to the repository, file names without a directory to
`contracts/contract/src/`.

## The system

One contract keeps all the state. Users and other contracts call it; it calls
token contracts (to pay), price oracles (to learn prices), an exchange (margin
trades) and farms (shadow LP positions). A call is atomic: it commits, or an
assertion fails and nothing has happened. Concurrency comes from calls that
leave the contract: they finish in a callback, and anything may run in between.

| Component | State | Operations | Talks to | Modelled in |
|---|---|---|---|---|
| Pools (`pool.rs`) | shares and balance | conversions with rounding, deposit, withdraw | used by every asset | `Pools` |
| Assets (`asset.rs`, `asset_config.rs`) | supplied, borrowed and margin pools, reserve, beneficiaries' fees, limits | compound interest, save with checks, configuration | read and written by every handler | `Lending`, `Margin`, `Administration` |
| Accounts (`account.rs`, `account_asset.rs`, `position.rs`) | supplied shares, positions with collateral and debt, a lock flag | save, force-save, count of assets | read and written by every handler | `Lending`, `Registry`, `Shadow` |
| Actions (`actions.rs`, `actions_only.rs`, `client_echo.rs`) | none of its own | withdraw, increase and decrease collateral, borrow, repay, liquidate, force-close, `simple_withdraw` | assets, accounts, prices | `Lending`; lists of them in `Oracles` |
| Token receiver (`fungible_token.rs`) | transfers under way (as promises) | `ft_on_transfer` and its messages, payments and their callbacks | token contracts | `Lending`, `Margin` |
| Prices (`price_receiver.rs`, `prices.rs`, `pyth.rs`, `actions_pyth.rs`, `margin_pyth.rs`) | last prices, pyth configuration, rates of staking tokens | oracle calls and callbacks | oracle, then actions | `Oracles` |
| Margin (`margin_*.rs`, `protocol_debts.rs`) | margin accounts, positions, pending debts, stops, debts of the protocol | open, increase, decrease, close, liquidate, force-close, set and run stops | exchange, assets, reserve | `Margin` |
| LP collateral (`shadow_actions.rs`; `mock-ref-exchange`, `mock-boost-farming`) | lock of an account, LP infos; records of shadows, stakes | shadow deposits, liquidation and forced closing of LP positions | exchange, farming contract | `Shadow`, `Settlement` |
| Farms (`account_farm.rs`, `asset_farm.rs`) | reward per share, claims | claim, add reward | assets, accounts | `Farms` |
| Booster (`booster_*.rs`) | staked amounts and their locks | stake, unstake | an asset's supply | `Farms` |
| Storage (`storage.rs`, `storage_tracker.rs`) | storage deposits | deposit, withdraw, unregister | accounts | `Registry` |
| Configuration (`config.rs`, `lib.rs`, `margin_config.rs`, `margin_base_token_limit.rs`, `reliable_liquidator.rs`) | owner, guardians, limits, rates, whitelist | setters, reserve, fees | assets | `Administration`, `Registry`; oracle settings in `Oracles` |
| Upgrade (`upgrade.rs`, `legacy.rs`) | older layouts | migrate | all | `Administration`, `Registry` |
| Concentrated-liquidity exchange (`mock-dcl`) | a pool, LP tokens, orders, deposits | liquidity, orders, swaps, payments | token contracts | `PointMath`, `DclPool`, `Dcl` |

What is hard, and a unit test hardly reaches:

* Rounding. Shares and tokens are converted hundreds of times, each conversion
  rounds, and the direction decides who pays.
* Payments. Shares are burnt before the token contract pays. If it does not,
  the callback deposits the amount again into a pool that has changed: another
  rate, too few shares, no shares at all, or an account that is gone.
* `simple_withdraw` computes a gap, waits for the oracle, and uses the gap in a
  later state.
* Liquidation judges a position before and after, in pools it changes itself;
  a forced closing takes collateral and debt through the reserve.
* Margin trades and LP liquidations wait for an exchange with a pending debt or
  a locked account, and must revert or release.
* An LP share backs a loan here and a stake elsewhere; three contracts keep a
  record of it, and their calls to each other succeed, fail and are heard of in
  any order.
* A list of actions is decided by prices asked for blocks before, on an account
  that has changed since, and is checked once, after its last action.
* A farm pays on an account's next call, by shares counted at its last.
* Records of every earlier version are converted when they are next read, and
  paid for in bytes by their accounts.
* A swap on `mock-dcl` walks over ends of ranges and orders found by one bitmap,
  and rounds at each.

The hazards, each at its line with the properties that cover it, are in
`PROJECT.json`.

### What makes each component correct

* Pools: a conversion is within one unit of the exact value on the side asked
  for; a supplier's share never loses value.
* Lending: pools and accounts agree; the tokens held and lent cover what is
  owed; a debt has collateral; no call harms a healthy position; no sequence of
  calls enriches its caller.
* Payments: each is made or credited back, once, up to dust.
* Margin: a position's debt is in the pool exactly once, pending or final; a
  failed trade is undone; shares and tokens are those of accounts and positions,
  whatever ends a position and whoever they are; a position ends with its stop.
* LP collateral: an account keeps the shares that shadows are cast of; the two
  records of a shadow differ by the calls under way only; a settlement looks
  atomic to every other call, ends, and releases its locks (it may not, see
  below).
* Farms and booster: a reward is divided by the shares its accounts have; it is
  paid once; a stake counts what the policy allows and comes back once.
* Oracles: what a list leaves is healthy, and what a liquidation takes was at
  risk, under prices that are answered for; a recorded rate does not fall while
  its change is limited.
* Storage and administration: an account pays for exactly its bytes; no
  conversion loses a share; what is promised and the tokens held drift apart by
  failed withdrawals only; no sequence of setters makes a configuration invalid.
* Concentrated-liquidity exchange: the liquidity of a pool adds up, no order is
  passed by, everyone can leave, nobody gains by swapping there and back.

## Modules

| Module | Content |
|---|---|
| `Pools` | the operators of `pool.rs` and the resolution of an `AssetAmount`; no state |
| `Lending` | the lending core: state, handlers, callbacks, market; properties at its end |
| `Margin` | margin trading: positions, the exchange, stops, protocol debts; properties at its end |
| `Shadow` | LP tokens as collateral: the lending contract, the exchange, the farm and the calls between them |
| `Settlement` | abstract: what a liquidation or forced closing of an LP position is; `Shadow` implements it |
| `Farms` | farms of supplied tokens, and the staking of the booster token |
| `Oracles` | prices, lists of actions, and the risk checks they are used for |
| `Administration` | owner and guardians, the record of an asset in all its versions, settings |
| `Registry` | extends `Administration` with accounts, their storage and their records in all versions |
| `PointMath`, `DclPool`, `Dcl` | `mock-dcl`: arithmetic of points, a pool as a value, and the contract around it |
| `MCLending`, `MCMargin`, `MCShadow`, `MCFarms`, `MCOracles`, `MCRegistry`, `MCDcl` | constants of the instances |
| `PoolProofs` | theorems on rounding, on the operators of `Pools` and on sums over finite sets (`SumFunctionOnSet` of the community modules) |
| `LendingProofs` | the inductive invariant of `Lending`, one lemma per action; its safety properties: how each action rounds and what it books |
| `ShadowProofs` | the invariants of `Shadow`: shares behind shadows, locks, and the two sides of the books |
| `OracleProofs` | what lists of actions do on any prices, and where the prices come from |
| `FarmProofs` | the inductive invariant of `Farms`, and what follows |
| `RegistryProofs` | the inductive invariant of `Registry`, the validity of settings, and who may overdraw |
| `MarginInvariant` | the inductive invariant of `Margin`; the calls and the callback that undoes a trade keep it |
| `MarginProofs` | the answers of the exchange keep it; the theorems on `Margin` |

Operators preceded by a comment that starts with *slip* are not used by the
specification: each is a variant of the definition below it with a plausible
mistake, and a run of TLC with the variant in its place violates the property
that watches over it.

### State of `Lending`

| Variable | Code |
|---|---|
| `asset[t]` | `Asset`: the pools `supplied` and `borrowed`, `reserved`, and the beneficiary's part of `beneficiary_fees` |
| `registered` | the accounts in `accounts` |
| `supplied[a][t]` | `Account.supplied`, shares that are not collateral |
| `collateral[a][t]`, `pledged[a]` | the `collateral` map of the regular position: shares, and the tokens listed. An entry may hold no share (see `OnlyIncreaseCollateral`), so the two differ |
| `borrowed[a][t]` | the `borrowed` map of the regular position |
| `transfer[s]` | a promise of `internal_ft_transfer` or `withdraw_beneficiary_fee` with the arguments of its callback |
| `request[a]` | the arguments of a `callback_simple_withdraw_with_pyth` that has not run |
| `price[t]` | what an oracle would report now |
| `cash[t]`, `wallet[a][t]` | balances in the token contract (external) |

### Actions of `Lending`

* `Deposit`, `OnlyIncreaseCollateral`, `OnlyRepay`, `DepositToReserve`: the
  messages of `ft_on_transfer`. An aborted `ft_on_transfer` gives the tokens
  back, so it is not a step.
* `IncreaseCollateral`, `DecreaseCollateral`, `Borrow`, `Repay`, `Withdraw`,
  `Liquidate`, `ForceClose`: actions of `execute`. The guard holds every
  assertion and early return, the risk check and the limit on the number of
  assets included. Saves normalise an orphaned supply balance (`Normalized`)
  and check minimum shares unless a whitelisted liquidator acts (`Checked`).
* `WithdrawByShares`: `client_echo_withdraw_by_shares`.
* `SimpleWithdraw`, `SimpleWithdrawNow`, `SimpleWithdrawAsk`,
  `SimpleWithdrawResume`, `SimpleWithdrawAbort`: `simple_withdraw` from the
  supply, with a gap and known prices, and with a gap and the oracle's await.
* `TransferSucceeds`, `Refund`, `RefundLost`, `BeneficiaryRefund`,
  `BeneficiaryRefundLost`: the token contract's answer together with the
  callback that learns it. `...Lost` is a callback that aborts: the promise is
  gone, the tokens are back, and no book has them. The answer and its callback
  are one step: between the two only `cash` and `wallet` differ, which no
  handler of this contract reads.
* `WithdrawBeneficiaryFee`, `IncreaseReserved`, `DecreaseReserved`: the owner's
  calls on fees and reserve.
* `Register`, `Unregister`: as far as they decide which accounts exist.
* `Accrue`, `UpdatePrice`: time and the oracle. `Asset::update` runs at the
  start of each handler; the model lets any amount of `Interests` accrue
  between handlers, none included. `internal_get_asset` in the code returns the
  compounded asset and the handler saves it; a handler that reads an asset
  without saving it discards its interest, and the next one computes it again.

### State of `Margin`

| Variable | Code |
|---|---|
| `asset[t]` | `Asset`: `supplied`, `reserved`, `prot_fee`, `margin_debt`, `margin_pending_debt` (`pending`), `margin_position` (`position`), `unit_acc_hp_interest` (`hp`) |
| `supplied[a][t]`, `margin[a][t]` | the supply of the regular account and of `MarginAccount`, in shares of the same pool |
| `position[i]` | `MarginTradingPosition` of `margin_positions`; `c`, `d`, `p` are the tokens of its collateral, of its debt and of what it holds |
| `opened` | `accumulated_margin_position_num`: an id is used once |
| `stop[i]` | the entry of `stops` with the fee it holds |
| `acting` | the keys of `position_latest_actions` |
| `trade[i]` | the promise and its `SwapReference`: operation, amount sent, who started it, and how far it is |
| `debts[t]` | `protocol_debts` |
| `price[t]`, `cash[t]` | oracle and token contract (external) |

A trade passes through these stages:

* `sent`: the contract has called `ft_transfer_call`. `TradeFailed` is the
  transfer that comes back with `callback_dex_trade`, which undoes the request;
  if the callback aborts the trade is `unreverted`.
* `swapped`: the exchange has the tokens. `TradeReturned` is its output with
  the `SwapReference`, and the whole handler (`on_open_trade_return`,
  `on_decrease_trade_return`). If the handler aborts, or the transfer fails
  (`TradeLost`), the output stays with the exchange and the trade is `blocked`.
* `Resume`: the owner sends tokens with the same `SwapReference`, for a trade
  that is `blocked` or `unreverted`.

Between these steps any other call may run: `IncreaseCollateral` even of the
position that is traded, which the code does not refuse.

### Actions of `Margin`

* `DepositToMargin`, `Withdraw`, `WithdrawAll` (a withdrawal that names no
  amount), `WithdrawRegular`, `DepositToReserve`: tokens in and out, to change
  the pools while trades are under way.
* `Open`, `IncreaseCollateral`, `DecreaseCollateral`, `SetStop`: actions of
  `margin_execute` by the trader. `Open` keeps the order of the code's reads and
  saves: `OpenAssets` saves the debt's asset as it was read before the fee of the
  stop was taken.
* `Decrease`: `process_decrease_margin_position` for each of its operations;
  `MayAsk`, `PaysEnough` and `SellsWhatStopMeans` hold what differs. `stop` is
  one operation here, as its two names differ in events only.
* `TradeSwapped`: the exchange uses its input, or a part of it (`PartsUsed`), and
  what it does not use comes back with `ft_resolve_transfer`. For
  `callback_dex_trade` a trade that used anything has succeeded
  (`margin_position.rs:897-905`): it looks at nothing else, and the rest stays
  in the contract in nobody's name. Only a trade that used nothing is undone, so
  that there is no partial failure.
* `Settling` is the part of `on_decrease_trade_return` that works on copies:
  repayment, collateral, reserve, what is left. `HandedOut` saves the accounts
  in the code's order, copies included. In `SaveAll` a liquidator may have left
  (`MayHaveLeft`: what `storage_unregister` asks for); its part then goes to the
  owner.
* `LiquidateDirect`: `process_margin_liquidate_direct`.
* `Accrue`, `HoldingFeeGrows`, `UpdatePrice`: time and the oracle.

### `Shadow` and `Settlement`

| Variable | Code |
|---|---|
| `shares[a]`, `record[a]` | `mock-ref-exchange`: LP shares, and the shadow record with its parts in the farm and in the lending contract |
| `seed[a]` | `mock-boost-farming`: `shadow_amount` of its seed |
| `lp[a]`, `collateral[a]`, `debt[a]`, `lpSupply`, `usd`, `dollars[a]` | the lending contract: supplied LP tokens, the LP position, the pools of the LP token and of the dollar |
| `locked` | accounts with `is_locked` |
| `value` | `last_lp_token_infos`, or `Stale` |
| `calls` | the calls between the contracts, oldest first, each with its stage |

A call is `sent`, takes effect at its receiver (`ExchangeReceives`,
`FarmReceives`, `BurrowReceives`), is `done` or `failed`, and is then heard of by
the callback of its sender (`ExchangeHears`, `Settles`). Calls to one contract
arrive in the order they were sent; callbacks run in any order. The handlers are
those of `shadow_actions.rs` on both sides. A liquidation is tried out on the
account when the exchange is asked, and done in the callback on the account as
it is then; a whitelisted liquidator's relaxed checks end with the call, because
`is_reliable_liquidator_context` is `#[borsh_skip]`. The dollar bears no
interest here: interest is in `Lending`.

`Settlement` is what the contracts promise of each other: an account's
settlement asks, burns or is refused, and settles; the parties are held by it
alone; the lending contract counts what the exchange covers and what a
settlement has burnt. The callback of a liquidation may abort after the burning:
the settlement is then given up (`GiveUp`) and its parties are `stuck`, held for
ever. A refused settlement, or a forced closing, which has no liquidator, is
never given up. `ImplementsSettlement` maps `Shadow` onto it, fairness included:
every settlement ends, by freeing its parties or by being given up.

### `Farms`

`reward[f][r]` is an `AssetFarmReward` of the farm `Supplied(f)`, `farmAt[f]` the
`block_timestamp` of the farm, `entry[a][f]` an `AccountFarm`, `staking[a]` an
entry of `booster_stakings`, `legacy[a]` the `booster_staking` of earlier
versions, `booster` the `BoosterTokenInfo`, `barred` the
`blacklist_of_farmers`. Each handler that changes a supply names the tokens it
affected and runs `internal_account_apply_affected_farms` (`Applied`): claims of
all farms of the account, pays them as supply, and recounts the boosted shares
of the affected farms. `Stake`, `Unstake`, `UnstakeLegacy`, `UnstakeEcho` are the
ways in and out of the booster; `AddBoosterToken`, `UpdateBoosterToken`,
`RemoveBoosterToken`, `AddReward`, `ExtendBlacklist`, `RemoveFromBlacklist` the
owner's setters; `TransferFails` a refund, which touches no farm.

Farms of debts, of net balances and of the net value are left out: they count
other shares in the same way. The logarithm of booster tokens is exact;
`BigDecimal` has `Fine` steps. `TransferSucceeds` is refused when the token
contract has too little: claims round to nearest, so that supplies may exceed the
tokens by dust.

### `Oracles`

`account`, `reserved` and `margin` are what lists change; `info` is
`token_pyth_info`, `record` is `last_staking_token_prices`, `pyth_on` is
`enable_pyth_oracle`; `call[a]` is a list of `a` that waits for prices, with the
answers so far; `feed` and `rate` are what the oracle and the staking token would
answer; `published` and `sent` (the calls each account made) are history for the
properties: `Acts(a)` says that a list of `a` is sent or answered in this step.
`ExecuteWithPyth` and `MarginExecuteWithPyth` work out the tokens a list
involves (`involved_tokens`) and ask for their prices; each `Answer` reads one;
`Callback` puts them together and runs the list on the account as it is then;
`AskPriceOracle` and `OracleOnCall` are the other oracle. A list of actions is
checked for risk after its last one, a list of margin actions at each removal of
collateral. An account has one call in flight.
`max_change` is the `max_change_rate` of each asset, which may be absent: any
rate is then recorded (`pyth.rs:206`). `SyncRate`, `SyncAnswer`, `SyncCallback`
and `SyncFails` are `sync_staking_token_price`, which anybody may call and which
records a rate without any list (`lib.rs:276-299`); `sync[t]` is such a call with
its answer. Exponents and decimals of prices
are left out, and a share is a token.

### `Administration` and `Registry`

`asset` is the record of an asset as it is stored, in its version; reading it
converts (`Assets` in `legacy.rs`). `rules`, `limit`, `range` are
`margin_config`, `margin_base_token_limit` and the ranges for guardians.
`account`, `entries` and `margin` are the records of accounts and margin
accounts with the entries earlier versions kept in maps of their own;
`storage[a]` is its `Storage`; `transfers` are withdrawals whose result is due.
An action loads with conversion, changes and saves with the bytes it adds
(`StorageTracker`), by force in callbacks. Bytes are counted by entries of one
size. The runs start from a record of every earlier version, and from none.

`Valid` is `AssetConfig::assert_valid`, all of it. `Sane` is what
`set_margin_base_token_limit` asserts of the limits margin trades are held to.
`Dust` and `scale` are what `extra_decimals` does to a payment; the owner may
change the decimals when the books are empty (`config.rs:218-224`), also with a
withdrawal under way. `range`, the bounds for guardians, is a guard of `SetLimit`
and nothing else: no property depends on it.

Left to other modules: boosters, locks, protocol debts, `MIN_RESERVE_SHARES`.
Simplified: one asset, a share is a unit; the limits of long and short, and the
settings of common and forced closing, are one; the price calls of a loan are its
weight (`LoanWeight`). The admin's own account acts through the owner's calls
only.

### `PointMath`, `DclPool`, `Dcl`

A pool of `mock-dcl` as a record (its comment names the fields); operators add
and remove liquidity, place, update and cancel orders, and swap: a swap walks
from point to point by the bitmap (`marked`), through ranges and orders. `Dcl`
has the pool, LP tokens, orders, deposits, approvals, v-liquidity, transfers
under way with their callbacks, and the settings of owner and operators. The
price of a point is `Unit * Rate^point` with an integral `Rate`, so that the
root the code keeps beside the point is exact. Where the code has two functions
that differ in x and y there is one operator, with `t` and `Other(t)`.

### Abstractions of `Lending` and `Margin`

* Numbers are natural. The code computes products in 256 bits and aborts when a
  result leaves 128 bits (`overflow-checks = true`), so an overflow is an
  aborted call.
* Risk: the code multiplies value, price and `volatility_ratio` in fixed point.
  The model multiplies integers, with `CollateralWeight` and `DebtWeight` for
  the ratio and its inverse over a common denominator. The rounding of the
  fixed-point sums is not modelled.
* A list of actions has one member (lists are in `Oracles`); a liquidation takes
  one asset of each side.
* One beneficiary per asset.
* A price changes for everybody at once, and no call waits for it but
  `simple_withdraw`: see `Oracles`.
* Configuration does not change; the `can_*` flags are set.
* Deposits, storage and margin state that other components keep are not there;
  `AvailableAmount` of `Lending` has no margin debt.
* `Margin` has one unit for all tokens, no regular loans, no beneficiary, no
  whitelisted liquidator, one action a call; every account is registered.
  Payments to users do not fail there: failed payments are in `Lending`, where
  the same code handles them. The limits of a base token are one set of
  constants, for long and short.
* The owner resumes a trade with the `SwapReference` it had, and after the
  callback has run (`max_position_action_wait_sec`).

## Runs

Every run sets `CHECK_DEADLOCK FALSE`: nobody is obliged to call the contract,
and with the wallets empty, the transfers answered and the bounds reached there
may be no call left that succeeds.

| Run | Module, configuration | Instance | Shows |
|---|---|---|---|
| `requests` | `MCLending_requests` | two tokens, one only lent and one only pledged, interest, requests that wait for the oracle | `PaymentsFunded`, `OnlyMarketHurts` |
| `transfers` | `MCLending_transfers` | two transfers, units of 2, at least 3 shares, all interest to the beneficiary, one whitelisted liquidator | `RefundsCanBeSaved`, `CashCoversClaims`, `OnlyDustIsLost`, `CallerNeverGains` |
| `liquidation` | `MCLending_liquidation` | two tokens with prices 1 and 2, no transfers | `SharesConserved`, `DebtIsBacked`, `OnlyMarketHurts`, `SupplyPriceNeverFalls` |
| `margin_both` | `MCMargin_both` | the trader or the protocol's owner with one position, long or short: bitcoin bought with dollars owed, collateral in the token owed or in the one held; moving price, stops on loss and on profit, the keeper or the owner liquidating, parts of an input used, a reserve that may not cover a loss and is deposited to | `SharesConserved`, `SuppliersNeverPay`, `OnlyMarketEndangers`, `BooksMatchPositions`, `MarginDebtSound`, `ClaimsCovered` |
| `margin_two` | `MCMargin_two` | two positions that hold what the other borrows, deposits and withdrawals, at least 2 shares in a pool, under `FairSpec` | `LockedWhileTraded`, `OwnerCanResume`, `PositionsUnlock` |
| `shadow_loans` | `MCShadow_loans` | a provider and another account, LP shares staked and pledged, two calls at once, at least 2 dollar shares so that a callback may abort, under `FairSpec` | `SharesCoverShadows`, `BurrowShadowsMatch`, `ImplementsSettlement` |
| `farms` | `MCFarms` | two accounts, farms of dollars and of booster tokens that pay booster tokens, a stake of an earlier version, an account that is barred | `BoostedSharesAddUp`, `XBoosterBounded`, `BarredFarmNothing`, `RewardsBalance`, `StakeCountsAtOnce` |
| `oracles` | `MCOracles` | two accounts, a steady, a feed and a staking token, both oracles, calls that only record a rate, an asset with and without `max_change_rate` | `NothingIsMinted`, `RiskIsPriced`, `SeizedAtRisk`, `RecordFallsUnlimited` |
| `registry` | `MCRegistry` | a user, the owner, a guardian, seven starts, units of 1 and of more | `BytesAddUp`, `SharesOfAccounts`, `BooksDriftByRefunds`, `SettingsStaySound` |
| `dcl` | `MCDcl` | two users, nine points, nine starts | `LiquidityAddsUp`, `NoOrderPassed`, `EveryoneCanLeave`, `TokensHeld`, `NoFreeLunch` |
| `shadow_lock` | `MCShadow_lock` | a liquidation that leaves a debt of fewer than 2 shares | `LocksAreReleased` is violated |
| `margin_stop_fee` | `MCMargin_stop_fee` | the fee of a stop is in the token of the debt | `FeeLeavesSupply` is violated |

Two configurations are beside these and show violations described below:
`MCFarms_legacy` and `MCShadow_supply`.

The properties of `Lending`:

* `SharesConserved`: a pool's shares are the sum of its accounts' shares.
* `CashCoversClaims`: cash plus loans cover supply, reserve, fees and payments
  under way.
* `PaymentsFunded`: cash covers the payments under way. It is checked without a
  beneficiary: `available_amount` does not subtract the fees, so with one the
  code does not promise it.
* `RefundsCanBeSaved`: the callback of a failed payment can credit it, whatever
  the pool has become, as long as the account exists.
* `OnlyDustIsLost`: no step takes tokens out of the books, except less than one
  unit of the token contract, or when the callback of a transfer aborts.
* `DebtIsBacked`: no debt without a pledged share.
* `SupplyPriceNeverFalls`: balance per share of a supply never decreases.
* `OnlyMarketHurts`: a healthy position becomes one at risk only by a price or
  by interest. `liquidation` checks it of what others do to a position,
  `requests` of what its own waiting request does.
* `CallerNeverGains`: no step a user starts increases what the user has, in any
  token, wallet, payments, supply, collateral and debt taken together.

The properties of `Margin`:

* `SharesConserved`: a pool's shares are those of regular accounts, of margin
  accounts and of the collateral of positions. Where the protocol's owner divides
  a benefit with itself, as trader or as liquidator (`OwnerMeetsItself`), shares
  may be left in nobody's name; never are any in two, and never otherwise.
* `BooksMatchPositions`: an asset's pending debt, margin debt and position are
  the sums over the trades and positions.
* `ClaimsCovered`: cash, debts, the protocol's debt and what the exchange has
  for openings cover supply, reserve, fees, positions, stop fees and what is
  about to be sold. It is an inequality, as a loss below one unit is left in the
  contract by rounding.
* `SuppliersNeverPay`: balance per share of a supply never decreases, forced
  closings with losses included.
* `MarginDebtSound`: what saving an asset asserts of the other pools holds for
  margin debt, of which it is not asserted.
* `LockedWhileTraded`: locked, in `position_latest_actions` and traded are the
  same positions.
* `OwnerCanResume`: enough tokens from the owner end a trade that is stuck.
* `PositionsAreThere` (in no run, see below): the contract has the tokens its
  positions hold.
* `OnlyMarketEndangers`: only prices, interest and holding fees make a position
  fit for liquidation or forced closing.
* `PositionsUnlock`: a locked position is unlocked or ends.

The properties of the other modules:

* `SharesCoverShadows`: an account of the exchange keeps as many shares as
  either of its shadows counts on.
* `BurrowShadowsMatch`: the exchange's record of shadows in the lending contract
  is what that contract counts, but for the calls under way, in any order of
  their effects, failures and callbacks.
* `ImplementsSettlement`: see above; under weak fairness of deliveries and
  callbacks.
* `LocksAreReleased` (violated, see below): whoever is locked is unlocked.
* `BoostedSharesAddUp`: the boosted shares of a reward are the sum of the
  accounts', also for a reward that ran out and was added again.
* `XBoosterBounded`: no sequence of stakes and policies counts a staked token by
  more than the greatest multiplier.
* `BarredFarmNothing`: a barred account has no part in any farm.
* `RewardsBalance`: what is handed out and not yet paid is what the accounts'
  records say, give or take the rounding of one step.
* `StakeCountsAtOnce`: who stakes or unstakes farms with the new count at once.
* `NothingIsMinted`: no list leaves more of a token than there was.
* `RiskIsPriced`, `SeizedAtRisk`: prices exist, quoted recently enough, under
  which what a list leaves is healthy, and what another's account lost was at
  risk.
* `RecordFallsUnlimited`: the recorded rate of a staking token falls only while
  its asset has no `max_change_rate`, which converted records of assets have not.
* `BytesAddUp`: the bytes an account is charged for are those of its records.
* `SharesOfAccounts`: the shares of the asset are those of the records, in
  whichever version they are.
* `BooksDriftByRefunds`: the tokens held, less those promised, change only by the
  dust of a withdrawal, which its refund puts back; by the whole withdrawal of
  one who unregisters before it fails; and, if decimals changed in between, by
  what a refund credits more or less than its tokens are worth then.
* `SettingsStaySound`: no setter turns a valid configuration into an invalid one,
  and the limits a margin trade is held to, its token's or those of
  `margin_config`, are always sane.
* `LiquidityAddsUp`: liquidity at the current point and at the ends of ranges is
  that of the LP tokens; orders add up.
* `NoOrderPassed`: no order for sale is on the wrong side of the current point.
* `EveryoneCanLeave`: every LP token and order can be taken out in full; when
  all are, the fees are there.
* `TokensHeld`: the contract has the tokens of pool, users and transfers.
* `NoFreeLunch`: a swap there and back gains nothing.

Some properties that hold are in no run because another run or a theorem says as
much: `TypeOK` of `Lending`, `Margin` and `Farms` and `OverdrawnByRefunds` of
`Registry` (proved), `Shadow!OnlyMarketHurts`.

### Bounds, and why they are enough

`Slots` bounds the transfers in flight, `Amounts` and `SimpleAmounts` the
amounts a call may name, `Interests` and `MaxDebt` the interest, the wallets all
the tokens there are. Two accounts make every relation the code has between
accounts: lender and borrower, liquidator and victim, owner and user. One
supplier's rounding shows in the other's share. Two transfers are enough for a
refund between another's start and end. Interest of 2 or 3 on debts of 1 to 5
gives rates that do not divide, so each conversion rounds; units of 2 give dust.
In `requests` interest of 1 is enough to move the rate under a gap.
Amounts of 1 and 2 name less, all and more than an account has.

A run is finite although interest accrues, because it stops at `MaxDebt`; and
because tokens are neither made nor destroyed.

In `Margin` a position of 1 or 2 units and a debt that grows by 1 pass through
every outcome: repaid in full with something left, in part, from the collateral,
from the reserve, by nobody. Prices of 1 and 2 make a position safe, fit for
liquidation and fit for forced closing. The exchange pays 1 or 2, so less, as
much or more than is owed. One position is enough for what happens to a
position; two for what positions do to each other. In `both` the protocol's
owner is a trader and a keeper as well, so that any two of trader, liquidator and
owner may be one account. In `two` there are too few
shares for some saves, so handlers abort and trades are blocked.
`Amounts`, `Outputs`, `PartsUsed`, `Transfers`, `ReserveDeposits`, `Interests`, `MaxDebt`,
`HoldingFees`, `MaxHoldingFee`, `MaxCash`, `Traders` and `Keepers` are bounds;
the other constants are configuration.

`Shadow`: `MaxCalls = 2`, so that any two calls overtake each other's callbacks;
two shares of an LP token worth 1 or 2 dollars and loans of 3 make a position
healthy, liquidatable and fit for forced closing. `MinReserveShares = 2` stands for
the code's 1000: a liquidation that repays 2 of a debt of 3 leaves too few shares,
one that repays 1 enough, so that callbacks that abort and callbacks that do not
are both in the run. 178,479 states.

`Farms`: `MaxTime = 3` blocks and `Fine = 6` make updates that round and rewards
that run out and are added again; amounts of 1 and one policy (`OnlyShort`: locks of 1 or 2 blocks, multiplier 4).

`Oracles`: `MaxCalls = 2` calls, one of each account or two of one after the
other, `MaxTime = 2` with prices valid for 1: a price may be fresh, old and too
old. The lists are the ones that need a single check at the end: pledge and
borrow, decrease and increase, liquidation of oneself, liquidation and forced
closing by the other. `max_change_rate` is absent at first and may be set to a
half; one account may ask for the rate alone. 915,240 states.

`Registry`: `MaxChanges = 2` changes of settings, `MaxTransfers = 1`,
`MaxCash = 2`, `MaxBalance = 12`, which is one more than the least balance of an
account, so that some accounts can pay for an entry more and others cannot. One
of the configurations has other decimals, so that payments leave dust and
decimals change with a withdrawal under way. Base token limits are one that is
sane and one that is not. 141,894 states.

`Dcl`: points -4 to 4, amounts 7 and 90 (less than and more than what is at a
point), two transfers; the nine starts are pools that calls lead to, each with a
budget of calls of each kind. 76,124 states.

Together the passing runs take every disjunct of `Next`, of each module.

### Violations

Two runs expect a violation:

* `margin_stop_fee`. The asset of the debt is read, the fee is taken from the
  supply of the same asset, and the first copy is saved
  (`margin_position.rs:333`, `447`, `473`): the fee is in the supply still, and
  in the stop.
* `shadow_lock`. A liquidation is tried out without saving an asset
  (`shadow_actions.rs:149-281`), so that the minimum of shares is first checked
  in the callback, when the repayment saves it (`actions.rs:542`): one that
  leaves a debt below `MIN_RESERVE_SHARES` aborts the callback after the exchange
  has burnt the shares, and both accounts stay locked.
  `docs/user_storage_management.md:175` and `225` list this callback among those
  that save by force "to prevent permanent locks/token loss".

What follows was met while modelling and is in no run; each names what is needed
to see it.

In `Lending`:

* With accounts that unregister, `OnlyDustIsEverLost` is violated. An account
  withdraws all it has, unregisters while the transfer is in flight, and the
  transfer fails. `storage_unregister` (`storage.rs:195-217`) asks for an empty
  account but not for transfers under way; the callback unwraps the account
  (`account.rs:232-235`) and aborts. The tokens are then in no book, though
  `docs/user_storage_management.md:225` says that callbacks save by force "to
  prevent permanent locks/token loss". `BooksDriftByRefunds` of `Registry`
  shows who else loses.
* `OnlyDustIsEverLost` is violated by fees too: the callback of a failed
  withdrawal of a beneficiary checks the minimum of shares
  (`fungible_token.rs:276-281`) and may abort; the fees are then in no book.
* With an empty borrowed pool, a request to borrow without an amount finds
  nothing: `internal_borrow` (`actions.rs:431-435`) turns the available amount
  into shares and `asset_amount_to_shares` turns these back with the pool, and
  `shares_to_amount` of an empty pool is its balance, 0. The call aborts
  ("Amount can't be 0"); `actions.rs:12-16` says that without an amount the
  maximum is used. A call that names the amount succeeds.

In `Margin`:

* `PositionsAreThere` is violated when collateral is lent out. Collateral stays
  in the supply and may be lent. A position that holds the token of its
  collateral sells part of it with what it holds (`margin_position.rs:648-665`),
  without asking `available_amount`. When that supply is lent out, the tokens
  sent to the exchange are those other positions hold. `asset.rs:235` says that
  a position must be able to be decreased at any time.
* Owner, liquidator and trader are loaded and saved as three accounts
  (`margin_trading.rs:790-847`); if two are one account, what the copy saved first
  got is lost. `docs/margin_stop_loss_profit.md:338` says that benefits are
  distributed among the three. `SharesConserved` of `margin_both` names this case
  and shows that shares are lost in no other.
* What an exchange does not use of its input comes back to the contract
  (`margin_position.rs:897-905`) and is in nobody's books: `ClaimsCovered` holds,
  with more than is claimed.
* With stops and prices that move, a position that `LiquidateDirect` ends
  leaves its stop behind (`margin_position.rs:725-736`), whose fee nobody can
  get back then: only calls for a live position give it back.
* With two positions and `TotalBase = 1`, openings are checked against the
  positions there are (`margin_position.rs:352-357`), not against those under
  way, and pass the total of the base token together.
* A repayment in part by a position with a large holding fee and a small
  `debt_cap` aborts (`margin_trading.rs:711`).

In `Shadow`:

* `MCShadow_supply`: `LpSupplyIsHeld` is violated. The callback of a forced
  closing takes the position's collateral from the account but not from the
  supply of the asset (`shadow_actions.rs:489`, beside `450-456`): the supply
  (`asset.rs:15`, "Total supplied including collateral") counts LP tokens nobody
  has.
* A stake that leaves the farm while the exchange withdraws shadows is removed
  twice or not at all when the two calls cross (`mock-ref-exchange`,
  `shadow_actions.rs:195`), which is why `SharesCoverShadows` is stated of what
  the exchange records, not of what the farm does.

In `Farms`:

* `MCFarms_legacy`: `UnlockedStakesLeave` is violated. The stake of an earlier
  version is subtracted from a total it was never added to
  (`booster_staking.rs:172`): the last of these stakes cannot leave.
* A policy whose least and greatest durations are equal is valid
  (`booster_tokens.rs:52-54`) and divides by zero at the next stake
  (`booster_staking.rs:217`).
* An unstake by `client_echo` applies no farms; a changed policy lowers the
  count of a stake while only the farms affected by the call are recounted; a
  refund touches no farm.
* A reward that is added in a block after an account's claim in that block
  aborts the account's further calls in it (`account_farm.rs:265`).
* Rewards into an empty pool that buy fewer than `MIN_RESERVE_SHARES` shares
  abort the user's call.

In `Oracles`:

* The callback does not ask again whether the oracle is still enabled.
* A list that adds a token to an existing position and borrows against it
  aborts: its price is not among those asked for.
* To decrease all collateral and then repay all leaves an empty position.
* The record of a staking token's rate stays as it is for ever once the rate has
  outgrown `max_change_rate`; without one it takes any rate, a lower one too.

In `Administration` and `Registry`:

* The owner may unregister, though `config.rs:122` says "The owner must be a
  registered account".
* A handler that loads a record of the first versions with entries in maps of
  their own and does not save it aborts ("Bug, non-tracked storage change"),
  `set_owner_id` for one.
* An account of an early version with an empty regular position cannot
  unregister until it has pledged or unpledged something.
* After an overdraft by a callback, a `storage_deposit` that does not cover it
  aborts.
* For a record of an asset without limits, `upsert_beneficiary` aborts until
  limits are set, and `update_asset_limit` must set all that are missing at
  once. `prot_ratio` is dropped by the conversion. Decimals may change with a
  refund in flight (`config.rs:218-224` asks neither for transfers nor for
  `lostfound_shares`), which then credits more or less than its tokens are worth:
  `BooksDriftByRefunds` says by how much. Guardians may give beneficiaries all of the interest.
* Comments at `lib.rs:206`, `216` and `253` say "owner or guardians" of calls
  that assert the owner.
* The conversions of the contract, its configuration and the margin
  configuration of earlier versions are dead code at this commit: `migrate_state`
  reads the current layout.

In `Dcl`:

* A comment in `dcl_api.rs:227` says of two amounts that "one and only one has
  none zero value"; both may have one.
* What a finished swap does not spend is dust in nobody's name; a small swap of
  the second token may move the point without spending.
* `nft_resolve_transfer` stores the owner's record under the previous owner's
  name if that one has unregistered. `nft_approve` gives the whole deposit back
  to the approved account. Approvals outlive the LP token.

### Fairness and liveness

No user is obliged to act, so nothing of the lending core must happen, save that
a transfer is answered: its callback is one step, and that it has an effect is
stated by `RefundsCanBeSaved`. `Lending`, `Farms`, `Oracles`, `Registry` and
`Dcl` have no fairness.

`FairSpec` of `Margin` says two things. A trade that is sent or swapped is
answered: NEAR runs each promise and each callback once, and the exchange swaps
or fails within its own call. And the owner resumes a trade that stays stuck,
when tokens the exchange could have paid let the handler succeed; the code gives
the owner the means and the operator the duty. The second is an assumption on
the operator: without it a blocked position stays locked. Both are weak fairness
of the actions, written with `Waiting` and `Stuck` in place of `ENABLED`, which
TLC would evaluate at length: `Waiting` implies that some answer can be given
(`TradeFailed` or `TradeLost`), and `Stuck` is the guard of `Resumes`.

`FairSpec` of `Shadow` has weak fairness of `ExchangeReceives` and of
`Settles(a)`: a receipt is delivered, and the callback of a call that has ended
runs once. Both are what NEAR does. That a settlement ends, in `Settlement`,
and frees its parties or
is given up, follows.

## Proofs

`tlapm M.tla` checks the proofs of each module; the theorems hold for every value
of the constants that satisfies the assumptions (`ASSUME`), which the module with
the constants states and TLC evaluates in the runs.

### Pools and sums

* `Rounding`, `SharesToAmountType` (`PoolProofs`): a conversion is on the side
  of the exact quotient asked for, and shares of a pool are worth at most its
  balance.
* `PriceKeepsInvariant` (`PoolProofs`): a pool whose balance per share has not
  fallen, and which had as many tokens as shares, still has as many.
* `SumChange`, `SumReindexed` and others (`PoolProofs`): the sum changes by the
  change of one value, and is the same over the image of an injection. The library defines `SumFunctionOnSet` and proves nothing of it; these
  are proved from its definition, over a minimal counterexample.

### Lending

* `TypeCorrect`: `Spec => []TypeOK`. Natural balances are the point: no
  handler of the model subtracts below zero.
* `SharesAreConserved`: `Spec => []SharesConserved`, for any number of
  accounts, tokens and transfers, any amounts, interest, weights and rates.
* `Invariance`: the inductive invariant `Inv == TypeOK /\ SharesConserved`.
  Neither half is inductive alone. That a pool's shares stay natural when an
  account's are burnt needs `SharesBound`: the account has no more than the
  pool, which follows from conservation. Conservation needs types for the sums.
  And `SharesToAmount` is only within the balance for shares that are part of
  the pool (`Convertible`), which `SharesBound` gives for any account's shares.

Argument: every action but `ForceClose` and `Liquidate` changes the shares of
one account, in one token or in one token and its debt. `OneAccountChanges`
reduces conservation to that account's entries; each action's lemma computes the
pool and the entries. `Liquidate` moves shares between two accounts
(`TwoAccountsChange`).

The second half of `LendingProofs` proves of the same specification:

| Theorem | Property | Needs |
|---|---|---|
| `ClaimsAreCovered` | `CashCoversClaims` | |
| `LossIsDust` | `OnlyDustIsLost` | |
| `DebtsAreBacked` | `DebtIsBacked` | |
| `HealthIsTheMarkets` | `OnlyMarketHurts` | |
| `SuppliersKeepValue` | `SupplyPriceNeverFalls` | |
| `RoundingNeverPays` | `CallerNeverGains` | |
| `RefundsSucceed` | `RefundsCanBeSaved` | |
| `PaymentsAreFunded` | `PaymentsFunded` | `NoBeneficiary` |

`NoBeneficiary` says that `BeneficiaryRate` is 0. With a beneficiary, interest
adds more to the debt than to supply and reserve, so that `AvailableAmount` may go
below zero; and the fees can be withdrawn before the debtors have paid the interest
they come from, so that payments may be started for which the contract has no
tokens. The run `requests`, which checks `PaymentsFunded`, has rate 0;
`CashCoversClaims` holds whatever the rate.

`Safety` is the inductive invariant: `Inv` of `LendingProofs` with

* `AllSound`: each pool has a token or more for every share, and none without a
  share. The code asserts the first on a checked save; callbacks and the
  compounding of interest save without it, so that it has to be kept by rounding.
  Without the second half, the first supplier after the last one left would
  find tokens in the pool, and a full repayment could leave a debt.
* `PaymentsFit`: a payment under way is of a unit of the token contract or more,
  and what the contract is asked to move is the payment in its units, rounded down.
* `PricesPositive`: a position with debt and no collateral is then at risk, and
  so `OnlyMarketHurts` and `DebtIsBacked` are about each other.
* `DebtIsBacked` and `CashCoversClaims`, inductive with the rest.
* `AllAvailable`, where there is no beneficiary: no asset lends more than it has.

TLC checked each part on the three instances of `Lending` before it was proved.

Argument: an action is described by what it adds to the books of one token: to
supply, debt, reserve and fees (`AssetMoves`), to the tokens held and to the
payments under way (`Cash`), and to the caller's wallet (`Purse`). `AssetMoves`
also says that neither the suppliers' nor the debtors' price moved against the
others, which follows from the side the action rounds to (`Covering`,
`Covered`). Given these, `Tally` yields claims and dust, `PositionsKept` health
and backing, `Gains` what the caller is worth. `TransactionStep` puts them
together: the sum of what came in must be no less than what is owed, by less
than one unit of the token. Each action's lemma then only computes its amounts.
Positions are kept in one of three ways (`SafeFor`): no less is pledged and no
more owed; or the position is not at risk after; or it was at risk before and
keeps some collateral, which is the case of a liquidation. `ForceClose` changes
every asset of its victim, so that it is booked asset by asset (`BalancedBooks`).
Interest and prices are the only steps that may put a position at risk.

`TokensAssumption`, that there are finitely many tokens, is needed for the sums
over an account's assets.

### Farms

`FarmProofs` proves `TypeCorrect`, `SharesOfRewardsAddUp`
(`BoostedSharesAddUp`), `BarredAccountsFarmNothing` (`BarredFarmNothing`) and
`XBoosterIsBounded` (`XBoosterBounded`), assuming `FarmSets`, `FarmNumbers`,
`FarmPolicies` (there is a policy, and each is one `assert_valid` lets pass),
`FarmWealth`, `FarmBounds` and `FarmMark`. Its invariant adds to these four what
they need: `RecordsKept` (a record is not ahead of time, counts a reward no
further than the reward is, and has no boosted share of a reward it does not
list), `SuppliersOnly` (who has an entry of a farm supplies its token),
`ClocksRun` (no farm is ahead of time) and `RulesHold` (the rules of staking are
those of a policy while they apply). Without `RecordsKept` a reward that ran out
and is added again would be joined with stale shares and a claim might be
negative; without `RulesHold` a stake that is brought under new rules could
exceed the bound.

Argument: every handler that changes a supply ends with the same operator:
farms are brought up to date (`UpdatedType`), claims made (`ClaimedType`) and
boosted shares recounted (`Recounted`). `AppliedInv` is that these keep the
invariant whatever the handler has done to supply and stake before, and each
action's lemma computes that; `FarmsAlone` serves the actions that touch no farm.
The strengthening was checked by TLC on the instance of `farms`, 29,562 states,
before it was proved.

`StakesCountAtOnce` (`StakeCountsAtOnce`) is an action property that follows from
the same invariant. Every step that changes a stake without sending tokens ends with the operator
of `AppliedInv`, which recounts the boosted shares with the stake the handler
leaves; that no farm of the account is left out needs `SuppliersOnly` and that
`StakeFarms`, which names the farms of a call, has all those an account has an
entry of. What unstaking and sending in one call does not recount is described
above, and is why the property excepts steps that start a payment.

`RewardsAreBalanced` (`RewardsBalance`) is an action property too. It needs
`UpToDate`, which is inductive with the invariant and was checked by TLC on the
instance of `farms`: an entry touched in this block has counted what its farm's
shares have earned, so that a second claim of the block is worth nothing. The
argument goes by farms. An update takes no less out of a reward than it adds to
its shares, and more by less than a fine step for each (`UpdateRounds`); a claim
pays what its record says to the nearest token (`DueRounds`); the records of the
other accounts grow with the update and the claimed one starts anew
(`OwedByRaised`, `OwedByClaimed`). So a farm, claimed from, updated or left
alone, hands out what it strikes off but for these roundings (`Within`), and the
sums over all farms differ by the sum of that (`SumsWithin`, `BalancedSum`).
What remains is bookkeeping: each handler's lemma shows that what it moves
besides, between wallets, pools, reserves, stakes and transfers, adds up
(`KeepsTokens`), also when a refund or an unstaking touches no farm.

### Margin

`MarginInvariant` and `MarginProofs` prove of every number of traders, positions
and tokens:

| Theorem | Property | Needs |
|---|---|---|
| `MarginInvariant`, `TypeCorrect`, `NoShareFromNothing` | `Inv`, `TypeOK`, `SharesExist` | |
| `LocksAreTrades` | `LockedWhileTraded` | |
| `BooksAreKept` | `BooksMatchPositions` | |
| `DebtIsSound` | `MarginDebtSound` | |
| `StuckTradesResume` | `OwnerCanResume` | |
| `ClaimsAreCovered` | `ClaimsCovered` | `FeeApart` |
| `SuppliersAreSafe` | `SuppliersNeverPay` | `FeeApart` |
| `SharesAreConserved` | `SharesConserved` | `FeeApart` |

`FeeApart` says that no pair's debt is in the token of the stop fee. Without it
the fee stays in the supply it was taken from, so that shares and claims no longer
add up: `margin_stop_fee` is the run that shows it.
The instance of `margin_both` satisfies it, so the theorems speak of what that run
checks. Nothing is assumed of who is who: the protocol's owner
may trade and liquidate.

The inductive invariant is `Inv == TypeOK /\ AllFit /\ AllSound /\ Books`:

* `AllFit`: what is stored of a position fits its pair, its trade and its lock:
  one that is being opened has no debt yet, every other has; what a trade is to
  sell has left the position; a liquidator is not the position's owner.
* `AllSound`: every pool has at least as many tokens as shares, and no tokens
  without a share. A debt of no token then has no share, so a repayment in full
  ends it, and a deposit buys no more shares than it has tokens.
* `Books`: `Matched` (pending debts, margin debts and positions of the assets
  are the sums over trades and positions, and locks are trades), `Kept` (a
  supply has the shares of the accounts and of collateral, or more) and `Covers` (under `FeeApart`, claims are covered).

The parts lean on each other: that a repayment does not burn more shares than
the pool has needs `Matched`; that `Covers` holds after a settlement needs the
price to have gone the right way, so `AllSound`; types need both.

Argument: a handler touches one position and at most two assets, or three with
the fee of a stop. `StepInv` reduces the invariant after a step to the one
position and the assets that changed, `StillInv` to fewer for steps that leave
positions alone. A settlement reads copies of the state, changes them in turn
and saves them at the end, and so do the lemmas: `Midway` is what holds of the
copies while the debt is repaid from the trade, the collateral and the reserve,
one lemma for each; `SettledSo` after that; `HandsBack` and `SplitBenefits` are
about what is left, and `SettledInv` about saving it. `OwnerCanResume` has a witness, a repayment in
full: tokens enough for the debt and its fee always pass every assertion of the
handler, because pools are sound. `SharesConserved` is an action property:
`StepShares` shows of each step that shares are where they were, or that the owner
meets itself and some are in nobody's name. The invariant was checked by TLC on the
instances of the margin runs before it was proved.

### Shadow

`ShadowProofs` proves `SharesCover` (`SharesCoverShadows`), `ShadowsMatch`
(`BurrowShadowsMatch`), `LocksHold` and `SharesAreConserved` for any accounts,
any number of calls under way and any order of their effects and outcomes,
assuming what `Shadow` states of its constants.

* `TypedInvariant`: types with `Books`, that shares and LP tokens are those of
  accounts; a repayment in a callback burns no more than there is because of
  `Books`.
* `SharesCover` needs the types and nothing of the lending contract: the
  exchange guards its records by itself. The one delicate step is `BurningBacks`:
  what is burnt is uncast from burrow, and from the farm what the remaining shares
  no longer back.
* `ShadowsMatch` is not inductive. `callback_on_shadow` takes an amount from the
  record only if it is there, so that it must be shown to be there (`AheadBound`);
  the forced closing takes all the collateral there is in its callback, while the
  exchange burnt what was there when it was asked. Both rest on `Locking`: parties
  of a settlement are locked, none is a party of two, and the collateral asked for
  is still there. `Matching` adds that the `Gap` between the books is zero for
  every account that is not `Stuck`, that is locked with no settlement left to
  release it. A stuck account stays so, and nothing is claimed of its books.
  TLC checked `Locking` and `Books` on the instances of `MCShadow_loans` and
  `MCShadow_lock`, whose callbacks abort, before they were proved.

Argument: a step sends a call, answers one, drops one or leaves the calls alone.
`SendKeeps`, `AnswerKeeps`, `DropKeeps` and `StillKept` reduce `Kept` in each case
to the arithmetic of one account; beneath them, `PendingSent`, `PendingAnswered`
and `PendingHeard` say what each does to the sum of what is under way, and
`LockingSent`, `LockingAsked`, `LockingAnswered`, `LockingHeard` to the locks. That
a sum over the calls survives the removal of one in the middle is `SumReindexed`.

`ImplementsSettlement` stays with TLC: its `Ends` is liveness. That each step of
`Shadow` is one of `Settlement` or none could be proved, and is in the plan.

### Registry

`RegistryProofs` proves of any accounts, prices of storage, configurations and
records of earlier versions:

| Theorem | Property | From |
|---|---|---|
| `RegistryInvariance` | `Inv` | |
| `BytesAlwaysAddUp` | `BytesAddUp` | `Inv` |
| `SharesAreOfAccounts` | `SharesOfAccounts` | `Inv` |
| `SettingsAreSound` | `SettingsStaySound` | types in `Inv`, `RulesKept` |
| `OnlyRefundsOverdraw` | `OverdrawnByRefunds` | types in `Inv` |

It assumes what `Registry` and `Administration` state of their constants: accounts
are finitely many and the owner is one of them (`RegistrySets`,
`OwnerAssumption`), prices and amounts are natural (`RegistryNumbers`,
`NumberAssumption`, `BoundAssumption`), configurations have the fields of
`AssetConfig` (`AssetAssumption`), markers are no records (`RegistryMarks`), and
`StartAssumption`: what an earlier version left is as `LeftBehind` says. Records
have their types, nothing is kept for who has no account, a record without a
position neither pledges nor owes, and the pools of a listed asset hold the shares
of the records.

The invariant is `Inv == RecordsKept /\ OthersTyped /\ Unlisted /\
SharesOfAccounts`. `RecordsKept` has the types, `BytesAddUp` and two facts no
run states:

* `Linked`: an account, its storage, its margin account and its entries come and
  go together. Without it a registration could charge for a record that is there.
* `Positioned`: a record without a position neither pledges nor owes.
  `storage_unregister` looks at the position only, so that shares would be lost
  with an account that pledged without one.

`Unlisted` says that nobody has a share before `add_asset`: a listing starts from
empty pools. TLC checked `Linked`, `Positioned`, `Unlisted` and the types on the
instance of `registry` before they were proved.

Argument: every handler reads a record, converted if it must be, changes it, and
saves it. `ConvertedKeeps` says that a conversion changes neither shares nor what
is pledged; `SaveKeeps` and `SaveMarginKeeps` that a save charges for the bytes it
adds, those the conversion added or cleared included; `AccountSaved` and
`MarginSaved` that the invariant holds after a save if the pool and the record
changed by the same shares, which each handler's lemma computes. Setters save the
asset and no account (`RecordsUntouched`, `SettingsKeep`).
`SettingsStaySound` needs a word of two setters: the removal of a beneficiary is
not checked by the code, and a sum of natural parts shrinks when one is taken away
(`RemoveBeneficiarySets`), as their number does; `update_asset_limit` and
`upsert_beneficiary` check the whole. `RulesKept` is what the setters of
`margin_config` keep, one by one, so that a token without limits of its own has
sane ones by default. For `OverdrawnByRefunds` each save is shown to be paid for
(`SavePaid`, `StoragePaid`), but for that of `TransferFails`, which is forced.

### Oracles

`OracleProofs` proves of any accounts, tokens, feeds, weights, prices and lists of
any length:

| Theorem | Property | From |
|---|---|---|
| `OracleInvariance` | `OracleInv` | |
| `OraclesAreTyped` | `TypeOK` | `OracleInv` |
| `NothingIsEverMinted` | `NothingIsMinted` | `OracleInv` |
| `LimitedRecordsNeverFall` | `RecordFallsUnlimited` | types in `OracleInv` |
| `RiskIsAlwaysPriced` | `RiskIsPriced` | `OracleInv`, `RanOn` |
| `SeizuresAreAtRisk` | `SeizedAtRisk` | `OracleInv`, `RanOn` |

It assumes what `Oracles` states of its constants. Accounts and tokens are finitely
many and a price identifier is no token (`TokenAssumption`); ratios, prices and
times are natural (`RatioAssumption`, `PriceAssumption`); collateral counts for its
worth or less and a debt for its worth or more (`WeightAssumption`, which is that
`AssetConfig` keeps `volatility_ratio` at most `MAX_RATIO`); lists are sequences of
actions (`ListAssumption`), and who pledged or owes at first has a position
(`InitialAssumption`). `InfoAssumption` is one on the owner: a token is priced by
its own feed, a staking token by its rate too, and one that no feed quotes has a
default (`Truthful`). The code lets the owner name any feed, and under another's
price no health is worth anything.

The invariant is `OracleInv == LedgersFit /\ NothingIsMinted /\ MarketFits /\
InfoFits /\ CallsFit /\ OthersFit`:

* `LedgersFit`: types, and a position that pledges or owes exists (`Coherent`). A
  liquidation that empties a position, and a list that pledges after it decreased,
  rest on it.
* `MarketFits`: types, and what a feed shows was published.
* `CallsFit`: a call that waits has answers that were published since, or rates
  between those of its start and those of now (`AnswersFit`); for the other oracle,
  all its prices are of one moment, the call's own (`PricesFit`). Types alone are not
  enough: the callback checks that a quote is fresh and not who published it.
* `NothingIsMinted`, `InfoFits` and `OthersFit`, which has the rest of the types.

Argument, in two halves that meet in `EveryStep`. On any prices `q` whatever, a list
is a fold over its actions, and `SoundRun` survives each of them (`IncreaseSound` to
`ForceCloseSound`, then `ListSound` by induction on the list, for which
`ListEndIsRun` unfolds the fold): the copy of the caller and the stored accounts
together have the amounts they had, others lose only at risk, and without a loan or
a withdrawal the caller's risk does not grow. A forced closing asks that the debt be
worth more than the collateral, unweighted; that the position is then at risk is
`WorthLess`. The other half is about `q`: a callback's prices are `Backed`, that is
some prices of `PlausiblePrices` have them among theirs (`AnswersAreBacked`,
`OraclePricesAreBacked`, `DefaultsAreBacked`). Prices that agree on what a position
involves judge it alike (`SameJudgement`, `SameMarginJudgement`), and so health under
`q` is health under prices the market can answer for. One account acts in a step
(`AsksAlone`, `EndsAlone`), which is why `RatesSince` is about its call.

### What is only model-checked

* `Margin`: `OnlyMarketEndangers`, and `FeeLeavesSupply`, which fails.
* `Registry`: `BooksDriftByRefunds`.
* `Dcl`, all of it: `DclPool` walks its bitmap by recursion, and no theorem may rest
  on a recursive operator.
* `ImplementsSettlement` of `Shadow`, as said above.

Out of the prover's reach are liveness under fairness (`PositionsUnlock`, and the
fairness of `ImplementsSettlement`), `ENABLED`, and induction over data.

## Not modelled

* Views and events: they change no state. `BigDecimal` is exact here.
* Mocks other than the exchanges and the farm, the test oracle, tests and the
  Python simulation: stand-ins for other contracts.
* Of `Lending`: a liquidation over several assets on a side, the repayment of
  ETH_OLD with ETH_NEW, the `can_*` flags.
* Of `Margin`: several margin actions in one call, the decimals of tokens.
* Of `Farms`: the farms of debts, of net balances and of the net value.
* Of the exchanges: swaps over several pools and by output; of
  `mock-ref-exchange` everything but shadows.
* Of configuration: which exchanges and price contracts are named, and what
  their names are.

## Plan

The runs are kept to a dozen of a few minutes each, so that all of them are run
whenever a module changes. What is left is proof:


1. `Shadow`: the steps of the refinement of `Settlement`, its `Ends` apart.
2. `Dcl`: the walk over the bitmap as a recursive function, so that
   `LiquidityAddsUp` and `NoOrderPassed` can be proved.
