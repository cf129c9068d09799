------------------------------- MODULE Lending -------------------------------
(***************************************************************************)
(* The lending core of contracts/contract: registered accounts deposit     *)
(* tokens for shares of a pool, pledge shares as collateral, borrow, repay *)
(* and withdraw; others liquidate or force-close positions at risk.        *)
(*                                                                         *)
(* A NEAR contract call is atomic: it commits or, when an assertion fails, *)
(* changes nothing.  So a handler is one action and its assertions are the *)
(* action's guard.  What is not atomic is a call that leaves the contract: *)
(* a withdrawal burns the shares at once, asks the token contract to pay,  *)
(* and learns in a later callback whether it did; simple_withdraw may wait *)
(* for the price oracle between computing an amount and using it.  Other   *)
(* calls run in between.                                                   *)
(*                                                                         *)
(* Amounts are in the contract's inner decimals; a token contract deals in *)
(* units of Scale of them (10 ^ extra_decimals), and what is left of a     *)
(* withdrawal below one unit stays in the contract.                        *)
(***************************************************************************)
EXTENDS Pools, FiniteSets, Functions

CONSTANTS
    Accounts,           \* the users, the protocol owner among them
    Tokens,             \* the listed assets
    Slots,              \* at most this many transfers are in flight
    NoTransfer,         \* the content of a free slot
    NoRequest,          \* no simple_withdraw waits for the oracle
    Owner,              \* config.owner_id
    Beneficiary,        \* the account sharing in every asset's fees
    Reliable,           \* the whitelisted liquidators
    Refusing,           \* the accounts the token contracts cannot pay
    Scale,              \* inner units in one unit of the token contract
    MinReserveShares,   \* MIN_RESERVE_SHARES
    MaxRatio,           \* MAX_RATIO, the denominator of the ratios below
    ReserveRatio,       \* the part of interest that goes to the reserve
    BeneficiaryRate,    \* the part of that which goes to the beneficiary
    CollateralWeight,   \* a token's volatility_ratio over a common denominator
    DebtWeight,         \* the inverse of its volatility_ratio over the same
    SupplyLimit,        \* config.supplied_limit of each asset
    BorrowLimit,        \* config.borrowed_limit of each asset
    MaxNumAssets,       \* config.max_num_assets
    Prices,             \* the prices an oracle may report
    InitialWallet,      \* what each account holds of each token at first
    Amounts,            \* bound: the amounts an action may name
    SimpleAmounts,      \* bound: the amounts simple_withdraw may name
    Interests,          \* bound: the interest that may accrue in one step
    MaxDebt             \* bound: no interest accrues beyond this debt

\* `kind` is the callback that will learn the outcome
TransferType == [kind : {"after_ft_transfer", "after_ft_transfer_call",
                         "after_beneficiary_withdraw"},
                 account : Accounts, recipient : Accounts, token : Tokens,
                 amount : Nat, ft_amount : Nat]

RequestType == [token : Tokens, total : Nat, gap : Nat, recipient : Accounts]

ASSUME AccountsAssumption == IsFiniteSet(Accounts) /\ Owner \in Accounts
                             /\ Beneficiary \in Accounts /\ Reliable \subseteq Accounts
                             /\ Refusing \subseteq Accounts
ASSUME TokensAssumption == IsFiniteSet(Tokens)
ASSUME SlotsAssumption == IsFiniteSet(Slots)
ASSUME ScaleAssumption == Scale \in Nat \ {0}
ASSUME ReserveSharesAssumption == MinReserveShares \in Nat \ {0}
ASSUME RatioAssumption == /\ MaxRatio \in Nat \ {0}
                          /\ ReserveRatio \in 0 .. MaxRatio
                          /\ BeneficiaryRate \in 0 .. MaxRatio
ASSUME WeightAssumption == /\ CollateralWeight \in [Tokens -> Nat \ {0}]
                           /\ DebtWeight \in [Tokens -> Nat \ {0}]
                           /\ \A t \in Tokens : CollateralWeight[t] <= DebtWeight[t]
ASSUME LimitAssumption == /\ SupplyLimit \in [Tokens -> Nat]
                          /\ BorrowLimit \in [Tokens -> Nat]
                          /\ MaxNumAssets \in Nat
ASSUME PriceAssumption == Prices \subseteq Nat \ {0} /\ Prices # {}
ASSUME WalletAssumption == InitialWallet \in [Accounts -> [Tokens -> Nat]]
ASSUME MarkAssumption == NoTransfer \notin TransferType /\ NoRequest \notin RequestType
ASSUME AmountAssumption == /\ Amounts \subseteq Nat
                           /\ SimpleAmounts \subseteq Nat
                           /\ Interests \subseteq Nat
                           /\ MaxDebt \in Nat

VARIABLES
    asset,       \* asset[t]: the pools of token t, its reserve, its unpaid fees
    registered,  \* the accounts with a storage deposit
    supplied,    \* supplied[a][t]: a's shares that are not collateral
    collateral,  \* collateral[a][t]: shares pledged in a's regular position
    pledged,     \* pledged[a]: the tokens that position lists as collateral
    borrowed,    \* borrowed[a][t]: debt shares of that position
    transfer,    \* transfer[s]: a payment the token contract has yet to make
    request,     \* request[a]: a simple_withdraw of a that waits for prices
    price,       \* price[t]: the price an oracle call would report now
    cash,        \* cash[t]: tokens the token contract holds for this contract
    wallet       \* wallet[a][t]: tokens it holds for a

vars == <<asset, registered, supplied, collateral, pledged, borrowed,
          transfer, request, price, cash, wallet>>

Requests == RequestsOver(Amounts)

AssetType == [supplied : PoolType, borrowed : PoolType,
              reserved : Nat, beneficiary_fees : Nat]

TypeOK ==
    /\ asset \in [Tokens -> AssetType]
    /\ registered \subseteq Accounts
    /\ supplied \in [Accounts -> [Tokens -> Nat]]
    /\ collateral \in [Accounts -> [Tokens -> Nat]]
    /\ pledged \in [Accounts -> SUBSET Tokens]
    /\ borrowed \in [Accounts -> [Tokens -> Nat]]
    /\ transfer \in [Slots -> TransferType \cup {NoTransfer}]
    /\ request \in [Accounts -> RequestType \cup {NoRequest}]
    /\ price \in [Tokens -> Nat]
    /\ cash \in [Tokens -> Nat]
    /\ wallet \in [Accounts -> [Tokens -> Nat]]

NewAsset == [supplied |-> EmptyPool, borrowed |-> EmptyPool,
             reserved |-> 0, beneficiary_fees |-> 0]

Init ==
    /\ asset = [t \in Tokens |-> NewAsset]
    /\ registered = {Owner}
    /\ supplied = [a \in Accounts |-> [t \in Tokens |-> 0]]
    /\ collateral = [a \in Accounts |-> [t \in Tokens |-> 0]]
    /\ pledged = [a \in Accounts |-> {}]
    /\ borrowed = [a \in Accounts |-> [t \in Tokens |-> 0]]
    /\ transfer = [s \in Slots |-> NoTransfer]
    /\ request = [a \in Accounts |-> NoRequest]
    /\ price \in [Tokens -> Prices]
    /\ cash = [t \in Tokens |-> 0]
    /\ wallet = InitialWallet

-----------------------------------------------------------------------------
(***************************************************************************)
(* Saving an asset.  Every handler ends its work on an asset with          *)
(* internal_set_asset, which refuses pools with too few shares (unless a   *)
(* whitelisted liquidator is acting), moves an orphaned supply balance to  *)
(* the reserve, and asserts the invariant of both pools.                   *)
(***************************************************************************)
Checked(a) == a \notin Reliable

EnoughShares(pool) == pool.shares = 0 \/ pool.shares >= MinReserveShares

Normalized(as) ==
    IF as.supplied.shares = 0
    THEN [as EXCEPT !.reserved = @ + as.supplied.balance, !.supplied = EmptyPool]
    ELSE as

CanSave(as, checked) ==
    /\ checked => EnoughShares(as.supplied) /\ EnoughShares(as.borrowed)
    /\ as.borrowed.shares > 0 \/ as.borrowed.balance = 0
    /\ PoolInvariant(Normalized(as).supplied)
    /\ PoolInvariant(as.borrowed)

SetAsset(t, as, checked) ==
    /\ CanSave(as, checked)
    /\ asset' = [asset EXCEPT ![t] = Normalized(as)]

\* the tokens that are not lent out; an action that finds this negative aborts
AvailableAmount(as) == as.supplied.balance + as.reserved - as.borrowed.balance

Supplied(as, shares, amount) ==
    [as EXCEPT !.supplied = PoolDeposit(@, shares, amount)]

Unsupplied(as, shares, amount) ==
    [as EXCEPT !.supplied = PoolWithdraw(@, shares, amount)]

Add(f, a, t, n) == [f EXCEPT ![a][t] = @ + n]
Sub(f, a, t, n) == [f EXCEPT ![a][t] = @ - n]

Pledge(a, t, shares) ==
    /\ collateral' = Add(collateral, a, t, shares)
    /\ pledged' = [pledged EXCEPT ![a] = @ \cup {t}]

\* slip: more collateral may be taken than there is
UnpledgeMore(a, t, shares) ==
    /\ t \in pledged[a]
    /\ collateral' = Sub(collateral, a, t, shares)
    /\ pledged' = [pledged EXCEPT ![a] =
                      IF shares = collateral[a][t] THEN @ \ {t} ELSE @]

Unpledge(a, t, shares) ==
    /\ t \in pledged[a]
    /\ shares <= collateral[a][t]
    /\ collateral' = Sub(collateral, a, t, shares)
    /\ pledged' = [pledged EXCEPT ![a] =
                      IF shares = collateral[a][t] THEN @ \ {t} ELSE @]

-----------------------------------------------------------------------------
(***************************************************************************)
(* The health of a position.  The code sums collateral * price * ratio and *)
(* debt * price / ratio in fixed point; with the weights both sums are the *)
(* same integers scaled by one factor.  The discount a liquidator may take *)
(* is half of (debt - collateral) / debt when that is positive.            *)
(***************************************************************************)
\* Position::is_empty is false: some token is listed on either side.  A
\* collateral entry may hold no shares (see OnlyIncreaseCollateral).
PositionExists(a) ==
    pledged[a] # {} \/ \E t \in Tokens : borrowed[a][t] > 0

CollateralSum(assets, shares, prices) ==
    SumFunction([t \in Tokens |->
        SharesToAmount(assets[t].supplied, shares[t], FALSE) * prices[t] * CollateralWeight[t]])

BorrowedSum(assets, shares, prices) ==
    SumFunction([t \in Tokens |->
        SharesToAmount(assets[t].borrowed, shares[t], TRUE) * prices[t] * DebtWeight[t]])

\* slip: a position without collateral has nothing to lose
AtRiskOnlyPledged(assets, collat, debt, prices) ==
    /\ \E t \in Tokens : debt[t] > 0
    /\ \E t \in Tokens : collat[t] > 0
    /\ BorrowedSum(assets, debt, prices) > CollateralSum(assets, collat, prices)

\* compute_max_discount is above zero
AtRisk(assets, collat, debt, prices) ==
    /\ \E t \in Tokens : debt[t] > 0
    /\ BorrowedSum(assets, debt, prices) > CollateralSum(assets, collat, prices)

Healthy(a) == ~ AtRisk(asset, collateral[a], borrowed[a], price)

\* slip: the check reads the state from before the action
WasHealthyBefore(a) == ~ AtRisk(asset, collateral[a], borrowed[a], price)

\* the risk check that ends an execute: it reads what the action has written
StaysHealthy(a) == ~ AtRisk(asset', collateral'[a], borrowed'[a], price)

\* get_assets_num of what the action has written
AssetsNum(a) ==
    Cardinality(pledged'[a]) + Cardinality({t \in Tokens : borrowed'[a][t] > 0})

-----------------------------------------------------------------------------
(***************************************************************************)
(* Tokens that arrive: ft_on_transfer.  The token contract has moved them  *)
(* from the sender's wallet before the call; `n` counts its units.         *)
(***************************************************************************)
Arrive(a, t, n) ==
    /\ n > 0
    /\ wallet[a][t] >= n * Scale
    /\ wallet' = Sub(wallet, a, t, n * Scale)
    /\ cash' = [cash EXCEPT ![t] = @ + n * Scale]

Deposit(a, t, n) ==
    LET amount == n * Scale
        shares == AmountToShares(asset[t].supplied, amount, FALSE)
    IN  /\ a \in registered
        /\ Arrive(a, t, n)
        /\ SetAsset(t, Supplied(asset[t], shares, amount), Checked(a))
        /\ supplied' = Add(supplied, a, t, shares)
        /\ UNCHANGED <<registered, collateral, pledged, borrowed, transfer, request, price>>

\* OnlyIncreaseCollateral: the tokens go to the position and skip the supply.
\* Too few tokens for one share leave an entry without shares in the position.
OnlyIncreaseCollateral(a, t, n) ==
    LET amount == n * Scale
        shares == AmountToShares(asset[t].supplied, amount, FALSE)
    IN  /\ a \in registered
        /\ asset[t].supplied.balance + amount <= SupplyLimit[t]
        /\ Arrive(a, t, n)
        /\ SetAsset(t, Supplied(asset[t], shares, amount), Checked(a))
        /\ Pledge(a, t, shares)
        /\ UNCHANGED <<registered, supplied, borrowed, transfer, request, price>>
        /\ AssetsNum(a) <= MaxNumAssets

\* OnlyRepay: the tokens pay the debt, and what is left becomes supply
OnlyRepay(a, t, n) ==
    LET amount    == n * Scale
        debt      == borrowed[a][t]
        owed      == SharesToAmount(asset[t].borrowed, debt, TRUE)
        paid      == Least(amount, owed)
        repaid    == IF amount >= owed THEN debt
                     ELSE AmountToShares(asset[t].borrowed, amount, FALSE)
        remain    == amount - paid
        shares    == IF remain > 0
                     THEN AmountToShares(asset[t].supplied, remain, FALSE)
                     ELSE 0
        cleared   == [asset[t] EXCEPT !.borrowed = PoolWithdraw(@, repaid, paid)]
    IN  /\ a \in registered
        /\ debt > 0
        /\ repaid <= debt
        /\ CanWithdraw(asset[t].borrowed, repaid, paid)
        /\ Arrive(a, t, n)
        /\ SetAsset(t, Supplied(cleared, shares, remain), Checked(a))
        /\ supplied' = Add(supplied, a, t, shares)
        /\ borrowed' = Sub(borrowed, a, t, repaid)
        /\ UNCHANGED <<registered, collateral, pledged, transfer, request, price>>

\* DepositToReserve, when the protocol owes nothing (see the margin modules)
DepositToReserve(a, t, n) ==
    /\ Arrive(a, t, n)
    /\ SetAsset(t, [asset[t] EXCEPT !.reserved = @ + n * Scale], Checked(a))
    /\ UNCHANGED <<registered, supplied, collateral, pledged, borrowed, transfer, request, price>>

-----------------------------------------------------------------------------
(***************************************************************************)
(* The actions of execute.  A list of actions runs in one transaction;     *)
(* here each list holds one action, and the risk check follows it.  The    *)
(* asynchronous pyth form re-reads the account when the prices arrive, so  *)
(* it is the same action at a later time.                                  *)
(***************************************************************************)
IncreaseCollateral(a, t, req) ==
    LET move == AssetAmountToShares(asset[t].supplied, supplied[a][t], req, FALSE)
    IN  /\ a \in registered
        /\ supplied[a][t] > 0
        /\ Checked(a) => asset[t].supplied.balance <= SupplyLimit[t]
        /\ IsMove(move)
        /\ move.shares <= supplied[a][t]
        /\ supplied' = Sub(supplied, a, t, move.shares)
        /\ Pledge(a, t, move.shares)
        /\ UNCHANGED <<asset, registered, borrowed, transfer, request, price, cash, wallet>>
        /\ AssetsNum(a) <= MaxNumAssets

DecreaseCollateral(a, t, req) ==
    LET move == AssetAmountToShares(asset[t].supplied, collateral[a][t], req, FALSE)
    IN  /\ a \in registered
        /\ IsMove(move)
        /\ Unpledge(a, t, move.shares)
        /\ supplied' = Add(supplied, a, t, move.shares)
        /\ UNCHANGED <<asset, registered, borrowed, transfer, request, price, cash, wallet>>
        /\ StaysHealthy(a)

\* what internal_borrow will lend for a request, before it is checked
BorrowMove(t, req) ==
    AssetAmountToShares(asset[t].borrowed,
                        AmountToShares(asset[t].borrowed, AvailableAmount(asset[t]), FALSE),
                        req, FALSE)

Borrow(a, t, req) ==
    LET move   == BorrowMove(t, req)
        shares == AmountToShares(asset[t].supplied, move.amount, FALSE)
        lent   == [asset[t] EXCEPT !.borrowed = PoolDeposit(@, move.shares, move.amount)]
    IN  /\ a \in registered
        /\ PositionExists(a)
        /\ AvailableAmount(asset[t]) >= 0
        /\ req.kind # "amount" => Convertible(asset[t].borrowed, move.shares)
        /\ IsMove(move)
        /\ move.amount <= AvailableAmount(asset[t])
        /\ Checked(a) => asset[t].borrowed.balance + move.amount <= BorrowLimit[t]
        /\ SetAsset(t, Supplied(lent, shares, move.amount), Checked(a))
        /\ borrowed' = Add(borrowed, a, t, move.shares)
        /\ supplied' = Add(supplied, a, t, shares)
        /\ UNCHANGED <<registered, collateral, pledged, transfer, request, price, cash, wallet>>
        /\ AssetsNum(a) <= MaxNumAssets
        /\ StaysHealthy(a)

\* internal_repay: what `payer` gives up to reduce the debt of `debtor`.  A
\* payer with too little supply pays with all of it, unless the request names
\* an amount.
RepayMove(payer, debtor, t, req) ==
    LET pools  == asset[t]
        whole  == AssetAmountToShares(pools.borrowed, borrowed[debtor][t], req, TRUE)
        cost   == AmountToShares(pools.supplied, whole.amount, TRUE)
        all    == SharesToAmount(pools.supplied, supplied[payer][t], FALSE)
    IN  IF cost <= supplied[payer][t]
        THEN [burnt |-> cost, repaid |-> whole.shares, amount |-> whole.amount]
        ELSE [burnt  |-> supplied[payer][t],
              repaid |-> AmountToShares(pools.borrowed, all, FALSE),
              amount |-> all]

CanRepay(payer, debtor, t, req, move) ==
    /\ supplied[payer][t] > 0
    /\ borrowed[debtor][t] > 0
    /\ IsMove(AssetAmountToShares(asset[t].borrowed, borrowed[debtor][t], req, TRUE))
    /\ req.kind = "amount" => move.amount >= req.value
    /\ move.amount > 0
    /\ move.repaid > 0
    /\ move.repaid <= borrowed[debtor][t]
    /\ CanWithdraw(asset[t].supplied, move.burnt, move.amount)
    /\ CanWithdraw(asset[t].borrowed, move.repaid, move.amount)

\* slip: the payer's tokens leave the supply and its shares stay
RepaidInTokens(as, move) ==
    [Unsupplied(as, 0, move.amount)
        EXCEPT !.borrowed = PoolWithdraw(@, move.repaid, move.amount)]

Repaid(as, move) ==
    [Unsupplied(as, move.burnt, move.amount)
        EXCEPT !.borrowed = PoolWithdraw(@, move.repaid, move.amount)]

Repay(a, t, req) ==
    LET move == RepayMove(a, a, t, req)
    IN  /\ a \in registered
        /\ CanRepay(a, a, t, req, move)
        /\ SetAsset(t, Repaid(asset[t], move), Checked(a))
        /\ supplied' = Sub(supplied, a, t, move.burnt)
        /\ borrowed' = Sub(borrowed, a, t, move.repaid)
        /\ UNCHANGED <<registered, collateral, pledged, transfer, request, price, cash, wallet>>

-----------------------------------------------------------------------------
(***************************************************************************)
(* Withdrawals.  The shares are burnt and the asset saved before the token *)
(* contract is asked to pay; the tokens leave `cash` when it does.         *)
(***************************************************************************)
Start(kind, a, recipient, t, amount) ==
    \E s \in Slots :
        /\ transfer[s] = NoTransfer
        /\ transfer' = [transfer EXCEPT ![s] =
               [kind |-> kind, account |-> a, recipient |-> recipient, token |-> t,
                amount |-> amount, ft_amount |-> amount \div Scale]]

\* slip: what is lent out can be withdrawn as well
CanBurnLent(t, held, move) ==
    /\ IsMove(move)
    /\ move.amount \div Scale > 0
    /\ move.shares <= held
    /\ CanWithdraw(asset[t].supplied, move.shares, move.amount)

\* internal_withdraw; an amount below one unit of the token moves nothing
CanBurn(t, held, move) ==
    /\ IsMove(move)
    /\ AvailableAmount(asset[t]) >= 0
    /\ move.amount <= AvailableAmount(asset[t])
    /\ move.amount \div Scale > 0
    /\ move.shares <= held
    /\ CanWithdraw(asset[t].supplied, move.shares, move.amount)

Withdraw(a, t, req, kind) ==
    LET move == AssetAmountToShares(asset[t].supplied, supplied[a][t], req, FALSE)
    IN  /\ a \in registered
        /\ supplied[a][t] > 0
        /\ CanBurn(t, supplied[a][t], move)
        /\ SetAsset(t, Unsupplied(asset[t], move.shares, move.amount), Checked(a))
        /\ supplied' = Sub(supplied, a, t, move.shares)
        /\ Start(kind, a, a, t, move.amount)
        /\ UNCHANGED <<registered, collateral, pledged, borrowed, request, price, cash, wallet>>

\* client_echo_withdraw_by_shares: the shares are the caller's to name
WithdrawByShares(a, t, shares) ==
    LET amount == SharesToAmount(asset[t].supplied, shares, FALSE)
    IN  /\ a \in registered
        /\ supplied[a][t] > 0
        /\ shares <= supplied[a][t]
        /\ AvailableAmount(asset[t]) >= 0
        /\ amount <= AvailableAmount(asset[t])
        /\ CanWithdraw(asset[t].supplied, shares, amount)
        /\ SetAsset(t, Unsupplied(asset[t], shares, amount), TRUE)
        /\ supplied' = Sub(supplied, a, t, shares)
        /\ IF amount \div Scale > 0
           THEN Start("after_ft_transfer_call", a, a, t, amount)
           ELSE UNCHANGED transfer
        /\ UNCHANGED <<registered, collateral, pledged, borrowed, request, price, cash, wallet>>

\* what simple_withdraw lacks in supply and takes from the collateral
Gap(a, t, total) ==
    LET held == SharesToAmount(asset[t].supplied, supplied[a][t], FALSE)
    IN  IF supplied[a][t] = 0 THEN total
        ELSE IF held >= total THEN 0 ELSE total - held

\* slip: the risk is checked before the collateral is decreased
WasHealthy(a) == ~ AtRisk(asset, collateral[a], borrowed[a], price)

\* the risk check between the two steps of a withdrawal with a gap
LeavesHealthy(a) == ~ AtRisk(asset, collateral'[a], borrowed[a], price)

WithdrawWithGap(a, t, total, gap, recipient) ==
    LET freed == AssetAmountToShares(asset[t].supplied, collateral[a][t], Exactly(gap), FALSE)
        move  == AssetAmountToShares(asset[t].supplied, 0, Exactly(total), FALSE)
    IN  /\ a \in registered
        /\ IsMove(freed)
        /\ Unpledge(a, t, freed.shares)
        /\ LeavesHealthy(a)
        /\ CanBurn(t, supplied[a][t] + freed.shares, move)
        /\ SetAsset(t, Unsupplied(asset[t], move.shares, total), TRUE)
        /\ supplied' = [supplied EXCEPT ![a][t] = @ + freed.shares - move.shares]
        /\ Start("after_ft_transfer", a, recipient, t, total)
        /\ UNCHANGED <<registered, borrowed, price, cash, wallet>>

\* simple_withdraw from the supply alone
SimpleWithdraw(a, t, total, recipient) ==
    LET move == AssetAmountToShares(asset[t].supplied, supplied[a][t], Exactly(total), FALSE)
    IN  /\ a \in registered
        /\ Gap(a, t, total) = 0
        /\ supplied[a][t] > 0
        /\ CanBurn(t, supplied[a][t], move)
        /\ SetAsset(t, Unsupplied(asset[t], move.shares, total), TRUE)
        /\ supplied' = Sub(supplied, a, t, move.shares)
        /\ Start("after_ft_transfer", a, recipient, t, total)
        /\ UNCHANGED <<registered, collateral, pledged, borrowed, request, price, cash, wallet>>

\* simple_withdraw with a gap, when every price is known without the oracle
SimpleWithdrawNow(a, t, total, recipient) ==
    /\ Gap(a, t, total) > 0
    /\ PositionExists(a)
    /\ WithdrawWithGap(a, t, total, Gap(a, t, total), recipient)
    /\ UNCHANGED request

\* simple_withdraw with a gap: ask the oracle, remembering the gap of now
SimpleWithdrawAsk(a, t, total, recipient) ==
    /\ a \in registered
    /\ request[a] = NoRequest
    /\ Gap(a, t, total) > 0
    /\ PositionExists(a)
    /\ request' = [request EXCEPT ![a] = [token |-> t, total |-> total,
                       gap |-> Gap(a, t, total), recipient |-> recipient]]
    /\ UNCHANGED <<asset, registered, supplied, collateral, pledged, borrowed,
                   transfer, price, cash, wallet>>

\* callback_simple_withdraw_with_pyth: the gap of then, in the state of now
SimpleWithdrawResume(a) ==
    /\ request[a] # NoRequest
    /\ WithdrawWithGap(a, request[a].token, request[a].total, request[a].gap,
                       request[a].recipient)
    /\ request' = [request EXCEPT ![a] = NoRequest]

\* the callback aborts, or the oracle did not answer: the request is gone
SimpleWithdrawAbort(a) ==
    /\ request[a] # NoRequest
    /\ request' = [request EXCEPT ![a] = NoRequest]
    /\ UNCHANGED <<asset, registered, supplied, collateral, pledged, borrowed,
                   transfer, price, cash, wallet>>

-----------------------------------------------------------------------------
(***************************************************************************)
(* The token contract's answer and the callback that takes it.  `used` is  *)
(* how many units the recipient kept: all of them or none for ft_transfer, *)
(* any number for ft_transfer_call.  The contract cannot pay what it does  *)
(* not hold.  The rest is deposited again, without the asset checks.  A    *)
(* callback whose account has unregistered aborts, and nobody is credited. *)
(***************************************************************************)
Answered(s, used) ==
    LET tr == transfer[s]
    IN  /\ transfer[s] # NoTransfer
        /\ used \in 0 .. tr.ft_amount
        /\ used > 0 => tr.recipient \notin Refusing
        /\ cash[tr.token] >= used * Scale
        /\ cash' = [cash EXCEPT ![tr.token] = @ - used * Scale]
        /\ wallet' = Add(wallet, tr.recipient, tr.token, used * Scale)
        /\ transfer' = [transfer EXCEPT ![s] = NoTransfer]
        /\ UNCHANGED <<registered, collateral, pledged, borrowed, request, price>>

TransferSucceeds(s) ==
    /\ Answered(s, transfer[s].ft_amount)
    /\ UNCHANGED <<asset, supplied>>

\* slip: all the amount comes back when only a part was refused
WholeAmount(tr, used) == tr.amount

\* slip: what comes back is counted in the token contract's decimals
InTokenDecimals(tr, used) == tr.ft_amount - used

\* u128_ratio(amount, remain_ft_amount, ft_amount)
Remainder(tr, used) == (tr.amount * (tr.ft_amount - used)) \div tr.ft_amount

RefundShares(tr, used) ==
    AmountToShares(asset[tr.token].supplied, Remainder(tr, used), FALSE)

\* slip: the pool rounds the shares of a refund up, the account down
RefundedUp(tr, used) ==
    Supplied(asset[tr.token], AmountToShares(asset[tr.token].supplied, Remainder(tr, used), TRUE),
             Remainder(tr, used))

Refunded(tr, used) ==
    Supplied(asset[tr.token], RefundShares(tr, used), Remainder(tr, used))

\* slip: the callback saves the asset with its checks
CanRefundChecked(tr, used) ==
    tr.account \in registered /\ CanSave(Refunded(tr, used), TRUE)

\* the callback does not abort
CanRefund(tr, used) ==
    tr.account \in registered /\ CanSave(Refunded(tr, used), FALSE)

\* something comes back to after_ft_transfer or after_ft_transfer_call
ComesBack(s, used) ==
    /\ Answered(s, used)
    /\ used < transfer[s].ft_amount
    /\ transfer[s].kind = "after_ft_transfer" => used = 0
    /\ transfer[s].kind # "after_beneficiary_withdraw"

Refund(s, used) ==
    LET tr == transfer[s]
    IN  /\ ComesBack(s, used)
        /\ CanRefund(tr, used)
        /\ asset' = [asset EXCEPT ![tr.token] = Normalized(Refunded(tr, used))]
        /\ supplied' = Add(supplied, tr.account, tr.token, RefundShares(tr, used))

RefundLost(s, used) ==
    /\ ComesBack(s, used)
    /\ ~ CanRefund(transfer[s], used)
    /\ UNCHANGED <<asset, supplied>>

\* withdraw_beneficiary_fee: all the fees, dust included, leave the asset
WithdrawBeneficiaryFee(t) ==
    LET amount == asset[t].beneficiary_fees
    IN  /\ amount \div Scale > 0
        /\ SetAsset(t, [asset[t] EXCEPT !.beneficiary_fees = 0], TRUE)
        /\ Start("after_beneficiary_withdraw", Beneficiary, Beneficiary, t, amount)
        /\ UNCHANGED <<registered, supplied, collateral, pledged, borrowed, request,
                       price, cash, wallet>>

FeesRestored(tr) == [asset[tr.token] EXCEPT !.beneficiary_fees = @ + tr.amount]

\* after_beneficiary_withdraw when the transfer failed
BeneficiaryRefund(s) ==
    LET tr == transfer[s]
    IN  /\ Answered(s, 0)
        /\ tr.kind = "after_beneficiary_withdraw"
        /\ SetAsset(tr.token, FeesRestored(tr), TRUE)
        /\ UNCHANGED supplied

\* the same when the asset check of the save fails and the callback aborts
BeneficiaryRefundLost(s) ==
    LET tr == transfer[s]
    IN  /\ Answered(s, 0)
        /\ tr.kind = "after_beneficiary_withdraw"
        /\ ~ CanSave(FeesRestored(tr), TRUE)
        /\ UNCHANGED <<asset, supplied>>

-----------------------------------------------------------------------------
(***************************************************************************)
(* Liquidation.  One asset is repaid and one is taken; the code accepts a  *)
(* list of each and does the same for every member.                        *)
(***************************************************************************)
\* the state of the pools once the liquidator has repaid
AfterRepay(t, move) == [asset EXCEPT ![t] = Normalized(Repaid(asset[t], move))]

\* taken * (1 - discount) <= repaid, with discount = (B - C) / 2B
FairTrade(taken, repaid, B, C) == taken * (B + C) <= repaid * 2 * B

\* slip: any liquidation that leaves the position at risk will do
StillAtRisk(B, C, newB, newC) == newB > newC

\* the new discount is above zero and below the old one
LessAtRisk(B, C, newB, newC) ==
    /\ newB > newC
    /\ (newB - newC) * B < (B - C) * newB

Liquidate(a, victim, tin, rin, tout, rout) ==
    LET pay     == RepayMove(a, victim, tin, rin)
        assets  == AfterRepay(tin, pay)
        take    == AssetAmountToShares(assets[tout].supplied, collateral[victim][tout], rout, FALSE)
        debt    == Sub(borrowed, victim, tin, pay.repaid)
        B       == BorrowedSum(asset, borrowed[victim], price)
        C       == CollateralSum(asset, collateral[victim], price)
        newB    == BorrowedSum(assets, debt[victim], price)
        newC    == CollateralSum(assets, collateral'[victim], price)
    IN  /\ a # victim
        /\ {a, victim} \subseteq registered
        /\ CanRepay(a, victim, tin, rin, pay)
        /\ tout \in pledged[victim]
        /\ B > C
        /\ SetAsset(tin, Repaid(asset[tin], pay), Checked(a))
        /\ IsMove(take)
        /\ Unpledge(victim, tout, take.shares)
        /\ FairTrade(take.amount * price[tout], pay.amount * price[tin], B, C)
        /\ LessAtRisk(B, C, newB, newC)
        /\ borrowed' = debt
        /\ supplied' = [Sub(supplied, a, tin, pay.burnt) EXCEPT ![a][tout] = @ + take.shares]
        /\ UNCHANGED <<registered, transfer, request, price, cash, wallet>>

(***************************************************************************)
(* ForceClose: the reserve takes the collateral and pays the debt of a     *)
(* position worth less than it owes.  All the collateral is saved first.   *)
(***************************************************************************)
Seized(as, shares) ==
    LET amount == SharesToAmount(as.supplied, shares, FALSE)
    IN  Normalized([Unsupplied(as, shares, amount) EXCEPT !.reserved = @ + amount])

\* slip: the debt goes and nobody pays it
ForgivenByNobody(as, shares) ==
    LET amount == SharesToAmount(as.borrowed, shares, TRUE)
    IN  [as EXCEPT !.borrowed = PoolWithdraw(@, shares, amount)]

Forgiven(as, shares) ==
    LET amount == SharesToAmount(as.borrowed, shares, TRUE)
    IN  [as EXCEPT !.borrowed = PoolWithdraw(@, shares, amount), !.reserved = @ - amount]

ForceClose(a, victim) ==
    LET seized == [t \in Tokens |-> Seized(asset[t], collateral[victim][t])]
        closed == [t \in Tokens |->
                     IF borrowed[victim][t] > 0 THEN Forgiven(seized[t], borrowed[victim][t])
                     ELSE seized[t]]
        value(t)  == SharesToAmount(asset[t].supplied, collateral[victim][t], FALSE) * price[t]
        owed(t)   == SharesToAmount(asset[t].borrowed, borrowed[victim][t], TRUE) * price[t]
    IN  /\ a # victim
        /\ {a, victim} \subseteq registered
        /\ PositionExists(victim)
        /\ \A t \in Tokens :
              /\ collateral[victim][t] <= asset[t].supplied.shares
              /\ borrowed[victim][t] <= asset[t].borrowed.shares
              /\ t \in pledged[victim] => CanSave(seized[t], Checked(a))
              /\ borrowed[victim][t] > 0 =>
                    /\ closed[t].reserved >= 0
                    /\ CanSave(closed[t], Checked(a))
        /\ SumFunction([t \in Tokens |-> owed(t)]) > SumFunction([t \in Tokens |-> value(t)])
        /\ asset' = closed
        /\ collateral' = [collateral EXCEPT ![victim] = [t \in Tokens |-> 0]]
        /\ pledged' = [pledged EXCEPT ![victim] = {}]
        /\ borrowed' = [borrowed EXCEPT ![victim] = [t \in Tokens |-> 0]]
        /\ UNCHANGED <<registered, supplied, transfer, request, price, cash, wallet>>

-----------------------------------------------------------------------------
(***************************************************************************)
(* The reserve, administered by the owner.                                 *)
(***************************************************************************)
\* increase_reserved: from the owner's supply
IncreaseReserved(t, req) ==
    LET move == AssetAmountToShares(asset[t].supplied, supplied[Owner][t], req, FALSE)
    IN  /\ Owner \in registered
        /\ supplied[Owner][t] > 0
        /\ IsMove(move)
        /\ move.shares <= supplied[Owner][t]
        /\ CanWithdraw(asset[t].supplied, move.shares, move.amount)
        /\ SetAsset(t, [Unsupplied(asset[t], move.shares, move.amount)
                           EXCEPT !.reserved = @ + move.amount], TRUE)
        /\ supplied' = Sub(supplied, Owner, t, move.shares)
        /\ UNCHANGED <<registered, collateral, pledged, borrowed, transfer, request,
                       price, cash, wallet>>

\* decrease_reserved: to the owner's supply, as a deposit after a first save
DecreaseReserved(t, amount) ==
    LET taken  == [asset[t] EXCEPT !.reserved = @ - amount]
        saved  == Normalized(taken)
        shares == AmountToShares(saved.supplied, amount, FALSE)
    IN  /\ Owner \in registered
        /\ 0 < amount /\ amount <= asset[t].reserved
        /\ CanSave(taken, TRUE)
        /\ SetAsset(t, Supplied(saved, shares, amount), TRUE)
        /\ supplied' = Add(supplied, Owner, t, shares)
        /\ UNCHANGED <<registered, collateral, pledged, borrowed, transfer, request,
                       price, cash, wallet>>

-----------------------------------------------------------------------------
(***************************************************************************)
(* storage_deposit and storage_unregister, as far as they decide which     *)
(* accounts exist.  Nothing asks whether a transfer is still in flight.    *)
(***************************************************************************)
Register(a) ==
    /\ a \notin registered
    /\ registered' = registered \cup {a}
    /\ UNCHANGED <<asset, supplied, collateral, pledged, borrowed, transfer, request,
                   price, cash, wallet>>

Unregister(a) ==
    /\ a \in registered
    /\ \A t \in Tokens : supplied[a][t] = 0
    /\ ~ PositionExists(a)
    /\ registered' = registered \ {a}
    /\ UNCHANGED <<asset, supplied, collateral, pledged, borrowed, transfer, request,
                   price, cash, wallet>>

-----------------------------------------------------------------------------
(***************************************************************************)
(* Time.  Every handler first compounds the interest since the last one    *)
(* (Asset::update in internal_get_asset); how much that is depends on the  *)
(* rate and on the time elapsed, and any amount of the set Interests may   *)
(* accrue.  A handler that runs in the same block finds none.              *)
(***************************************************************************)
Part(amount, rate) == (amount * rate) \div MaxRatio

\* slip: the suppliers get the part of the reserve, too
CompoundedTwice(as, interest) ==
    LET kept == Part(interest, ReserveRatio)
    IN  [as EXCEPT !.supplied.balance = @ + interest,
                   !.reserved = @ + kept,
                   !.borrowed.balance = @ + interest]

Compounded(as, interest) ==
    LET idle     == as.supplied.shares = 0
        kept     == IF idle THEN interest ELSE Part(interest, ReserveRatio)
        fee      == Part(kept, BeneficiaryRate)
    IN  [as EXCEPT !.supplied.balance = @ + interest - kept,
                   !.reserved = @ + kept - fee,
                   !.beneficiary_fees = @ + fee,
                   !.borrowed.balance = @ + interest]

Accrue(t, interest) ==
    /\ asset[t].borrowed.balance > 0
    /\ asset[t].borrowed.balance + interest <= MaxDebt
    /\ asset' = [asset EXCEPT ![t] = Compounded(@, interest)]
    /\ UNCHANGED <<registered, supplied, collateral, pledged, borrowed, transfer,
                   request, price, cash, wallet>>

UpdatePrice(t, p) ==
    /\ p # price[t]
    /\ price' = [price EXCEPT ![t] = p]
    /\ UNCHANGED <<asset, registered, supplied, collateral, pledged, borrowed,
                   transfer, request, cash, wallet>>

Market == \E t \in Tokens : \/ \E i \in Interests : Accrue(t, i)
                            \/ \E p \in Prices : UpdatePrice(t, p)

-----------------------------------------------------------------------------
Transferred(a, t) ==
    \E n \in Amounts :
        \/ Deposit(a, t, n)
        \/ OnlyIncreaseCollateral(a, t, n)
        \/ OnlyRepay(a, t, n)
        \/ DepositToReserve(a, t, n)

Execute(a, t) ==
    \E req \in Requests :
        \/ IncreaseCollateral(a, t, req)
        \/ DecreaseCollateral(a, t, req)
        \/ Borrow(a, t, req)
        \/ Repay(a, t, req)
        \/ Withdraw(a, t, req, "after_ft_transfer")
        \/ Withdraw(a, t, req, "after_ft_transfer_call")

WithdrawSimply(a, t) ==
    \/ \E n \in Amounts : WithdrawByShares(a, t, n)
    \/ \E n \in SimpleAmounts, r \in Accounts :
          \/ SimpleWithdraw(a, t, n, r)
          \/ SimpleWithdrawNow(a, t, n, r)
          \/ SimpleWithdrawAsk(a, t, n, r)

Close(a) ==
    \E victim \in Accounts :
        \/ ForceClose(a, victim)
        \/ \E tin, tout \in Tokens, rin, rout \in Requests :
              Liquidate(a, victim, tin, rin, tout, rout)

Callback(s) ==
    /\ transfer[s] # NoTransfer
    /\ \/ TransferSucceeds(s)
       \/ \E used \in 0 .. transfer[s].ft_amount : Refund(s, used) \/ RefundLost(s, used)
       \/ BeneficiaryRefund(s)
       \/ BeneficiaryRefundLost(s)

Administer ==
    \E t \in Tokens :
        \/ \E req \in Requests : IncreaseReserved(t, req)
        \/ \E n \in Amounts : DecreaseReserved(t, n)
        \/ WithdrawBeneficiaryFee(t)

Next ==
    \/ \E a \in Accounts, t \in Tokens :
          Transferred(a, t) \/ Execute(a, t) \/ WithdrawSimply(a, t)
    \/ \E a \in Accounts :
          \/ Close(a)
          \/ Register(a)
          \/ Unregister(a)
          \/ SimpleWithdrawResume(a)
          \/ SimpleWithdrawAbort(a)
    \/ \E s \in Slots : Callback(s)
    \/ Administer
    \/ Market

Spec == Init /\ [][Next]_vars

-----------------------------------------------------------------------------
(***************************************************************************)
(* Properties.                                                             *)
(***************************************************************************)

\* The shares of a pool are exactly the shares its accounts hold: no handler
\* changes a pool without the account, or the account without the pool.
SharesConserved ==
    \A t \in Tokens :
        /\ asset[t].supplied.shares =
              SumFunction([a \in Accounts |-> supplied[a][t] + collateral[a][t]])
        /\ asset[t].borrowed.shares = SumFunction([a \in Accounts |-> borrowed[a][t]])

InFlight(t) ==
    SumFunction([s \in Slots |->
        IF transfer[s] # NoTransfer /\ transfer[s].token = t THEN transfer[s].amount ELSE 0])

\* the tokens held and lent out beyond what suppliers, reserve, beneficiary
\* and transfers under way are owed
Unclaimed(t) ==
    cash[t] + asset[t].borrowed.balance
        - asset[t].supplied.balance - asset[t].reserved
        - asset[t].beneficiary_fees - InFlight(t)

\* Solvency: the tokens the contract holds, with those it has lent, cover all
\* it owes, whatever transfers are under way and however they end.
CashCoversClaims == \A t \in Tokens : Unclaimed(t) >= 0

\* When no beneficiary shares in the fees, the contract holds enough to make
\* all the payments it has started: no withdrawal takes another's tokens.
PaymentsFunded == \A t \in Tokens : cash[t] >= InFlight(t)

\* Nobody owes anything without having pledged a share: neither a withdrawal
\* of collateral nor a liquidation, in any order with repayments, strips a debt.
DebtIsBacked ==
    \A a \in Accounts :
        (\E t \in Tokens : borrowed[a][t] > 0) => \E t \in Tokens : collateral[a][t] > 0

\* A supplier's share never loses value: not to rounding, not to a
\* liquidation, a forced close or a refund at a later rate.
SupplyPriceNeverFalls ==
    [][\A t \in Tokens :
          asset'[t].supplied.shares > 0 => PriceNotLower(asset[t].supplied, asset'[t].supplied)]_vars

\* Only a price or interest puts a healthy position at risk: no call does, be
\* it of its owner or of others who share its pools.
OnlyMarketHurts ==
    [][Market \/ \A a \in Accounts :
          Healthy(a) => ~ AtRisk(asset', collateral'[a], borrowed'[a], price')]_vars

Payments(a, t) ==
    SumFunction([s \in Slots |->
        IF transfer[s] # NoTransfer /\ transfer[s].account = a /\ transfer[s].token = t
        THEN transfer[s].amount ELSE 0])

\* what a has of t, owes subtracted, as the conversions would pay it out now
Worth(a, t) ==
    wallet[a][t] + Payments(a, t)
        + SharesToAmount(asset[t].supplied, supplied[a][t] + collateral[a][t], FALSE)
        - SharesToAmount(asset[t].borrowed, borrowed[a][t], TRUE)

\* a step that a starts, or the callback of one
CallOf(a) ==
    \/ \E t \in Tokens : Transferred(a, t) \/ Execute(a, t) \/ WithdrawSimply(a, t)
    \/ SimpleWithdrawResume(a)
    \/ \E s \in Slots : transfer[s] # NoTransfer /\ transfer[s].account = a /\ Callback(s)

\* Rounding is never in favour of the caller: no sequence of deposits, loans,
\* repayments, withdrawals and refunds leaves the account that makes them
\* better off, in any token.
CallerNeverGains ==
    [][\A a \in Accounts :
          (\E t \in Tokens : Worth(a, t)' > Worth(a, t)) => ~ CallOf(a)]_vars

\* s ends with its callback aborted: the account is gone, or the asset cannot
\* be saved with a beneficiary's fees
Abandoned(s) ==
    /\ transfer[s] # NoTransfer
    /\ transfer'[s] = NoTransfer
    /\ \/ transfer[s].account \notin registered
       \/ transfer[s].kind = "after_beneficiary_withdraw"

\* No call loses tokens, or only what is below one unit of the token contract,
\* unless the callback of a transfer aborts.
OnlyDustIsLost ==
    [][\A t \in Tokens :
          /\ Unclaimed(t)' >= Unclaimed(t)
          /\ \/ Unclaimed(t)' - Unclaimed(t) < Scale
             \/ \E s \in Slots : Abandoned(s)]_vars

\* storage.rs:87-89, docs/user_storage_management.md:225: the callbacks save
\* whatever happens, "to prevent permanent locks or token loss".
OnlyDustIsEverLost ==
    [][\A t \in Tokens : Unclaimed(t)' - Unclaimed(t) < Scale]_vars

\* A withdrawal that fails can be credited again, whatever the other calls
\* have made of the pool meanwhile, as long as its account exists.
RefundsCanBeSaved ==
    \A s \in Slots :
        transfer[s] # NoTransfer /\ transfer[s].account \in registered =>
            \A used \in 0 .. transfer[s].ft_amount : CanRefund(transfer[s], used)

=============================================================================
