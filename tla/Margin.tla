------------------------------- MODULE Margin -------------------------------
(***************************************************************************)
(* Margin trading of contracts/contract.  A trader puts supply shares up   *)
(* as collateral (token c), the contract lends token d, an exchange turns  *)
(* it into token p, and the position holds that until an exchange turns it *)
(* back and the debt is paid.  c is d (long) or p (short).                 *)
(*                                                                         *)
(* A trade leaves the contract.  It sends the tokens to the exchange with  *)
(* ft_transfer_call; the exchange either fails, which the callback of the  *)
(* call learns and undoes, or swaps, and its output comes back later with  *)
(* a SwapReference.  If the handler of either aborts, the position stays   *)
(* locked until the owner resumes it.  Other calls run in between.         *)
(*                                                                         *)
(* Token and inner decimals are the same here; Lending has the dust of     *)
(* payments and payments that fail, which are the same code.  Regular      *)
(* loans are in Lending as well: here the regular accounts only supply.    *)
(***************************************************************************)
EXTENDS Pools, FiniteSets, Functions

CONSTANTS
    Accounts, Tokens,
    PosIds,             \* the positions that may ever be opened
    Owner,              \* config.owner_id
    Traders,            \* bound: the accounts that open positions
    Keepers,            \* bound: the accounts that end positions of others
    NoPosition, NoTrade, NoStop,
    Pairs,              \* what check_pair admits: [c, d, p]
    MinReserveShares,   \* MIN_RESERVE_SHARES
    MaxRatio,           \* MAX_RATIO
    ReserveRatio,       \* the part of interest that goes to the reserve
    OpenFeeRate,        \* open_position_fee_rate
    PendingDebtScale,   \* pending_debt_scale
    MaxPositions,       \* max_active_user_margin_position
    SlippageRate,       \* max_common_slippage_rate
    ForceSlippageRate,  \* max_forceclose_slippage_rate
    SafetyBuffer,       \* min_safety_buffer
    MaxLeverage,        \* max_leverage_rate
    ProtocolRate,       \* liq_benefit_protocol_rate
    LiquidatorRate,     \* liq_benefit_liquidator_rate
    MinBase, MaxBase, TotalBase,    \* limits on the base token of a position
    MinBorrowed,        \* min_borrowed_amount
    SupplyLimit, BorrowLimit,       \* of each asset
    Unit,               \* UNIT, the scale of unit_acc_hp_interest
    StopFee,            \* the stop service fee: [token, amount]
    Stops,              \* the stops a trader may set: [loss, profit], 0 for none
    Prices,             \* Prices[t]: the prices the oracle may give
    InitialSupply, InitialMargin, InitialReserve,
    Transfers,          \* bound: the amounts deposited and withdrawn
    ReserveDeposits,    \* bound: the amounts deposited to the reserve
    Amounts,            \* bound: the amounts of collateral and of trades
    Outputs,            \* bound: what the exchange may pay
    PartsUsed,          \* bound: what it may use of an input, short of all of it
    Interests, MaxDebt, \* bound: interest on margin debt
    HoldingFees, MaxHoldingFee,     \* bound: growth of unit_acc_hp_interest
    MaxCash,            \* bound: nobody deposits beyond
    MaxReserve          \* bound: nobody deposits to the reserve beyond

Ops == {"open", "decrease", "close", "liquidate", "forceclose", "stop"}

PositionType == [account : Accounts, c : Tokens, d : Tokens, p : Tokens,
                 c_shares : Nat, d_shares : Nat, p_amount : Nat,
                 debt_cap : Nat, uahpi_at_open : Nat, is_locking : BOOLEAN]

\* `pre` is token_p_amount before the trade, `by` who started it, `out` the
\* least the exchange may pay and, once it has swapped, what it pays
TradeType == [op : Ops, by : Accounts, amount_in : Nat, pre : Nat,
              out : Nat, stage : {"sent", "swapped", "blocked", "unreverted"}]

StopType == [loss : Nat, profit : Nat, amount : Nat]

ASSUME MarginAccountsAssumption ==
    /\ IsFiniteSet(Accounts) /\ IsFiniteSet(PosIds)
    /\ Owner \in Accounts /\ Traders \subseteq Accounts /\ Keepers \subseteq Accounts
ASSUME PairsAssumption ==
    \A pair \in Pairs : /\ {pair.c, pair.d, pair.p} \subseteq Tokens
                        /\ pair.d # pair.p
                        /\ pair.c \in {pair.d, pair.p}
ASSUME MarginRatioAssumption ==
    /\ MaxRatio \in Nat \ {0} /\ Unit \in Nat \ {0}
    /\ \A r \in {ReserveRatio, OpenFeeRate, PendingDebtScale, SlippageRate,
                 ForceSlippageRate, SafetyBuffer} : r \in 0 .. MaxRatio
    /\ ProtocolRate \in Nat /\ LiquidatorRate \in Nat
    /\ ProtocolRate + LiquidatorRate <= MaxRatio
ASSUME MarginNumbersAssumption ==
    /\ \A S \in {Transfers, ReserveDeposits, Amounts, Outputs, PartsUsed, Interests,
                HoldingFees} :
          S \subseteq Nat
    /\ \A q \in Stops : q.loss \in Nat /\ q.profit \in Nat
    /\ StopFee \in [token : Tokens, amount : Nat]
    /\ \A t \in Tokens : Prices[t] \subseteq Nat
ASSUME MarginInitialAssumption ==
    /\ InitialSupply \in [Accounts -> [Tokens -> Nat]]
    /\ InitialMargin \in [Accounts -> [Tokens -> Nat]]
    /\ InitialReserve \in [Tokens -> Nat]
ASSUME NoRecordsAssumption ==
    NoPosition \notin PositionType /\ NoTrade \notin TradeType /\ NoStop \notin StopType

VARIABLES
    asset,      \* asset[t]: supply, reserve, fees, margin debt, tokens of positions
    supplied,   \* supplied[a][t]: shares of a's regular account
    margin,     \* margin[a][t]: MarginAccount.supplied, not in a position
    position,   \* position[i]: MarginTradingPosition or NoPosition
    opened,     \* the ids used so far: accumulated_margin_position_num
    stop,       \* stop[i]: the stops map of the account that opened i
    acting,     \* the ids in position_latest_actions
    trade,      \* trade[i]: what the exchange was asked to do for i
    debts,      \* debts[t]: protocol_debts
    price,
    cash        \* cash[t]: tokens the token contract holds for this contract

vars == <<asset, supplied, margin, position, opened, stop, acting, trade, debts, price, cash>>

AssetType == [supplied : PoolType, reserved : Nat, prot_fee : Nat, margin_debt : PoolType,
              pending : Nat, position : Nat, hp : Nat]

TypeOK ==
    /\ asset \in [Tokens -> AssetType]
    /\ supplied \in [Accounts -> [Tokens -> Nat]]
    /\ margin \in [Accounts -> [Tokens -> Nat]]
    /\ position \in [PosIds -> PositionType \cup {NoPosition}]
    /\ opened \subseteq PosIds
    /\ stop \in [PosIds -> StopType \cup {NoStop}]
    /\ acting \subseteq PosIds
    /\ trade \in [PosIds -> TradeType \cup {NoTrade}]
    /\ debts \in [Tokens -> Nat]
    /\ price \in [Tokens -> Nat]
    /\ cash \in [Tokens -> Nat]

InitialShares(t) ==
    SumFunction([a \in Accounts |-> InitialSupply[a][t] + InitialMargin[a][t]])

\* some accounts have deposited, at one share a token, and nothing else was done
Init ==
    /\ asset = [t \in Tokens |->
          [supplied |-> [shares |-> InitialShares(t), balance |-> InitialShares(t)],
           reserved |-> InitialReserve[t], prot_fee |-> 0, margin_debt |-> EmptyPool,
           pending |-> 0, position |-> 0, hp |-> 0]]
    /\ supplied = InitialSupply
    /\ margin = InitialMargin
    /\ position = [i \in PosIds |-> NoPosition]
    /\ opened = {}
    /\ stop = [i \in PosIds |-> NoStop]
    /\ acting = {}
    /\ trade = [i \in PosIds |-> NoTrade]
    /\ debts = [t \in Tokens |-> 0]
    /\ price \in {f \in [Tokens -> UNION Range(Prices)] : \A t \in Tokens : f[t] \in Prices[t]}
    /\ cash = [t \in Tokens |-> InitialShares(t) + InitialReserve[t]]

-----------------------------------------------------------------------------
(***************************************************************************)
(* Assets.                                                                 *)
(***************************************************************************)
Part(amount, rate) == (amount * rate) \div MaxRatio

\* slip: what positions hold is lent too
WithPositions(as) ==
    as.supplied.balance + as.reserved + as.prot_fee + as.position
    - as.margin_debt.balance - as.pending

AvailableAmount(as) ==
    as.supplied.balance + as.reserved + as.prot_fee - as.margin_debt.balance - as.pending

EnoughShares(pool) == pool.shares = 0 \/ pool.shares >= MinReserveShares

Normalized(as) ==
    IF as.supplied.shares = 0
    THEN [as EXCEPT !.reserved = @ + as.supplied.balance, !.supplied = EmptyPool]
    ELSE as

\* slip: an answer of the exchange is saved with the checks of a user's call
AlwaysChecked(as, checked) ==
    /\ EnoughShares(as.supplied) /\ EnoughShares(as.margin_debt)
    /\ PoolInvariant(Normalized(as).supplied)

\* internal_set_asset in a call of a user; the handlers of an exchange's
\* output save without the minimum of shares
CanSave(as, checked) ==
    /\ checked => EnoughShares(as.supplied) /\ EnoughShares(as.margin_debt)
    /\ PoolInvariant(Normalized(as).supplied)

Supplied(as, shares, amount) == [as EXCEPT !.supplied = PoolDeposit(@, shares, amount)]

Unsupplied(as, shares, amount) == [as EXCEPT !.supplied = PoolWithdraw(@, shares, amount)]

\* internal_margin_deposit, as far as the asset goes
Deposited(as, amount) ==
    Supplied(as, AmountToShares(as.supplied, amount, FALSE), amount)

Add(f, a, t, n) == [f EXCEPT ![a][t] = @ + n]
Sub(f, a, t, n) == [f EXCEPT ![a][t] = @ - n]

\* internal_margin_withdraw_supply of an amount
Burnt(as, amount) ==
    Unsupplied(as, AmountToShares(as.supplied, amount, TRUE), amount)

CanBurn(as, held, amount) ==
    LET shares == AmountToShares(as.supplied, amount, TRUE)
    IN  /\ AvailableAmount(as) >= 0
        /\ amount <= AvailableAmount(as)
        /\ 0 < held /\ shares <= held
        /\ CanWithdraw(as.supplied, shares, amount)
        /\ CanSave(Burnt(as, amount), TRUE)

-----------------------------------------------------------------------------
(***************************************************************************)
(* What a position is worth.                                               *)
(***************************************************************************)
DebtAmount(pos) == SharesToAmount(asset[pos.d].margin_debt, pos.d_shares, TRUE)

HoldingFee(pos) == (pos.debt_cap * (asset[pos.d].hp - pos.uahpi_at_open)) \div Unit

CollateralValue(pos) ==
    SharesToAmount(asset[pos.c].supplied, pos.c_shares, FALSE) * price[pos.c]

CapValue(pos) == CollateralValue(pos) + pos.p_amount * price[pos.p]

OwedValue(pos) == (DebtAmount(pos) + HoldingFee(pos)) * price[pos.d]

WithinBuffer(cap, owed) == cap >= owed /\ cap * (MaxRatio - SafetyBuffer) < owed * MaxRatio

Liquidatable(pos) == WithinBuffer(CapValue(pos), OwedValue(pos))

ForceCloseable(pos) == CapValue(pos) < OwedValue(pos)

\* is_stop_active with no slippage: what would remain, against a part of the collateral
StopActive(pos, s) ==
    LET remains == (CapValue(pos) - OwedValue(pos)) * MaxRatio
    IN  \/ s.loss > 0 /\ remains < CollateralValue(pos) * s.loss
        \/ s.profit > 0 /\ remains > CollateralValue(pos) * s.profit

\* is_min_amount_out_reasonable
Reasonable(tin, amountIn, tout, minOut, slippage) ==
    LET expected == (amountIn * price[tin]) \div price[tout]
    IN  minOut >= expected - Part(expected, slippage)

-----------------------------------------------------------------------------
(***************************************************************************)
(* Supply of margin accounts and of regular ones.                          *)
(***************************************************************************)
DepositToMargin(a, t, n) ==
    /\ n > 0 /\ cash[t] + n <= MaxCash
    /\ CanSave(Deposited(asset[t], n), TRUE)
    /\ asset' = [asset EXCEPT ![t] = Normalized(Deposited(@, n))]
    /\ margin' = Add(margin, a, t, AmountToShares(asset[t].supplied, n, FALSE))
    /\ cash' = [cash EXCEPT ![t] = @ + n]
    /\ UNCHANGED <<supplied, position, opened, stop, acting, trade, debts, price>>

\* MarginAction::Withdraw of an amount, and the payment that follows it
Withdraw(a, t, n) ==
    /\ n > 0
    /\ CanBurn(asset[t], margin[a][t], n)
    /\ cash[t] >= n
    /\ asset' = [asset EXCEPT ![t] = Normalized(Burnt(@, n))]
    /\ margin' = Sub(margin, a, t, AmountToShares(asset[t].supplied, n, TRUE))
    /\ cash' = [cash EXCEPT ![t] = @ - n]
    /\ UNCHANGED <<supplied, position, opened, stop, acting, trade, debts, price>>

\* MarginAction::Withdraw with no amount: all the shares, for what they are worth
WithdrawAll(a, t) ==
    LET amount == SharesToAmount(asset[t].supplied, margin[a][t], FALSE)
        as     == Unsupplied(asset[t], margin[a][t], amount)
    IN  /\ 0 < margin[a][t] /\ 0 < amount
        /\ amount <= AvailableAmount(asset[t])
        /\ CanWithdraw(asset[t].supplied, margin[a][t], amount)
        /\ CanSave(as, TRUE)
        /\ cash[t] >= amount
        /\ asset' = [asset EXCEPT ![t] = Normalized(as)]
        /\ margin' = Sub(margin, a, t, margin[a][t])
        /\ cash' = [cash EXCEPT ![t] = @ - amount]
        /\ UNCHANGED <<supplied, position, opened, stop, acting, trade, debts, price>>

\* internal_withdraw of a regular account, and the payment
WithdrawRegular(a, t, n) ==
    /\ n > 0
    /\ CanBurn(asset[t], supplied[a][t], n)
    /\ cash[t] >= n
    /\ asset' = [asset EXCEPT ![t] = Normalized(Burnt(@, n))]
    /\ supplied' = Sub(supplied, a, t, AmountToShares(asset[t].supplied, n, TRUE))
    /\ cash' = [cash EXCEPT ![t] = @ - n]
    /\ UNCHANGED <<margin, position, opened, stop, acting, trade, debts, price>>

\* slip: what pays the protocol's debt is put in the reserve as well
AllToReserve(t, n) == n

\* what the protocol owes is paid first
ToReserve(t, n) == n - Least(n, debts[t])

DepositToReserve(t, n) ==
    LET as == [asset[t] EXCEPT !.reserved = @ + ToReserve(t, n)]
    IN  /\ n > 0 /\ asset[t].reserved + n <= MaxReserve
        /\ CanSave(as, TRUE)
        /\ asset' = [asset EXCEPT ![t] = Normalized(as)]
        /\ debts' = [debts EXCEPT ![t] = @ - Least(n, @)]
        /\ cash' = [cash EXCEPT ![t] = @ + n]
        /\ UNCHANGED <<supplied, margin, position, opened, stop, acting, trade, price>>

-----------------------------------------------------------------------------
(***************************************************************************)
(* Opening a position.                                                     *)
(***************************************************************************)
\* the token that is traded against the other one, of which the limits are
BaseToken(pair) == IF pair.c = pair.d THEN pair.p ELSE pair.d

\* assert_base_token_amount_valid, for the direction the base token implies
WithinBaseLimits(pair, borrowed, bought) ==
    LET long   == BaseToken(pair) = pair.p
        amount == IF long THEN bought ELSE borrowed
        before == IF long THEN asset[pair.p].position
                  ELSE asset[pair.d].margin_debt.balance + asset[pair.d].pending
    IN  /\ MinBase <= amount /\ amount <= MaxBase
        /\ before + amount <= TotalBase

WithinLimits(pair, borrowed, bought) ==
    LET d == asset[pair.d]
    IN  /\ asset[pair.c].supplied.balance <= SupplyLimit[pair.c]
        /\ d.margin_debt.balance + d.pending + borrowed <= BorrowLimit[pair.d]
        /\ borrowed >= MinBorrowed
        /\ WithinBaseLimits(pair, borrowed, bought)

SafeToOpen(pair, pledged, borrowed, bought) ==
    LET cap  == pledged * price[pair.c] + bought * price[pair.p]
        owed == borrowed * price[pair.d]
    IN  /\ Reasonable(pair.d, borrowed, pair.p, bought, SlippageRate)
        /\ ~WithinBuffer(cap, owed) /\ cap >= owed
        /\ pledged > 0 /\ borrowed > 0
        /\ owed <= MaxLeverage * pledged * price[pair.c]

\* increase_margin_pending_debt
Lent(as, amount) == [as EXCEPT !.pending = @ + amount]
CanLend(as, amount) ==
    /\ AvailableAmount(Lent(as, amount)) >= 0
    /\ Part(AvailableAmount(Lent(as, amount)), PendingDebtScale) > as.pending + amount
    /\ CanSave(Lent(as, amount), TRUE)

\* the stop fee leaves the supply of the account that sets the stop
ChargedAssets == [asset EXCEPT ![StopFee.token] = Normalized(Burnt(@, StopFee.amount))]
ChargedMargin(a) ==
    Sub(margin, a, StopFee.token,
        AmountToShares(asset[StopFee.token].supplied, StopFee.amount, TRUE))
CanCharge(a) == CanBurn(asset[StopFee.token], margin[a][StopFee.token], StopFee.amount)

\* the asset of d was read before the fee was taken and is saved over it
OpenAssets(assets, d, borrowed) == [assets EXCEPT ![d] = Normalized(Lent(asset[d], borrowed))]

\* internal_margin_open_position
Open(a, i, pair, pledged, borrowed, bought, s) ==
    LET c_shares == AmountToShares(asset[pair.c].supplied, pledged, FALSE)
        assets   == IF s = NoStop THEN asset ELSE ChargedAssets
        shares   == IF s = NoStop THEN margin ELSE ChargedMargin(a)
    IN  /\ i \notin opened
        /\ Cardinality({j \in PosIds : position[j] # NoPosition /\ position[j].account = a})
              < MaxPositions
        /\ pair \in Pairs
        /\ WithinLimits(pair, borrowed, bought)
        /\ SafeToOpen(pair, pledged, borrowed, bought)
        /\ s # NoStop => CanCharge(a)
        /\ 0 < shares[a][pair.c] /\ c_shares <= shares[a][pair.c]
        /\ CanLend(asset[pair.d], borrowed)
        /\ asset' = OpenAssets(assets, pair.d, borrowed)
        /\ margin' = Sub(shares, a, pair.c, c_shares)
        /\ position' = [position EXCEPT ![i] =
              [account |-> a, c |-> pair.c, d |-> pair.d, p |-> pair.p,
               c_shares |-> c_shares, d_shares |-> 0, p_amount |-> 0,
               debt_cap |-> 0, uahpi_at_open |-> 0, is_locking |-> TRUE]]
        /\ opened' = opened \cup {i}
        /\ stop' = [stop EXCEPT ![i] = s]
        /\ acting' = acting \cup {i}
        /\ trade' = [trade EXCEPT ![i] =
              [op |-> "open", by |-> a, amount_in |-> borrowed, pre |-> 0,
               out |-> bought, stage |-> "sent"]]
        /\ UNCHANGED <<supplied, debts, price, cash>>

-----------------------------------------------------------------------------
(***************************************************************************)
(* Collateral and stops of a position.                                     *)
(***************************************************************************)
\* a position that waits for the exchange is not refused here
IncreaseCollateral(i, n) ==
    LET pos    == position[i]
        shares == AmountToShares(asset[pos.c].supplied, n, FALSE)
    IN  /\ pos # NoPosition
        /\ asset[pos.c].supplied.balance <= SupplyLimit[pos.c]
        /\ 0 < shares /\ shares <= margin[pos.account][pos.c]
        /\ margin' = Sub(margin, pos.account, pos.c, shares)
        /\ position' = [position EXCEPT ![i].c_shares = @ + shares]
        /\ UNCHANGED <<asset, supplied, opened, stop, acting, trade, debts, price, cash>>

WithinLeverage(pos) == OwedValue(pos) <= MaxLeverage * CollateralValue(pos)

\* what is left of the collateral must do
StaysSafe(pos) == ~Liquidatable(pos) /\ ~ForceCloseable(pos) /\ WithinLeverage(pos)

DecreaseCollateral(i, n) ==
    LET pos    == position[i]
        shares == AmountToShares(asset[pos.c].supplied, n, TRUE)
        after  == [pos EXCEPT !.c_shares = @ - shares]
    IN  /\ pos # NoPosition /\ ~pos.is_locking
        /\ 0 < shares /\ shares < pos.c_shares
        /\ pos.d_shares # 0
        /\ StaysSafe(after)
        /\ margin' = Add(margin, pos.account, pos.c, shares)
        /\ position' = [position EXCEPT ![i] = after]
        /\ UNCHANGED <<asset, supplied, opened, stop, acting, trade, debts, price, cash>>

\* process_set_stop: the fee of the old stop comes back, that of the new one is taken
SetStop(i, s) ==
    LET pos      == position[i]
        a        == pos.account
        f        == StopFee.token
        refund   == IF stop[i] = NoStop THEN 0 ELSE stop[i].amount
        refunded == IF refund = 0 THEN asset[f] ELSE Normalized(Deposited(asset[f], refund))
        held     == margin[a][f] + AmountToShares(asset[f].supplied, refund, FALSE)
        fee      == AmountToShares(refunded.supplied, StopFee.amount, TRUE)
    IN  /\ pos # NoPosition /\ ~pos.is_locking
        /\ s = NoStop => stop[i] # NoStop
        /\ refund > 0 => CanSave(Deposited(asset[f], refund), TRUE)
        /\ stop' = [stop EXCEPT ![i] = s]
        /\ IF s = NoStop
           THEN /\ asset' = [asset EXCEPT ![f] = refunded]
                /\ margin' = [margin EXCEPT ![a][f] = held]
           ELSE /\ CanBurn(refunded, held, StopFee.amount)
                /\ asset' = [asset EXCEPT ![f] = Normalized(Burnt(refunded, StopFee.amount))]
                /\ margin' = [margin EXCEPT ![a][f] = held - fee]
        /\ UNCHANGED <<supplied, position, opened, acting, trade, debts, price, cash>>

-----------------------------------------------------------------------------
(***************************************************************************)
(* Asking the exchange to turn a position back.                            *)
(***************************************************************************)
FullClose == {"close", "liquidate", "forceclose", "stop"}

\* who may ask, and what must hold of the position
MayAsk(op, b, i) ==
    LET pos == position[i]
    IN  CASE op \in {"decrease", "close"} -> b = pos.account
          [] op = "liquidate"  -> b # pos.account /\ Liquidatable(pos)
          [] op = "forceclose" -> b # pos.account /\ ForceCloseable(pos)
          [] op = "stop"       -> /\ b # pos.account
                                  /\ stop[i] # NoStop /\ StopActive(pos, stop[i])

\* enough would be left owed, or all that is owed would be paid
PaysEnough(op, pos, minOut) ==
    LET owed == DebtAmount(pos) + HoldingFee(pos)
    IN  minOut < owed =>
            CASE op = "decrease"   -> owed - minOut >= MinBorrowed
              [] op = "forceclose" -> TRUE
              [] OTHER ->
                    /\ pos.c = pos.d
                    /\ pos.c_shares > AmountToShares(asset[pos.d].supplied, owed - minOut, TRUE)

\* whoever runs a stop sells all of a long position and no more than needed of a short one
SellsWhatStopMeans(pos, amount, minOut) ==
    LET owed == DebtAmount(pos) + HoldingFee(pos)
    IN  IF pos.c = pos.d THEN amount >= pos.p_amount
        ELSE minOut <= owed + Part(owed, SlippageRate)

\* process_decrease_margin_position
Decrease(b, i, op, amount, minOut) ==
    LET pos    == position[i]
        gap    == IF amount > pos.p_amount THEN amount - pos.p_amount ELSE 0
        shares == IF gap = 0 THEN 0 ELSE AmountToShares(asset[pos.p].supplied, gap, TRUE)
        sold   == Least(amount, pos.p_amount)
        as     == [Unsupplied(asset[pos.p], shares, gap) EXCEPT !.position = @ - sold]
    IN  /\ pos # NoPosition /\ ~pos.is_locking
        /\ MayAsk(op, b, i)
        /\ PaysEnough(op, pos, minOut)
        /\ Reasonable(pos.p, amount, pos.d, minOut,
                      IF op = "forceclose" THEN ForceSlippageRate ELSE SlippageRate)
        /\ op = "stop" => SellsWhatStopMeans(pos, amount, minOut)
        /\ gap > 0 => pos.c = pos.p
        /\ shares <= pos.c_shares
        /\ CanWithdraw(asset[pos.p].supplied, shares, gap)
        /\ CanSave(as, TRUE)
        /\ asset' = [asset EXCEPT ![pos.p] = Normalized(as)]
        /\ position' = [position EXCEPT ![i].c_shares = @ - shares,
                                        ![i].p_amount = @ - sold,
                                        ![i].is_locking = TRUE]
        /\ acting' = acting \cup {i}
        /\ trade' = [trade EXCEPT ![i] =
              [op |-> op, by |-> b, amount_in |-> amount, pre |-> pos.p_amount,
               out |-> minOut, stage |-> "sent"]]
        /\ UNCHANGED <<supplied, margin, opened, stop, debts, price, cash>>

-----------------------------------------------------------------------------
(***************************************************************************)
(* The exchange, and what its callback undoes.                             *)
(***************************************************************************)
TokenIn(i) == IF trade[i].op = "open" THEN position[i].d ELSE position[i].p
TokenOut(i) == IF trade[i].op = "open" THEN position[i].p ELSE position[i].d

At(i, stage) == trade[i] # NoTrade /\ trade[i].stage = stage
Moved(i, stage) == trade' = [trade EXCEPT ![i].stage = stage]

\* The callback takes any use of the input for a swap: what the exchange has
\* sent back of it stays with the contract, in nobody's name.
TradeSwapped(i, used, out) ==
    /\ At(i, "sent")
    /\ out >= trade[i].out
    /\ 0 < used /\ used <= trade[i].amount_in
    /\ cash[TokenIn(i)] >= trade[i].amount_in
    /\ cash' = [cash EXCEPT ![TokenIn(i)] = @ - used]
    /\ trade' = [trade EXCEPT ![i].stage = "swapped", ![i].out = out]
    /\ UNCHANGED <<asset, supplied, margin, position, opened, stop, acting, debts, price>>

\* callback_dex_trade of an opening: nothing is borrowed and the stop fee comes back
NotLent(i) == [asset[position[i].d] EXCEPT !.pending = @ - trade[i].amount_in]

WithoutLoan(i) == [asset EXCEPT ![position[i].d] = Normalized(NotLent(i))]

RevertedOpen(i) ==
    LET pos    == position[i]
        f      == StopFee.token
        shares == AmountToShares(WithoutLoan(i)[f].supplied, stop[i].amount, FALSE)
        back   == Add(margin, pos.account, pos.c, pos.c_shares)
    IN  /\ IF stop[i] = NoStop
           THEN asset' = WithoutLoan(i) /\ margin' = back
           ELSE /\ asset' = [WithoutLoan(i) EXCEPT
                               ![f] = Normalized(Deposited(@, stop[i].amount))]
                /\ margin' = Add(back, pos.account, f, shares)
        /\ position' = [position EXCEPT ![i] = NoPosition]
        /\ stop' = [stop EXCEPT ![i] = NoStop]

\* callback_dex_trade of any other trade: what was to be sold is held again
Gap(i) == trade[i].amount_in - trade[i].pre

GapShares(i) ==
    IF Gap(i) > 0 THEN AmountToShares(asset[position[i].p].supplied, Gap(i), FALSE) ELSE 0

\* slip: the collateral that was to be sold is held by the position
HeldTwice(i) == [asset[position[i].p] EXCEPT !.position = @ + trade[i].amount_in]

HeldAgain(i) ==
    LET as == asset[position[i].p]
    IN  IF Gap(i) > 0
        THEN [Supplied(as, GapShares(i), Gap(i)) EXCEPT !.position = @ + trade[i].pre]
        ELSE [as EXCEPT !.position = @ + trade[i].amount_in]

\* slip: the position stays locked
LeftLocked(i) ==
    /\ asset' = [asset EXCEPT ![position[i].p] = Normalized(HeldAgain(i))]
    /\ position' = [position EXCEPT ![i].c_shares = @ + GapShares(i), ![i].p_amount = trade[i].pre]
    /\ UNCHANGED <<margin, stop>>

RevertedDecrease(i) ==
    /\ asset' = [asset EXCEPT ![position[i].p] = Normalized(HeldAgain(i))]
    /\ position' = [position EXCEPT ![i].c_shares = @ + GapShares(i),
                                    ![i].p_amount = trade[i].pre,
                                    ![i].is_locking = FALSE]
    /\ UNCHANGED <<margin, stop>>

\* the callback saves with the checks of a call of a user, and may abort on them
CanRevert(i) ==
    IF trade[i].op = "open"
    THEN /\ NotLent(i).pending >= 0
         /\ CanSave(NotLent(i), TRUE)
         /\ stop[i] # NoStop =>
               CanSave(Deposited(WithoutLoan(i)[StopFee.token], stop[i].amount), TRUE)
    ELSE CanSave(HeldAgain(i), TRUE)

TradeFailed(i) ==
    /\ At(i, "sent")
    /\ IF CanRevert(i)
       THEN /\ IF trade[i].op = "open" THEN RevertedOpen(i) ELSE RevertedDecrease(i)
            /\ acting' = acting \ {i}
            /\ trade' = [trade EXCEPT ![i] = NoTrade]
       ELSE /\ Moved(i, "unreverted")
            /\ UNCHANGED <<asset, margin, position, stop, acting>>
    /\ UNCHANGED <<supplied, opened, debts, price, cash>>

-----------------------------------------------------------------------------
(***************************************************************************)
(* The output of the exchange: the position is opened.                     *)
(***************************************************************************)
\* the open fee is shares of the collateral that become the protocol's tokens
OpenFee(pos) == Part(pos.c_shares, OpenFeeRate)

WithFee(as, shares) ==
    LET amount == SharesToAmount(as.supplied, shares, FALSE)
    IN  [Unsupplied(as, shares, amount) EXCEPT !.prot_fee = @ + amount]

DebtShares(i) ==
    AmountToShares(asset[position[i].d].margin_debt, trade[i].amount_in, TRUE)

OpenedDebt(i) ==
    LET pos == position[i]
        as  == [asset[pos.d] EXCEPT !.pending = @ - trade[i].amount_in,
                                    !.margin_debt = PoolDeposit(@, DebtShares(i), trade[i].amount_in)]
    IN  IF pos.c = pos.d THEN WithFee(as, OpenFee(pos)) ELSE as

OpenedPosition(i, out) ==
    LET pos == position[i]
        as  == [asset[pos.p] EXCEPT !.position = @ + out]
    IN  IF pos.c = pos.p THEN WithFee(as, OpenFee(pos)) ELSE as

CanOpen(i, out) ==
    /\ asset[position[i].d].pending >= trade[i].amount_in
    /\ OpenFee(position[i]) <= asset[position[i].c].supplied.shares
    /\ CanSave(OpenedDebt(i), FALSE)
    /\ CanSave(OpenedPosition(i, out), FALSE)

\* on_open_trade_return
Opened(i, out) ==
    LET pos == position[i]
    IN  /\ asset' = [asset EXCEPT ![pos.d] = Normalized(OpenedDebt(i)),
                                  ![pos.p] = Normalized(OpenedPosition(i, out))]
        /\ position' = [position EXCEPT ![i] =
              [pos EXCEPT !.c_shares = @ - OpenFee(pos),
                          !.d_shares = @ + DebtShares(i),
                          !.p_amount = @ + out,
                          !.debt_cap = trade[i].amount_in,
                          !.uahpi_at_open = asset[pos.d].hp,
                          !.is_locking = FALSE]]
        /\ UNCHANGED <<margin, stop, debts>>

-----------------------------------------------------------------------------
(***************************************************************************)
(* The output of the exchange: debt is paid and perhaps the position ends. *)
(* The handler works on copies, which it saves at its end:                 *)
(*   pos, d, p   the position, the asset of its debt, that of what it holds *)
(*   uncovered   debt that even the reserve does not cover                 *)
(*   benefits    shares to hand out, of each token of the position         *)
(***************************************************************************)
\* calculate_debt_repayment
Repayment(pos, out) ==
    LET debt == DebtAmount(pos)
        fee  == HoldingFee(pos)
        cap  == (pos.debt_cap * out) \div (debt + fee)
        part == (fee * cap) \div pos.debt_cap
    IN  IF cap >= pos.debt_cap
        THEN [shares |-> pos.d_shares, amount |-> debt, fee |-> fee,
              left |-> out - debt - fee, cap |-> 0]
        ELSE [shares |-> AmountToShares(asset[pos.d].margin_debt, out - part, FALSE),
              amount |-> out - part, fee |-> part, left |-> 0, cap |-> pos.debt_cap - cap]

Repaid(pos, r) ==
    LET paid   == [asset[pos.d] EXCEPT !.margin_debt = PoolWithdraw(@, r.shares, r.amount),
                                       !.prot_fee = @ + r.fee]
        gained == AmountToShares(paid.supplied, r.left, FALSE)
    IN  [pos |-> [pos EXCEPT !.d_shares = @ - r.shares, !.debt_cap = r.cap,
                             !.is_locking = FALSE],
         d |-> IF gained > 0 THEN Supplied(paid, gained, r.left) ELSE paid,
         p |-> asset[pos.p],
         uncovered |-> 0,
         benefits |-> [c |-> 0, d |-> gained, p |-> 0]]

\* the collateral's shares burnt for debt, both worth the same
PaidFrom(as, move) ==
    [Unsupplied(as, move.c, move.amount) EXCEPT
        !.margin_debt = PoolWithdraw(@, move.d, move.amount)]

\* repay_debt_from_collateral
FromCollateral(st) ==
    LET owed   == SharesToAmount(st.d.margin_debt, st.pos.d_shares, TRUE)
        needed == AmountToShares(st.d.supplied, owed, TRUE)
        all    == SharesToAmount(st.d.supplied, st.pos.c_shares, FALSE)
        move   == IF needed <= st.pos.c_shares
                  THEN [d |-> st.pos.d_shares, c |-> needed, amount |-> owed]
                  ELSE [d |-> AmountToShares(st.d.margin_debt, all, FALSE),
                        c |-> st.pos.c_shares, amount |-> all]
    IN  IF st.pos.d_shares = 0 \/ st.pos.c # st.pos.d \/ move.amount = 0
        THEN st
        ELSE [st EXCEPT !.d = PaidFrom(@, move),
                        !.pos.d_shares = @ - move.d,
                        !.pos.c_shares = @ - move.c]

\* cover_debt_from_protocol_reserve
FromReserve(st) ==
    LET owed    == SharesToAmount(st.d.margin_debt, st.pos.d_shares, TRUE)
        covered == Least(owed, st.d.reserved)
    IN  IF st.pos.d_shares = 0
        THEN st
        ELSE [st EXCEPT !.d.reserved = @ - covered,
                        !.d.margin_debt = PoolWithdraw(@, st.pos.d_shares, owed),
                        !.pos.d_shares = 0,
                        !.uncovered = owed - covered]

\* the tokens of a position, supplied for its trader
HandedBack(as, shares, held) == [Supplied(as, shares, held) EXCEPT !.position = @ - held]

\* settle_closed_position: what is left is handed out as shares
Closed(st) ==
    LET held   == st.pos.p_amount
        shares == IF held > 0 THEN AmountToShares(st.p.supplied, held, FALSE) ELSE 0
    IN  IF st.pos.d_shares # 0
        THEN st
        ELSE [st EXCEPT !.p = HandedBack(@, shares, held),
                        !.benefits.c = st.pos.c_shares,
                        !.benefits.p = shares]

Topped(op, st)  == IF op \in FullClose THEN FromCollateral(st) ELSE st
Covered(op, st) == IF op = "forceclose" THEN FromReserve(st) ELSE st

Settling(pos, op, out) == Closed(Covered(op, Topped(op, Repaid(pos, Repayment(pos, out)))))

\* no unsigned subtraction of the handler so far was below zero
Sound(st) ==
    /\ st.pos.d_shares >= 0 /\ st.pos.c_shares >= 0
    /\ st.d.margin_debt \in PoolType /\ st.d.supplied \in PoolType

CanSaveAll(st) == CanSave(st.d, FALSE) /\ CanSave(st.p, FALSE)

\* the unsigned subtractions of the handler, its division and its saves
CanSettle(pos, op, out) ==
    LET repaid == Repaid(pos, Repayment(pos, out))
        topped == Topped(op, repaid)
    IN  /\ DebtAmount(pos) + HoldingFee(pos) > 0
        /\ Repayment(pos, out).left >= 0
        /\ Sound(repaid) /\ Sound(topped) /\ Sound(Covered(op, topped))
        /\ CanSaveAll(Settling(pos, op, out))

-----------------------------------------------------------------------------
\* calculate_benefit_distribution, of each kind of benefit
ToOwner(g) == [k \in DOMAIN g |-> Part(g[k], ProtocolRate)]

ToLiquidator(g) ==
    [k \in DOMAIN g |-> IF ProtocolRate + LiquidatorRate = MaxRatio
                        THEN g[k] - ToOwner(g)[k]
                        ELSE Part(g[k], LiquidatorRate)]

\* slip: the trader's part has the owner's in it
WithOwners(g) == [k \in DOMAIN g |-> g[k] - ToLiquidator(g)[k]]

ToTrader(g) == [k \in DOMAIN g |-> g[k] - ToOwner(g)[k] - ToLiquidator(g)[k]]

Nothing == [c |-> 0, d |-> 0, p |-> 0]

\* what account a holds with its share of the benefits
With(a, pos, g) ==
    [t \in Tokens |-> margin[a][t] + (IF t = pos.c THEN g.c ELSE 0)
                                   + (IF t = pos.d THEN g.d ELSE 0)
                                   + (IF t = pos.p THEN g.p ELSE 0)]

\* The accounts are read before and saved one after the other: of two that
\* are the same account the later save remains, the position's account last.
HandedOut(pos, op, by, g) ==
    CASE op = "liquidate" ->
            [margin EXCEPT ![Owner] = With(Owner, pos, ToOwner(g)),
                           ![by] = With(by, pos, ToLiquidator(g)),
                           ![pos.account] = With(pos.account, pos, ToTrader(g))]
      [] op = "forceclose" ->
            [margin EXCEPT ![Owner] = With(Owner, pos, g),
                           ![pos.account] = With(pos.account, pos, Nothing)]
      [] OTHER -> [margin EXCEPT ![pos.account] = With(pos.account, pos, g)]

\* slip: the stop stays when its fee is settled
StopKept(i, ended) == stop[i]

StopAfter(i, ended) == IF ended THEN NoStop ELSE stop[i]

\* An account with nothing left here may have unregistered since it asked.  The
\* owner is taken to stay: without its account the handler would abort.
MayHaveLeft(a) ==
    /\ a # Owner
    /\ \A t \in Tokens : margin[a][t] = 0 /\ supplied[a][t] = 0
    /\ \A j \in PosIds : position[j] # NoPosition => position[j].account # a

\* What a liquidator that has left would get goes to the owner as in a forced
\* closing.  The stop fee is settled when the rest is saved.
SaveAll(i, st, left) ==
    LET pos    == position[i]
        op     == trade[i].op
        ended  == st.pos.d_shares = 0
        assets == [asset EXCEPT ![pos.d] = Normalized(st.d), ![pos.p] = Normalized(st.p)]
        shares == HandedOut(pos, IF left /\ op = "liquidate" THEN "forceclose" ELSE op,
                            trade[i].by, st.benefits)
        f      == StopFee.token
        fee    == AmountToShares(assets[f].supplied, stop[i].amount, FALSE)
        recipient == IF op = "stop" /\ ~left THEN trade[i].by ELSE pos.account
    IN  /\ left => MayHaveLeft(trade[i].by)
        /\ IF ended /\ stop[i] # NoStop
           THEN /\ asset' = [assets EXCEPT ![f] = Normalized(Deposited(@, stop[i].amount))]
                /\ margin' = Add(shares, recipient, f, fee)
           ELSE asset' = assets /\ margin' = shares
        /\ position' = [position EXCEPT ![i] = IF ended THEN NoPosition ELSE st.pos]
        /\ stop' = [stop EXCEPT ![i] = StopAfter(i, ended)]
        /\ debts' = [debts EXCEPT ![pos.d] = @ + st.uncovered]

\* on_decrease_trade_return
Returned(i, out) ==
    \E left \in BOOLEAN : SaveAll(i, Settling(position[i], trade[i].op, out), left)

CanReturn(i, out) ==
    IF trade[i].op = "open" THEN CanOpen(i, out) ELSE CanSettle(position[i], trade[i].op, out)

Return(i, out) ==
    /\ IF trade[i].op = "open" THEN Opened(i, out) ELSE Returned(i, out)
    /\ acting' = acting \ {i}
    /\ trade' = [trade EXCEPT ![i] = NoTrade]

\* ft_on_transfer of the exchange's output with its SwapReference.  If the
\* handler aborts the exchange keeps the tokens, and nothing else comes.
TradeReturned(i) ==
    LET out == trade[i].out
    IN  /\ At(i, "swapped")
        /\ IF CanReturn(i, out) /\ i \in acting
           THEN /\ Return(i, out)
                /\ cash' = [cash EXCEPT ![TokenOut(i)] = @ + out]
           ELSE /\ Moved(i, "blocked")
                /\ UNCHANGED <<asset, margin, position, stop, acting, debts, cash>>
        /\ UNCHANGED <<supplied, opened, price>>

\* the exchange's transfer may fail as well, and its output stays there
TradeLost(i) ==
    /\ At(i, "swapped")
    /\ Moved(i, "blocked")
    /\ UNCHANGED <<asset, supplied, margin, position, opened, stop, acting, debts, price, cash>>

\* The owner sends tokens in place of the exchange, max_position_action_wait_sec
\* after the call: by then its callback has run.
Resume(i, n) ==
    /\ At(i, "blocked") \/ At(i, "unreverted")
    /\ n > 0
    /\ i \in acting
    /\ CanReturn(i, n)
    /\ Return(i, n)
    /\ cash' = [cash EXCEPT ![TokenOut(i)] = @ + n]
    /\ UNCHANGED <<supplied, opened, price>>

-----------------------------------------------------------------------------
(***************************************************************************)
(* Liquidation without an exchange, by an account that pays from its       *)
(* regular supply: process_margin_liquidate_direct.                        *)
(***************************************************************************)
LiquidateDirect(b, i) ==
    LET pos   == position[i]
        owed  == DebtAmount(pos) + HoldingFee(pos)
        needs == AmountToShares(asset[pos.d].supplied, owed, TRUE)
        gets  == AmountToShares(asset[pos.p].supplied, pos.p_amount, FALSE)
        d     == [Unsupplied(asset[pos.d], needs, owed) EXCEPT
                     !.margin_debt = PoolWithdraw(@, pos.d_shares, DebtAmount(pos))]
        p     == [Supplied(asset[pos.p], gets, pos.p_amount) EXCEPT !.position = @ - pos.p_amount]
        own   == supplied[b][pos.d] + (IF pos.c = pos.d THEN pos.c_shares ELSE 0)
    IN  /\ pos # NoPosition /\ ~pos.is_locking
        /\ b # pos.account
        /\ Liquidatable(pos)
        /\ 0 < supplied[b][pos.d] /\ needs <= own
        /\ CanWithdraw(asset[pos.d].supplied, needs, owed)
        /\ CanSave(d, TRUE) /\ CanSave(p, TRUE)
        /\ asset' = [asset EXCEPT ![pos.d] = Normalized(d), ![pos.p] = Normalized(p)]
        /\ supplied' = [supplied EXCEPT ![b] =
              [t \in Tokens |-> @[t] + (IF t = pos.c THEN pos.c_shares ELSE 0)
                                     + (IF t = pos.p THEN gets ELSE 0)
                                     - (IF t = pos.d THEN needs ELSE 0)]]
        /\ position' = [position EXCEPT ![i] = NoPosition]
        /\ UNCHANGED <<margin, opened, stop, acting, trade, debts, price, cash>>

-----------------------------------------------------------------------------
(***************************************************************************)
(* Time.                                                                   *)
(***************************************************************************)
Compounded(as, interest) ==
    LET kept == Part(interest, ReserveRatio)
    IN  IF as.supplied.shares > 0
        THEN [as EXCEPT !.supplied.balance = @ + interest - kept,
                        !.reserved = @ + kept,
                        !.margin_debt.balance = @ + interest]
        ELSE [as EXCEPT !.reserved = @ + interest, !.margin_debt.balance = @ + interest]

Accrue(t, interest) ==
    /\ asset[t].margin_debt.balance > 0
    /\ asset[t].margin_debt.balance + interest <= MaxDebt
    /\ asset' = [asset EXCEPT ![t] = Compounded(@, interest)]
    /\ UNCHANGED <<supplied, margin, position, opened, stop, acting, trade, debts, price, cash>>

HoldingFeeGrows(t, n) ==
    /\ asset[t].hp + n <= MaxHoldingFee
    /\ asset' = [asset EXCEPT ![t].hp = @ + n]
    /\ UNCHANGED <<supplied, margin, position, opened, stop, acting, trade, debts, price, cash>>

UpdatePrice(t, p) ==
    /\ p # price[t]
    /\ price' = [price EXCEPT ![t] = p]
    /\ UNCHANGED <<asset, supplied, margin, position, opened, stop, acting, trade, debts, cash>>

Market ==
    \E t \in Tokens : \/ \E n \in Interests : Accrue(t, n)
                      \/ \E n \in HoldingFees : HoldingFeeGrows(t, n)
                      \/ \E p \in Prices[t] : UpdatePrice(t, p)

-----------------------------------------------------------------------------
\* the stops a trader may set, and none
StopChoices == {NoStop} \cup
    {[loss |-> q.loss, profit |-> q.profit, amount |-> StopFee.amount] : q \in Stops}

Supplying(a, t) ==
    \E n \in Transfers : \/ DepositToMargin(a, t, n)
                         \/ Withdraw(a, t, n)
                         \/ WithdrawAll(a, t)
                         \/ WithdrawRegular(a, t, n)

Opening(a) ==
    \E i \in PosIds, pair \in Pairs, s \in StopChoices, pledged, borrowed, bought \in Amounts :
        Open(a, i, pair, pledged, borrowed, bought, s)

Holding(i) == \/ \E n \in Amounts : IncreaseCollateral(i, n) \/ DecreaseCollateral(i, n)
              \/ \E s \in StopChoices : SetStop(i, s)

Ending(b, i) == \/ \E op \in FullClose \cup {"decrease"}, amount, minOut \in Amounts :
                       Decrease(b, i, op, amount, minOut)
                \/ LiquidateDirect(b, i)

\* what the exchange may use of the input: all of it, or a part
Uses(i) == IF trade[i] = NoTrade THEN {} ELSE {trade[i].amount_in} \cup PartsUsed

Trading(i) == \/ \E used \in Uses(i), out \in Outputs : TradeSwapped(i, used, out)
              \/ TradeFailed(i)
              \/ TradeReturned(i)
              \/ TradeLost(i)
              \/ \E n \in Outputs : Resume(i, n)

Next ==
    \/ \E a \in Traders : Opening(a)
    \/ \E a \in Traders \cup Keepers, t \in Tokens : Supplying(a, t)
    \/ \E t \in Tokens, n \in ReserveDeposits : DepositToReserve(t, n)
    \/ \E i \in PosIds : Holding(i) \/ Trading(i)
    \/ \E b \in Traders \cup Keepers, i \in PosIds : Ending(b, i)
    \/ Market

Spec == Init /\ [][Next]_vars

\* The exchange answers and its answer is run; the owner resumes what is stuck.
\* These are weak fairness of Answers(i) and of Resumes(i): Waiting and Stuck say
\* when they are enabled, which TLC would take long to find out by ENABLED.
Answers(i) == \/ \E used \in Uses(i), out \in Outputs : TradeSwapped(i, used, out)
              \/ TradeFailed(i)
              \/ TradeReturned(i)
              \/ TradeLost(i)

Waiting(i) == At(i, "sent") \/ At(i, "swapped")

Resumes(i) == \E n \in Outputs : Resume(i, n)

Stuck(i) == /\ At(i, "blocked") \/ At(i, "unreverted")
            /\ i \in acting /\ \E n \in Outputs : CanReturn(i, n)

FairSpec ==
    /\ Spec
    /\ \A i \in PosIds : /\ <>[]Waiting(i) => []<><<Answers(i)>>_vars
                         /\ <>[]Stuck(i) => []<><<Resumes(i)>>_vars

-----------------------------------------------------------------------------
(***************************************************************************)
(* Properties.                                                             *)
(***************************************************************************)
Live == {i \in PosIds : position[i] # NoPosition}

Traded == {i \in PosIds : trade[i] # NoTrade}

\* shares of the pool that are in no account and are no position's collateral
Unheld(t) ==
    asset[t].supplied.shares
    - SumFunction([a \in Accounts |-> supplied[a][t] + margin[a][t]])
    - SumFunction([i \in PosIds |->
          IF i \in Live /\ position[i].c = t THEN position[i].c_shares ELSE 0])

\* The owner shares the benefits with itself, as trader or as liquidator: one
\* account, read twice and saved twice.
MeetsItself(pos, op, by) ==
    \/ op = "liquidate" /\ Owner \in {by, pos.account}
    \/ op = "forceclose" /\ Owner = pos.account

OwnerMeetsItself ==
    \E i \in Traded : /\ trade'[i] = NoTrade
                      /\ MeetsItself(position[i], trade[i].op, trade[i].by)

\* Every share of a supply pool is in a regular account, in a margin account or
\* is the collateral of a position, whatever was traded, undone or settled.  Only
\* where the owner meets itself may shares be in nobody's name: none are in two.
SharesConserved ==
    /\ \A t \in Tokens : Unheld(t) = 0
    /\ [][\A t \in Tokens : \/ Unheld(t)' = Unheld(t)
                            \/ OwnerMeetsItself /\ Unheld(t)' > Unheld(t)]_vars

\* amount_in of the trades among S that give token t away
AmountIn(S, t) ==
    SumFunction([i \in PosIds |->
        IF i \in S /\ TokenIn(i) = t THEN trade[i].amount_in ELSE 0])

Openings == {i \in Traded : trade[i].op = "open"}
Stage(stage) == {i \in Traded : trade[i].stage = stage}

\* The totals an asset keeps are those of the positions and of the openings
\* on their way: margin_pending_debt, margin_debt and margin_position.
BooksMatchPositions ==
    \A t \in Tokens :
        /\ asset[t].pending = AmountIn(Openings, t)
        /\ asset[t].margin_debt.shares = SumFunction([i \in PosIds |->
              IF i \in Live /\ position[i].d = t THEN position[i].d_shares ELSE 0])
        /\ asset[t].position = SumFunction([i \in PosIds |->
              IF i \in Live /\ position[i].p = t THEN position[i].p_amount ELSE 0])

StopFees(t) ==
    IF t = StopFee.token
    THEN SumFunction([i \in PosIds |-> IF stop[i] = NoStop THEN 0 ELSE stop[i].amount])
    ELSE 0

\* What the contract has, is owed or must itself make good covers what it
\* owes: supplies, reserve, fees, positions, stop fees, tokens about to be sold.
ClaimsCovered ==
    \A t \in Tokens :
        cash[t] + asset[t].margin_debt.balance + debts[t]
        + AmountIn(Openings \cap (Stage("swapped") \cup Stage("blocked")), t)
        >= asset[t].supplied.balance + asset[t].reserved + asset[t].prot_fee
           + asset[t].position + StopFees(t)
           + AmountIn(Stage("sent") \ Openings, t)

\* A position is locked exactly while its trade is unanswered, and is then one
\* that the handler of an answer, or the owner, finds and can unlock.
LockedWhileTraded ==
    /\ acting = Traded
    /\ \A i \in PosIds :
          (i \in Traded) <=> (position[i] # NoPosition /\ position[i].is_locking)

\* Saving an asset asserts this of what is supplied and borrowed, not of
\* margin debt: a share is worth a token or more, and no debt is left over
\* that no position owes.
MarginDebtSound ==
    \A t \in Tokens :
        /\ PoolInvariant(asset[t].margin_debt)
        /\ asset[t].margin_debt.shares = 0 => asset[t].margin_debt.balance = 0

\* Whatever a position loses, the tokens a supplied share stands for never
\* get fewer: the reserve and the protocol's debt take the loss.
SuppliersNeverPay ==
    [][\A t \in Tokens : PriceNotLower(asset[t].supplied, asset'[t].supplied)]_vars

\* A position may be decreased at any time, so nobody is lent what positions
\* hold: the tokens they hold and those they have just put on sale are there.
PositionsAreThere ==
    \A t \in Tokens :
        cash[t] >= asset[t].position + SumFunction([i \in PosIds |->
            IF i \in Stage("sent") \ Openings /\ TokenIn(i) = t
            THEN Least(trade[i].amount_in, trade[i].pre) ELSE 0])

Endangered(i) == Liquidatable(position[i]) \/ ForceCloseable(position[i])

Settled(i) == position[i] # NoPosition /\ ~position[i].is_locking

\* A position that could not be ended against its owner's will cannot be after
\* anyone's call, its owner's included: only prices, interest and fees do that.
OnlyMarketEndangers ==
    [][\A i \in PosIds :
          Settled(i) /\ Settled(i)' /\ ~Endangered(i) => Market \/ ~Endangered(i)']_vars

\* The fee of a stop that is set with the opening leaves the supply.
FeeLeavesSupply ==
    [][\A i \in opened' \ opened :
          stop'[i] # NoStop =>
              asset'[StopFee.token].supplied.balance + StopFee.amount
                  = asset[StopFee.token].supplied.balance]_vars

\* Whatever else has happened meanwhile, enough tokens from the owner end a
\* trade whose answer was lost: its handler does not abort on them.
OwnerCanResume ==
    \A i \in Stage("blocked") \cup Stage("unreverted") :
        IF trade[i].op = "open"
        THEN CanReturn(i, 1)
        ELSE CanReturn(i, DebtAmount(position[i]) + HoldingFee(position[i]))

\* A position that is locked is unlocked, or ends.
PositionsUnlock ==
    \A i \in PosIds :
        (position[i] # NoPosition /\ position[i].is_locking)
            ~> (position[i] = NoPosition \/ ~position[i].is_locking)
=============================================================================
