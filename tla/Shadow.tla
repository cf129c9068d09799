-------------------------------- MODULE Shadow --------------------------------
(***************************************************************************)
(* LP tokens as collateral, the work of three contracts.                   *)
(*                                                                         *)
(* The exchange (mock-ref-exchange) keeps the LP shares of each account    *)
(* and a record of the shadows they cast: the same shares may be staked in *)
(* the boost farm (mock-boost-farming) and be collateral in the lending    *)
(* contract (contracts/contract) at once, and only shares without any      *)
(* shadow can be moved.  The lending contract counts a shadow as supply of *)
(* the LP token, keeps a position of its own for it, and liquidates that   *)
(* position through the exchange, which burns the shares.                  *)
(*                                                                         *)
(* No contract sees another's state: each call between them is sent in one *)
(* step, takes effect in another, and its outcome reaches the callback of  *)
(* the sender in a third.  Other calls run in between.  A lock on both     *)
(* accounts of a liquidation is all that holds them still.                 *)
(*                                                                         *)
(* One LP token, and one other token ("dollars") to borrow.  Nobody can    *)
(* borrow the LP token, so its pool has one share for each token and is    *)
(* a number here.                                                          *)
(***************************************************************************)
EXTENDS Pools, FiniteSets, Sequences, SequencesExt

CONSTANTS
    Accounts,           \* the users of all three contracts
    Reliable,           \* the whitelisted liquidators
    MinReserveShares,   \* MIN_RESERVE_SHARES
    MinDeposit,         \* the farm's min_deposit of the seed
    FarmMayPause,       \* whether the farm's owner pauses it at times
    ForceClosing,       \* config.force_closing_enabled
    SupplyLimit,        \* config.supplied_limit of the LP token
    CollateralWeight,   \* volatility ratios of LP token and dollar, over ...
    DebtWeight,         \* ... the inverse of the dollar's, as in Lending
    Values,             \* what the exchange may report one LP token is worth
    InitialShares,      \* the LP shares of each account at first
    InitialDollars,     \* the dollars each has supplied at first
    InitialReserve,     \* the dollars in the lending contract's reserve
    Providers,          \* bound: the accounts that call the exchange
    Amounts,            \* bound: the LP tokens an action may name
    Loans,              \* bound: the dollars an action may name
    MaxShares,          \* bound: no liquidity is added beyond these LP shares
    MaxCalls            \* bound: accounts start no more calls than this at once

ToSteps   == {"ToFarming", "ToBurrowland"}
FromSteps == {"FromFarming", "FromBurrowland"}
FarmSteps == {"ToFarming", "FromFarming"}
Stale     == 0
Stages    == {"sent", "done", "failed"}

ShadowCalls == [kind : ToSteps \cup FromSteps, account : Accounts, amount : Nat,
                execute : BOOLEAN, stage : Stages]
SeedCalls   == [kind : {"Unstake"}, account : Accounts, amount : Nat, stage : Stages]
RequestType == [kind : {"amount", "max_amount", "available"}, value : Nat]
Liquidations == [kind : {"Liquidate"}, account : Accounts, liquidator : Accounts,
                 in : RequestType, amount : Nat, stage : Stages]
ForcedCalls == [kind : {"ForceClose"}, account : Accounts, amount : Nat, stage : Stages]
CallType    == ShadowCalls \cup SeedCalls \cup Liquidations \cup ForcedCalls

ASSUME ShadowAccounts == IsFiniteSet(Accounts) /\ Reliable \subseteq Accounts
                         /\ Providers \subseteq Accounts
ASSUME ShadowNumbers == /\ {MinReserveShares, CollateralWeight, DebtWeight} \subseteq Nat \ {0}
                        /\ {MinDeposit, SupplyLimit, InitialReserve} \subseteq Nat
                        /\ CollateralWeight <= DebtWeight
                        /\ {ForceClosing, FarmMayPause} \subseteq BOOLEAN
ASSUME ShadowValues == Values \subseteq Nat \ {0} /\ Values # {}
ASSUME ShadowWealth == /\ InitialShares \in [Accounts -> Nat]
                       /\ InitialDollars \in [Accounts -> Nat]
ASSUME ShadowBounds == /\ Amounts \subseteq Nat /\ Loans \subseteq Nat
                       /\ {MaxShares, MaxCalls} \subseteq Nat

VARIABLES
    shares,      \* exchange: the LP shares of each account
    record,      \* exchange: its shadow record, in farm and in burrow
    seed,        \* farm: the shadow_amount of its seed
    lpSupply,    \* lending: supplied shares, and balance, of the LP token
    usd,         \* lending: the pools and the reserve of the dollar
    lp,          \* lending: LP tokens an account has supplied
    dollars,     \* lending: its shares of supplied dollars
    collateral,  \* lending: the LP tokens of its LPTokenPosition
    debt,        \* lending: the debt shares of that position
    locked,      \* lending: the accounts with is_locked
    value,       \* lending: last_lp_token_infos, the value of one LP token,
                 \* or Stale after lp_tokens_info_valid_duration_sec
    calls        \* the calls between the contracts, oldest first

exchangeVars == <<shares, record>>
positionVars == <<collateral, debt>>
supplyVars   == <<lpSupply, usd, lp, dollars>>
lendingVars  == <<supplyVars, positionVars, locked, value>>
vars         == <<exchangeVars, seed, lendingVars, calls>>

RecordType == [farm : Nat, burrow : Nat]
UsdType    == [supplied : PoolType, borrowed : PoolType, reserved : Nat]

TypeOK ==
    /\ shares \in [Accounts -> Nat]
    /\ record \in [Accounts -> RecordType]
    /\ seed \in [Accounts -> Nat]
    /\ lpSupply \in Nat
    /\ usd \in UsdType
    /\ lp \in [Accounts -> Nat]
    /\ dollars \in [Accounts -> Nat]
    /\ collateral \in [Accounts -> Nat]
    /\ debt \in [Accounts -> Nat]
    /\ locked \subseteq Accounts
    /\ value \in Nat
    /\ calls \in Seq(CallType)

Total(f) == SumFunction(f)

Init ==
    /\ shares = InitialShares
    /\ record = [a \in Accounts |-> [farm |-> 0, burrow |-> 0]]
    /\ seed = [a \in Accounts |-> 0]
    /\ lpSupply = 0
    /\ usd = [supplied |-> [shares |-> Total(InitialDollars), balance |-> Total(InitialDollars)],
              borrowed |-> EmptyPool, reserved |-> InitialReserve]
    /\ lp = [a \in Accounts |-> 0]
    /\ dollars = InitialDollars
    /\ collateral = [a \in Accounts |-> 0]
    /\ debt = [a \in Accounts |-> 0]
    /\ locked = {}
    /\ value \in Values
    /\ calls = << >>

-----------------------------------------------------------------------------
(***************************************************************************)
(* The calls under way.  Calls to one contract take effect in the order    *)
(* they were sent; outcomes reach the callbacks in any order.              *)
(***************************************************************************)
Receiver(call) ==
    IF call.kind \in FarmSteps \cup {"Unstake"} THEN "farm"
    ELSE IF call.kind \in ToSteps \cup FromSteps THEN "burrow"
    ELSE "exchange"

IsNext(i, receiver) ==
    /\ calls[i].stage = "sent"
    /\ Receiver(calls[i]) = receiver
    /\ \A j \in 1 .. i - 1 : calls[j].stage = "sent" => Receiver(calls[j]) # receiver

Send(call) ==
    /\ Len(calls) < MaxCalls
    /\ calls' = Append(calls, call)

Answered(i, stage) == [calls EXCEPT ![i].stage = stage]

Drop(i) == calls' = RemoveAt(calls, i)

Plus(f, a, n)  == [f EXCEPT ![a] = @ + n]
Minus(f, a, n) == [f EXCEPT ![a] = @ - n]

-----------------------------------------------------------------------------
(***************************************************************************)
(* The exchange.                                                           *)
(***************************************************************************)
Most(m, n) == IF m >= n THEN m ELSE n

\* slip: shares are free when either shadow leaves them
FreeOfEither(rec, total) == total - Least(rec.farm, rec.burrow)

FreeShares(rec, total) == total - Most(rec.farm, rec.burrow)

Field(kind) == IF kind \in FarmSteps THEN "farm" ELSE "burrow"

\* update_shadow_record, whose subtraction aborts on underflow
AddShadow(a, field, n) == record' = [record EXCEPT ![a][field] = @ + n]
CanSubShadow(a, field, n) == n <= record[a][field]
SubShadow(a, field, n) == record' = [record EXCEPT ![a][field] = @ - n]

AddLiquidity(a, n) ==
    /\ n > 0
    /\ Total(shares) + n <= MaxShares
    /\ shares' = Plus(shares, a, n)
    /\ UNCHANGED <<record, seed, lendingVars, calls>>

RemoveLiquidity(a, n) ==
    /\ n > 0
    /\ n <= FreeShares(record[a], shares[a])
    /\ shares' = Minus(shares, a, n)
    /\ UNCHANGED <<record, seed, lendingVars, calls>>

\* mft_transfer of a pool's shares
TransferShares(a, b, n) ==
    /\ a # b
    /\ n > 0
    /\ n <= FreeShares(record[a], shares[a])
    /\ shares' = [shares EXCEPT ![a] = @ - n, ![b] = @ + n]
    /\ UNCHANGED <<record, seed, lendingVars, calls>>

ShadowCall(kind, a, n, execute) ==
    [kind |-> kind, account |-> a, amount |-> n, execute |-> execute, stage |-> "sent"]

\* slip: what either shadow leaves may be cast once more
CastTwice(kind, a, n, execute) ==
    /\ n > 0
    /\ n <= shares[a]
    /\ AddShadow(a, Field(kind), n)
    /\ Send(ShadowCall(kind, a, n, execute))
    /\ UNCHANGED <<shares, seed, lendingVars>>

\* shadow_action ToFarming, ToBurrowland: the record counts the shadow before
\* the other contract does
CastShadow(kind, a, n, execute) ==
    /\ n > 0
    /\ n <= shares[a] - record[a][Field(kind)]
    /\ AddShadow(a, Field(kind), n)
    /\ Send(ShadowCall(kind, a, n, execute))
    /\ UNCHANGED <<shares, seed, lendingVars>>

\* slip: the record drops the shadow before the other contract has
RemoveAtOnce(kind, a, n, execute) ==
    /\ n > 0
    /\ n <= record[a][Field(kind)]
    /\ SubShadow(a, Field(kind), n)
    /\ Send(ShadowCall(kind, a, n, execute))
    /\ UNCHANGED <<shares, seed, lendingVars>>

\* shadow_action FromFarming, FromBurrowland: the record keeps the shadow
\* until the other contract has dropped it
RemoveShadow(kind, a, n, execute) ==
    /\ n > 0
    /\ n <= record[a][Field(kind)]
    /\ Send(ShadowCall(kind, a, n, execute))
    /\ UNCHANGED <<shares, record, seed, lendingVars>>

\* callback_on_shadow: a cast that failed, or a removal that succeeded, is
\* taken from the record; the callback aborts when it is not there any more
ShadowOutcome(i) ==
    LET c     == calls[i]
        takes == \/ c.kind \in ToSteps /\ c.stage = "failed"
                 \/ c.kind \in FromSteps /\ c.stage = "done"
    IN  /\ c.kind \in ToSteps \cup FromSteps
        /\ c.stage # "sent"
        /\ IF takes /\ CanSubShadow(c.account, Field(c.kind), c.amount)
           THEN SubShadow(c.account, Field(c.kind), c.amount)
           ELSE UNCHANGED record
        /\ Drop(i)
        /\ UNCHANGED <<shares, seed, lendingVars>>

\* what the farm must give back so that n shares can be burnt
SeedToWithdraw(rec, total, n) ==
    LET free == FreeShares(rec, total)
    IN  IF free > n THEN 0 ELSE n - free

\* slip: the farm keeps what the shares left over do not cover
NothingToWithdraw(rec, total, n) == 0

\* on_burrow_liquidation: uncast n from burrow, and from the farm what no free
\* share covers, burn the shares, tell the farm.  It may also be refused: by
\* the minimum amounts, a frozen token or an account that is not registered.
BurnForBurrow(i) ==
    LET c        == calls[i]
        a        == c.account
        uncast   == [record[a] EXCEPT !.burrow = @ - c.amount]
        withdraw == SeedToWithdraw(uncast, shares[a], c.amount)
    IN  /\ IsNext(i, "exchange")
        /\ c.amount <= record[a].burrow
        /\ withdraw <= record[a].farm
        /\ c.amount <= shares[a]
        /\ record' = [record EXCEPT ![a] = [uncast EXCEPT !.farm = @ - withdraw]]
        /\ shares' = Minus(shares, a, c.amount)
        /\ calls' = IF withdraw > 0
                    THEN Append(Answered(i, "done"),
                                [kind |-> "Unstake", account |-> a,
                                 amount |-> withdraw, stage |-> "sent"])
                    ELSE Answered(i, "done")
        /\ UNCHANGED <<seed, lendingVars>>

RefuseBurrow(i) ==
    /\ IsNext(i, "exchange")
    /\ calls' = Answered(i, "failed")
    /\ UNCHANGED <<shares, record, seed, lendingVars>>

Exchange(a) ==
    \E n \in Amounts :
        \/ AddLiquidity(a, n)
        \/ RemoveLiquidity(a, n)
        \/ \E b \in Accounts : TransferShares(a, b, n)
        \/ CastShadow("ToFarming", a, n, FALSE)
        \/ RemoveShadow("FromFarming", a, n, FALSE)
        \/ \E execute \in BOOLEAN : \/ CastShadow("ToBurrowland", a, n, execute)
                                    \/ RemoveShadow("FromBurrowland", a, n, execute)

ExchangeReceives == \E i \in DOMAIN calls : BurnForBurrow(i) \/ RefuseBurrow(i)
ExchangeHears    == \E i \in DOMAIN calls : ShadowOutcome(i)

-----------------------------------------------------------------------------
(***************************************************************************)
(* The boost farm.  It may be paused, and refuses then; a call with a      *)
(* message it always refuses, so none is sent here.  The callback of an    *)
(* Unstake only logs the outcome.                                          *)
(***************************************************************************)
StakeSeed(i) ==
    LET c == calls[i]
    IN  /\ IsNext(i, "farm")
        /\ c.kind = "ToFarming"
        /\ c.amount >= MinDeposit
        /\ seed' = Plus(seed, c.account, c.amount)
        /\ calls' = Answered(i, "done")
        /\ UNCHANGED <<exchangeVars, lendingVars>>

UnstakeSeed(i) ==
    LET c == calls[i]
    IN  /\ IsNext(i, "farm")
        /\ c.kind \in {"FromFarming", "Unstake"}
        /\ c.amount <= seed[c.account]
        /\ seed' = Minus(seed, c.account, c.amount)
        /\ IF c.kind = "Unstake" THEN Drop(i) ELSE calls' = Answered(i, "done")
        /\ UNCHANGED <<exchangeVars, lendingVars>>

RefuseSeed(i) ==
    /\ IsNext(i, "farm")
    /\ \/ FarmMayPause
       \/ calls[i].kind = "ToFarming" /\ calls[i].amount < MinDeposit
       \/ calls[i].kind # "ToFarming" /\ calls[i].amount > seed[calls[i].account]
    /\ IF calls[i].kind = "Unstake" THEN Drop(i) ELSE calls' = Answered(i, "failed")
    /\ UNCHANGED <<exchangeVars, seed, lendingVars>>

FarmReceives == \E i \in DOMAIN calls : StakeSeed(i) \/ UnstakeSeed(i) \/ RefuseSeed(i)

-----------------------------------------------------------------------------
(***************************************************************************)
(* The lending contract: what it saves, and what a position is worth.      *)
(***************************************************************************)
EnoughShares(n) == n = 0 \/ n >= MinReserveShares

Normalized(as) ==
    IF as.supplied.shares = 0
    THEN [as EXCEPT !.reserved = @ + as.supplied.balance, !.supplied = EmptyPool]
    ELSE as

CanSave(as, checked) ==
    /\ checked => EnoughShares(as.supplied.shares) /\ EnoughShares(as.borrowed.shares)
    /\ as.borrowed.shares > 0 \/ as.borrowed.balance = 0
    /\ PoolInvariant(Normalized(as).supplied)
    /\ PoolInvariant(as.borrowed)

AvailableAmount(as) == as.supplied.balance + as.reserved - as.borrowed.balance

\* slip: only the locks of liquidations that are still under way are looked at
MayActOnceAnswered(a) == \A i \in DOMAIN calls :
    calls[i].account = a /\ calls[i].stage = "sent" =>
        calls[i].kind \notin {"Liquidate", "ForceClose"}

\* internal_execute: the account may not be locked.  A whitelisted liquidator's
\* actions are spared the check of minimum shares; the setting ends with the
\* call, so that callbacks are not spared, nor what precedes internal_execute.
MayAct(a) == a \notin locked

\* the sums of compute_max_discount, scaled by one factor
Owed(as, d)        == SharesToAmount(as.borrowed, d, TRUE)
BorrowedSum(as, d) == Owed(as, d) * DebtWeight
CollateralSum(n, v) == n * v * CollateralWeight

AtRisk(as, n, d, v) == d > 0 /\ BorrowedSum(as, d) > CollateralSum(n, v)

\* slip: the check sees what was there before the list
WasHealthy(a) ==
    /\ debt[a] > 0 => value # Stale
    /\ ~ AtRisk(usd, collateral[a], debt[a], value)

\* the risk check of a list of actions, on what it has written; the value of
\* an LP token that backs a debt must not be stale
StaysHealthy(a) ==
    /\ debt'[a] > 0 => value # Stale
    /\ ~ AtRisk(usd', collateral'[a], debt'[a], value)

HasPosition(a) == collateral[a] > 0 \/ debt[a] > 0

-----------------------------------------------------------------------------
(***************************************************************************)
(* Shadows that arrive and leave: on_cast_shadow deposits, then executes   *)
(* the actions of the message; on_remove_shadow executes first, without    *)
(* prices, and then withdraws.  The lock binds the actions alone.  Either  *)
(* is refused when the asset is closed or the storage does not suffice.    *)
(***************************************************************************)
LpDeposited(i) ==
    LET c == calls[i]
    IN  /\ IsNext(i, "burrow")
        /\ c.kind = "ToBurrowland"
        /\ EnoughShares(lpSupply + c.amount)
        /\ lpSupply' = lpSupply + c.amount
        /\ IF c.execute
           THEN /\ MayAct(c.account)
                /\ c.account \in Reliable \/ lpSupply + c.amount <= SupplyLimit
                /\ collateral' = Plus(collateral, c.account, c.amount)
                /\ UNCHANGED lp
           ELSE /\ lp' = Plus(lp, c.account, c.amount)
                /\ UNCHANGED collateral
        /\ calls' = Answered(i, "done")
        /\ UNCHANGED <<exchangeVars, seed, usd, dollars, debt, locked, value>>

Owns(a, n) == n <= lp[a]

LpWithdrawn(i) ==
    LET c == calls[i]
        a == c.account
    IN  /\ IsNext(i, "burrow")
        /\ c.kind = "FromBurrowland"
        /\ IF c.execute
           THEN /\ MayAct(a)
                /\ debt[a] = 0
                /\ c.amount <= collateral[a]
                /\ collateral' = Minus(collateral, a, c.amount)
                /\ UNCHANGED lp
           ELSE /\ Owns(a, c.amount)
                /\ lp' = Minus(lp, a, c.amount)
                /\ UNCHANGED collateral
        /\ EnoughShares(lpSupply - c.amount) \/ (c.execute /\ a \in Reliable)
        /\ lpSupply' = lpSupply - c.amount
        /\ calls' = Answered(i, "done")
        /\ UNCHANGED <<exchangeVars, seed, usd, dollars, debt, locked, value>>

RefuseShadow(i) ==
    /\ IsNext(i, "burrow")
    /\ calls' = Answered(i, "failed")
    /\ UNCHANGED <<exchangeVars, seed, lendingVars>>

BurrowReceives == \E i \in DOMAIN calls : LpDeposited(i) \/ LpWithdrawn(i) \/ RefuseShadow(i)

-----------------------------------------------------------------------------
(***************************************************************************)
(* What the owner of an LP position may do with it.                        *)
(***************************************************************************)
IncreaseCollateral(a, n) ==
    /\ MayAct(a)
    /\ n > 0
    /\ n <= lp[a]
    /\ a \in Reliable \/ lpSupply <= SupplyLimit
    /\ lp' = Minus(lp, a, n)
    /\ collateral' = Plus(collateral, a, n)
    /\ UNCHANGED <<exchangeVars, seed, lpSupply, usd, dollars, debt, locked, value, calls>>

DecreaseCollateral(a, n) ==
    /\ MayAct(a)
    /\ n > 0
    /\ n <= collateral[a]
    /\ lp' = Plus(lp, a, n)
    /\ collateral' = Minus(collateral, a, n)
    /\ UNCHANGED <<exchangeVars, seed, lpSupply, usd, dollars, debt, locked, value, calls>>
    /\ StaysHealthy(a)

Borrow(a, n) ==
    LET move   == AssetAmountToShares(usd.borrowed, 0, Exactly(n), FALSE)
        minted == AmountToShares(usd.supplied, n, FALSE)
        lent   == [usd EXCEPT !.borrowed = PoolDeposit(@, move.shares, n),
                              !.supplied = PoolDeposit(@, minted, n)]
    IN  /\ MayAct(a)
        /\ HasPosition(a)
        /\ IsMove(move)
        /\ n <= AvailableAmount(usd)
        /\ CanSave(lent, a \notin Reliable)
        /\ usd' = Normalized(lent)
        /\ debt' = Plus(debt, a, move.shares)
        /\ dollars' = Plus(dollars, a, minted)
        /\ UNCHANGED <<exchangeVars, seed, lpSupply, lp, collateral, locked, value, calls>>
        /\ StaysHealthy(a)

\* internal_repay, as in Lending: a payer with too little pays with all it has
RepayMove(payer, debtor, req) ==
    LET whole == AssetAmountToShares(usd.borrowed, debt[debtor], req, TRUE)
        cost  == AmountToShares(usd.supplied, whole.amount, TRUE)
        all   == SharesToAmount(usd.supplied, dollars[payer], FALSE)
    IN  IF cost <= dollars[payer]
        THEN [burnt |-> cost, repaid |-> whole.shares, amount |-> whole.amount]
        ELSE [burnt  |-> dollars[payer],
              repaid |-> AmountToShares(usd.borrowed, all, FALSE),
              amount |-> all]

\* what internal_repay asserts before it touches the pools
MayRepay(payer, debtor, req, move) ==
    /\ dollars[payer] > 0
    /\ debt[debtor] > 0
    /\ IsMove(AssetAmountToShares(usd.borrowed, debt[debtor], req, TRUE))
    /\ req.kind = "amount" => move.amount >= req.value
    /\ move.amount > 0
    /\ move.repaid > 0
    /\ move.repaid <= debt[debtor]

AfterRepay(move) ==
    [usd EXCEPT !.supplied = PoolWithdraw(@, move.burnt, move.amount),
                !.borrowed = PoolWithdraw(@, move.repaid, move.amount)]

\* ... and what it asserts of them, and of the asset it saves
CanSaveRepaid(move, checked) ==
    /\ CanWithdraw(usd.supplied, move.burnt, move.amount)
    /\ CanWithdraw(usd.borrowed, move.repaid, move.amount)
    /\ CanSave(AfterRepay(move), checked)

Repay(a, req) ==
    LET move == RepayMove(a, a, req)
    IN  /\ MayAct(a)
        /\ MayRepay(a, a, req, move)
        /\ CanSaveRepaid(move, a \notin Reliable)
        /\ usd' = Normalized(AfterRepay(move))
        /\ dollars' = Minus(dollars, a, move.burnt)
        /\ debt' = Minus(debt, a, move.repaid)
        /\ UNCHANGED <<exchangeVars, seed, lpSupply, lp, collateral, locked, value, calls>>

-----------------------------------------------------------------------------
(***************************************************************************)
(* Liquidations.  internal_shadow_liquidate tries the liquidation out on   *)
(* copies, without saving an asset; if the copies satisfy the conditions   *)
(* it asks the exchange to burn the shares, and locks both accounts.  The  *)
(* callback makes the same repayment again, at the rates of then.          *)
(***************************************************************************)
\* the discount is (debt - collateral) / debt / 2 of the weighted sums; what
\* is taken, less the discount, may not be worth more than what is repaid
Affordable(taken, paid, owes, owns) == taken * (owes + owns) <= paid * 2 * owes

Liquidate(k, a, req, n) ==
    LET move  == RepayMove(k, a, req)
        owes  == BorrowedSum(usd, debt[a])
        owns  == CollateralSum(collateral[a], value)
        left  == debt[a] - move.repaid
        keeps == collateral[a] - n
    IN  /\ k # a
        /\ a \notin locked
        /\ MayAct(k)
        /\ value # Stale
        /\ AtRisk(usd, collateral[a], debt[a], value)
        /\ MayRepay(k, a, req, move)
        /\ n > 0
        /\ n <= collateral[a]
        /\ Affordable(n * value, move.amount, owes, owns)
        /\ AtRisk(usd, keeps, left, value)
        /\ owns * BorrowedSum(usd, left) < CollateralSum(keeps, value) * owes
        /\ locked' = locked \cup {k, a}
        /\ Send([kind |-> "Liquidate", account |-> a, liquidator |-> k, in |-> req,
                 amount |-> n, stage |-> "sent"])
        /\ UNCHANGED <<exchangeVars, seed, supplyVars, positionVars, value>>

TakesCollateral(a, n) == Minus(collateral, a, n)

CanLiquidate(c, move) ==
    /\ MayRepay(c.liquidator, c.account, c.in, move)
    /\ CanSaveRepaid(move, TRUE)
    /\ c.amount <= collateral[c.account]

\* callback_process_shadow_liquidate_result.  When it aborts nothing of it
\* remains: both accounts stay locked, whatever the exchange has burnt.
LiquidateOutcome(i) ==
    LET c    == calls[i]
        move == RepayMove(c.liquidator, c.account, c.in)
    IN  /\ c.kind = "Liquidate"
        /\ c.stage # "sent"
        /\ Drop(i)
        /\ \/ /\ c.stage = "failed"
              /\ locked' = locked \ {c.account, c.liquidator}
              /\ UNCHANGED <<supplyVars, positionVars>>
           \/ /\ c.stage = "done"
              /\ CanLiquidate(c, move)
              /\ locked' = locked \ {c.account, c.liquidator}
              /\ usd' = Normalized(AfterRepay(move))
              /\ dollars' = Minus(dollars, c.liquidator, move.burnt)
              /\ debt' = Minus(debt, c.account, move.repaid)
              /\ collateral' = TakesCollateral(c.account, c.amount)
              /\ lpSupply' = lpSupply - c.amount
              /\ UNCHANGED lp
           \/ /\ c.stage = "done"
              /\ ~ CanLiquidate(c, move)
              /\ UNCHANGED <<locked, supplyVars, positionVars>>
        /\ UNCHANGED <<exchangeVars, seed, value>>

\* internal_shadow_force_close: all the collateral, for the protocol's owner
ForceClose(k, a) ==
    /\ ForceClosing
    /\ k # a
    /\ a \notin locked
    /\ MayAct(k)
    /\ HasPosition(a)
    /\ value # Stale
    /\ Owed(usd, debt[a]) <= usd.reserved
    /\ debt[a] > 0
    /\ Owed(usd, debt[a]) > collateral[a] * value
    /\ locked' = locked \cup {a}
    /\ Send([kind |-> "ForceClose", account |-> a, amount |-> collateral[a],
             stage |-> "sent"])
    /\ UNCHANGED <<exchangeVars, seed, supplyVars, positionVars, value>>

\* callback_process_shadow_force_close_result: the position goes, the reserve
\* pays its debt if it still can, and the LP tokens stay in the asset's supply
ForceCloseOutcome(i) ==
    LET c    == calls[i]
        a    == c.account
        owed == Owed(usd, debt[a])
    IN  /\ c.kind = "ForceClose"
        /\ c.stage # "sent"
        /\ Drop(i)
        /\ locked' = locked \ {a}
        /\ IF c.stage = "done"
           THEN collateral' = [collateral EXCEPT ![a] = 0]
           ELSE UNCHANGED collateral
        /\ IF c.stage = "done" /\ owed <= usd.reserved
           THEN /\ usd' = [usd EXCEPT !.reserved = @ - owed,
                                      !.borrowed = PoolWithdraw(@, debt[a], owed)]
                /\ debt' = [debt EXCEPT ![a] = 0]
           ELSE UNCHANGED <<usd, debt>>
        /\ UNCHANGED <<exchangeVars, seed, lpSupply, lp, dollars, value>>

Lend(a) ==
    \/ \E n \in Amounts : \/ IncreaseCollateral(a, n)
                          \/ DecreaseCollateral(a, n)
    \/ \E n \in Loans : Borrow(a, n)
    \/ \E req \in RequestsOver(Loans) : Repay(a, req)
    \/ \E v \in Accounts :
          \/ ForceClose(a, v)
          \/ \E req \in RequestsOver(Loans), n \in Amounts : Liquidate(a, v, req, n)

\* the callback of the calls that hold the lock of a
Settles(a) ==
    \E i \in DOMAIN calls :
        /\ calls[i].account = a
        /\ LiquidateOutcome(i) \/ ForceCloseOutcome(i)

-----------------------------------------------------------------------------
(***************************************************************************)
(* Time and the market.                                                    *)
(***************************************************************************)
\* sync_ref_exchange_lp_token_infos and its callback: what the exchange reports
SyncLpInfos(v) ==
    /\ value' = v
    /\ UNCHANGED <<exchangeVars, seed, supplyVars, positionVars, locked, calls>>

InfoExpires ==
    /\ value' = Stale
    /\ UNCHANGED <<exchangeVars, seed, supplyVars, positionVars, locked, calls>>

Market == \/ \E v \in Values : SyncLpInfos(v)
          \/ InfoExpires

Next ==
    \/ \E a \in Providers : Exchange(a)
    \/ \E a \in Accounts : Lend(a) \/ Settles(a)
    \/ ExchangeReceives
    \/ FarmReceives
    \/ BurrowReceives
    \/ ExchangeHears
    \/ Market

Spec == Init /\ [][Next]_vars

-----------------------------------------------------------------------------
(***************************************************************************)
(* Properties.                                                             *)
(***************************************************************************)

\* No share is moved or burnt while a shadow of it is cast: the account keeps
\* at least as many as either contract counts on.
SharesCoverShadows ==
    \A a \in Accounts : shares[a] >= Most(record[a].farm, record[a].burrow)

\* the settlement of a liquidation or a forced closing of a is under way
Settling(a) ==
    \E i \in DOMAIN calls :
        \/ calls[i].kind \in {"Liquidate", "ForceClose"} /\ calls[i].account = a
        \/ calls[i].kind = "Liquidate" /\ calls[i].liquidator = a

\* what call i has added to the record of a and not to the lending contract,
\* or taken from the one and not from the other
Ahead(i, a) ==
    LET c == calls[i]
    IN  IF c.account # a THEN 0
        ELSE IF c.kind = "ToBurrowland" /\ c.stage # "done" THEN c.amount
        ELSE IF c.kind = "FromBurrowland" /\ c.stage = "done" THEN c.amount
        ELSE IF c.kind \in {"Liquidate", "ForceClose"} /\ c.stage = "done" THEN -c.amount
        ELSE 0

\* The exchange's record of the shadows in the lending contract is what that
\* contract counts, give or take the calls under way, in any order of their
\* effects and failures; but for an account whose lock is never released.
BurrowShadowsMatch ==
    \A a \in Accounts :
        (a \in locked => Settling(a)) =>
            record[a].burrow = lp[a] + collateral[a]
                                  + Total([i \in DOMAIN calls |-> Ahead(i, a)])

\* Every share of the dollar's pools is some account's, and the LP tokens the
\* accounts count are part of the asset's supply.
SharesConserved ==
    /\ usd.supplied.shares = Total(dollars)
    /\ usd.borrowed.shares = Total(debt)
    /\ lpSupply >= Total([a \in Accounts |-> lp[a] + collateral[a]])

\* asset.rs:15: the supply of an asset is the sum of what accounts supplied,
\* "including collateral, but excluding reserved".
LpSupplyIsHeld == lpSupply = Total([a \in Accounts |-> lp[a] + collateral[a]])

\* docs/lp_as_collateral.md:17: the exchange uncasts what it burns, so that the
\* farm counts no more of an account's shares than there are.
StakesAreBacked ==
    \A a \in Accounts :
        (\A i \in DOMAIN calls : calls[i].account # a) => seed[a] <= shares[a]

\* Only the market puts a healthy LP position at risk: no call does, and no
\* outcome that arrives late.
OnlyMarketHurts ==
    [][Market \/ \A a \in Accounts :
          AtRisk(usd', collateral'[a], debt'[a], value') => AtRisk(usd, collateral[a], debt[a], value)]_vars

\* Receipts are delivered and callbacks run; no account has to act.
Fairness ==
    /\ WF_vars(ExchangeReceives)
    /\ \A a \in Accounts : WF_vars(Settles(a))

FairSpec == Spec /\ Fairness

\* the settlement of a, under way
CallsOf(a) == {i \in DOMAIN calls : /\ calls[i].kind \in {"Liquidate", "ForceClose"}
                                    /\ calls[i].account = a}

OfSettlement(a, f(_), default) ==
    IF CallsOf(a) = {} THEN default ELSE f(CHOOSE i \in CallsOf(a) : TRUE)

Phase(i)   == CASE calls[i].stage = "sent" -> "asked"
                [] calls[i].stage = "done" -> "burnt"
                [] calls[i].stage = "failed" -> "refused"
Parties(i) == {calls[i].account} \cup
              (IF calls[i].kind = "Liquidate" THEN {calls[i].liquidator} ELSE {})
Burnt(i)   == IF calls[i].stage = "done" THEN calls[i].amount ELSE 0

\* What this module says of liquidations and forced closings, as the abstract
\* Settlement sees it.
Commit == INSTANCE Settlement WITH
              phase   <- [a \in Accounts |-> OfSettlement(a, Phase, "idle")],
              parties <- [a \in Accounts |-> OfSettlement(a, Parties, {})],
              held    <- locked,
              stuck   <- {a \in locked : ~ Settling(a)},
              counted <- [a \in Accounts |-> lp[a] + collateral[a]],
              covered <- [a \in Accounts |-> record[a].burrow],
              burnt   <- [a \in Accounts |-> OfSettlement(a, Burnt, 0)]

\* Liquidations and forced closings, done by calls that run in between others,
\* look like the atomic steps of Settlement, and each of them ends: the locks
\* keep every other settlement of the accounts out, nothing that arrives in
\* between makes the callback take anything but what was burnt, and an account
\* the exchange refuses to burn for, or that is forced closed, is free again.
\* The callback of a liquidation may abort, and then both accounts are stuck.
ImplementsSettlement == Commit!FairSpec

\* docs/user_storage_management.md:175-176 and 225: the callbacks of liquidations
\* and forced closings unlock the accounts, and saving by force is to prevent
\* locks for ever.
LocksAreReleased == \A a \in Accounts : a \in locked ~> a \notin locked
=============================================================================
