------------------------------- MODULE Oracles -------------------------------
(***************************************************************************)
(* The prices that calls of contracts/contract are decided by.             *)
(*                                                                         *)
(* A client sends a list of actions.  With the pyth oracle, the contract   *)
(* works out which tokens the list involves, asks the oracle for the price *)
(* of each feed and, for a staking token, asks the token for its rate; in  *)
(* a later callback it puts the prices together and runs the list on the   *)
(* account as it then is.  With the price oracle, the client calls the     *)
(* oracle, and the oracle calls the contract with its prices.  In between  *)
(* prices move, the account changes, answers of other calls arrive, and    *)
(* the owner may change what a token is priced by.  Anyone may ask a       *)
(* staking token for its rate besides, to have it recorded.                *)
(*                                                                         *)
(* A list is checked for risk once, after its last action; a list of       *)
(* margin actions at each removal of collateral.                           *)
(*                                                                         *)
(* Rates of the pools, limits and payments are Lending's: here a share is  *)
(* a token.                                                                *)
(***************************************************************************)
EXTENDS Integers, Sequences, FiniteSets, Folds, Functions, SequencesExt

CONSTANTS
    Accounts,           \* registered accounts, with a margin account each
    Tokens,             \* the listed tokens
    Feeds,              \* price identifiers of pyth
    NoCall, NoInfo, NoPrice, NoAnswer, NoRecord,
    FeedOf,             \* the feed a token is quoted by in the market
    Steady,             \* the price of a token that has none, and never moves
    One,                \* ONE_NEAR: a rate of 1
    ValidDuration,      \* pyth_price_valid_duration_sec
    MaxStaleness,       \* maximum_staleness_duration_sec
    MaxRecency,         \* maximum_recency_duration_sec, as the oracle has it
    MaxRatio,           \* MAX_RATIO
    NoLimit,            \* max_change_rate of an asset that has none
    InitialMaxChange,   \* max_change_rate of the staking tokens at first, of MaxRatio
    CollateralWeight,   \* volatility_ratio of a token, of MaxRatio
    DebtWeight,         \* its inverse over the same denominator
    MarginTokens,       \* token_c, token_d and token_p of margin positions
    SafetyBuffer,       \* min_safety_buffer, of MaxRatio
    MaxLeverage,        \* max_leverage_rate
    InitialAccount,     \* what accounts own and owe at first
    InitialReserve,     \* asset.reserved at first
    InitialMargin,      \* a margin position of each account
    InitialInfo,        \* token_pyth_info at first
    InfoChanges,        \* bound: what the owner may set token_pyth_info to
    InitialPrice,       \* the price of each feed at first
    Lists,              \* bound: the lists of actions each account sends
    MarginLists,        \* bound: the lists of margin actions each sends
    PriceLists,         \* bound: those also sent through the price oracle
    FeedPrices,         \* bound: the prices published on each feed
    Rates,              \* bound: the rates of each staking token
    MaxChanges,         \* bound: what the owner may set max_change_rate to
    Switches,           \* bound: what the owner switches enable_pyth_oracle to
    Syncers,            \* bound: the accounts that have rates recorded
    MaxCalls,           \* bound: the calls made
    MaxTime             \* bound: the time the clock reaches

SentLists == UNION {Lists[a] \cup MarginLists[a] : a \in Accounts}

InfoType == [default : Nat \cup {NoPrice}, feed : Feeds, extra : BOOLEAN]

\* what an answer is for is told by its name (get_extra_call_flag)
ASSUME TokenAssumption == /\ IsFiniteSet(Accounts) /\ IsFiniteSet(Tokens)
                          /\ Feeds \cap Tokens = {}
                          /\ FeedOf \in [Tokens \ DOMAIN Steady -> Feeds]
                          /\ DOMAIN Rates \subseteq DOMAIN FeedOf
ASSUME RatioAssumption == /\ One \in Nat \ {0} /\ MaxRatio \in Nat \ {0}
                          /\ SafetyBuffer \in 0 .. MaxRatio
                          /\ MaxLeverage \in Nat
                          /\ {ValidDuration, MaxStaleness, MaxRecency, MaxTime} \subseteq Nat

\* collateral counts for its worth or less, a debt for its worth or more
ASSUME WeightAssumption ==
    /\ CollateralWeight \in [Tokens -> 0 .. MaxRatio]
    /\ DebtWeight \in [Tokens -> Nat] /\ \A t \in Tokens : MaxRatio <= DebtWeight[t]

\* a rate may grow by at most max_change_rate of what was recorded, if it is set
ASSUME ChangeAssumption ==
    /\ InitialMaxChange \in [DOMAIN Rates -> 0 .. MaxRatio \cup {NoLimit}]
    /\ \A t \in DOMAIN Rates : MaxChanges[t] \subseteq 0 .. MaxRatio \cup {NoLimit}

ASSUME SwitchAssumption == Switches \subseteq BOOLEAN /\ Syncers \subseteq Accounts

ASSUME PriceAssumption ==
    /\ Steady \in [DOMAIN Steady -> Nat] /\ InitialPrice \in [Feeds -> Nat]
    /\ \A f \in Feeds : FeedPrices[f] \subseteq Nat
    /\ \A t \in DOMAIN Rates : Rates[t] \subseteq Nat

\* the owner prices a token by its own feed and a staking token by its rate
\* too, and gives a default to a token that no feed quotes
Truthful(t, i) ==
    IF t \in DOMAIN FeedOf THEN i.feed = FeedOf[t] /\ i.extra = (t \in DOMAIN Rates)
    ELSE i.default # NoPrice

ASSUME InfoAssumption ==
    \A t \in Tokens :
        /\ InfoChanges[t] \subseteq InfoType
        /\ \A i \in InfoChanges[t] : Truthful(t, i)
        /\ InitialInfo[t] # NoInfo => InitialInfo[t] \in InfoType /\ Truthful(t, InitialInfo[t])

VARIABLES
    account,    \* account[a]: supply, and the regular position
    reserved,   \* reserved[t]: the reserve of each asset
    margin,     \* margin[a]: supply of token_c, and a margin position
    info,       \* token_pyth_info
    record,     \* last_staking_token_prices
    max_change, \* max_change_rate of the staking tokens
    sync,       \* sync[t]: a call of sync_staking_token_price, at most one
    pyth_on,    \* enable_pyth_oracle; the other oracle is on otherwise
    call,       \* call[a]: a list of a that waits for prices, at most one
    feed,       \* feed[f]: the price the publisher published last
    rate,       \* rate[t]: what the extra call of a staking token returns
    now,        \* the block timestamp
    published,  \* history: all prices published, with their times
    sent        \* history: sent[a], the number of calls that a made
\* and call[a].rates, the rates when the call was sent, is history

ledgers  == <<account, reserved, margin>>
settings == <<info, pyth_on, max_change>>
market   == <<feed, rate, now, published>>
vars     == <<ledgers, settings, market, record, sync, call, sent>>

QuoteType == [price : Nat, time : Nat]

AccountType == [free : [Tokens -> Nat], collateral : [Tokens -> Nat],
                borrowed : [Tokens -> Nat], exists : BOOLEAN]

MarginType == [free : Nat, c : Nat, d : Nat, p : Nat]

\* the actions of a list that prices decide about or that move what they judge
ActionType ==
    [do : {"increase", "decrease", "borrow", "repay"}, token : Tokens, amount : Nat]
    \cup [do : {"liquidate"}, victim : Accounts, in : Tokens, in_amount : Nat,
          out : Tokens, out_amount : Nat]
    \cup [do : {"force_close"}, victim : Accounts]

MarginActionType == [do : {"margin_increase", "margin_decrease"}, amount : Nat]

ASSUME ListAssumption ==
    /\ MarginTokens \in [c : Tokens, d : Tokens, p : Tokens]
    /\ \A a \in Accounts :
        /\ Lists[a] \subseteq Seq(ActionType)
        /\ MarginLists[a] \subseteq Seq(MarginActionType)
        /\ PriceLists[a] \subseteq Lists[a] \cup MarginLists[a]

\* an account has a position if it pledged or owes anything
ASSUME InitialAssumption ==
    /\ InitialAccount \in [Accounts -> AccountType]
    /\ InitialReserve \in [Tokens -> Nat]
    /\ InitialMargin \in [Accounts -> MarginType]
    /\ InitialInfo \in [Tokens -> InfoType \cup {NoInfo}]
    /\ \A a \in Accounts, t \in Tokens :
        InitialAccount[a].collateral[t] > 0 \/ InitialAccount[a].borrowed[t] > 0
            => InitialAccount[a].exists

\* a call that pyth has yet to answer, or one with the other oracle's prices
IsCall(c) ==
    /\ c.margin \in BOOLEAN /\ c.list \in SentLists
    /\ c.rates \in [DOMAIN Rates -> Nat]
    /\ \/ /\ c.oracle = "pyth"
          /\ c = [oracle |-> "pyth", margin |-> c.margin, list |-> c.list,
                  involved |-> c.involved, defaults |-> c.defaults,
                  answers |-> c.answers, rates |-> c.rates]
          /\ c.involved \subseteq Tokens
          /\ c.defaults = [t \in DOMAIN c.defaults |-> c.defaults[t]]
          /\ DOMAIN c.defaults \subseteq c.involved
          /\ \A t \in DOMAIN c.defaults : c.defaults[t] \in Nat
          /\ c.answers = [f \in DOMAIN c.answers |-> c.answers[f]]
          /\ \A f \in DOMAIN c.answers :
                \/ c.answers[f] = NoAnswer
                \/ f \in Feeds /\ c.answers[f] \in QuoteType
                \/ f \in Tokens /\ c.answers[f] \in Nat
       \/ /\ c.oracle = "price"
          /\ c = [oracle |-> "price", margin |-> c.margin, list |-> c.list,
                  prices |-> c.prices, timestamp |-> c.timestamp, rates |-> c.rates]
          /\ c.prices = [t \in DOMAIN c.prices |-> c.prices[t]]
          /\ DOMAIN c.prices \subseteq Tokens
          /\ \A t \in DOMAIN c.prices : c.prices[t] \in Nat
          /\ c.timestamp \in Nat

Init ==
    /\ account = InitialAccount
    /\ reserved = InitialReserve
    /\ margin = InitialMargin
    /\ info = InitialInfo
    /\ record = [t \in DOMAIN Rates |-> NoRecord]
    /\ max_change = InitialMaxChange
    /\ sync = [t \in DOMAIN Rates |-> NoCall]
    /\ pyth_on \in BOOLEAN
    /\ call = [a \in Accounts |-> NoCall]
    /\ feed = [f \in Feeds |-> [price |-> InitialPrice[f], time |-> 0]]
    /\ published = [f \in Feeds |-> {feed[f]}]
    /\ rate = [t \in DOMAIN Rates |-> One]
    /\ now = 0
    /\ sent = [a \in Accounts |-> 0]

-----------------------------------------------------------------------------
(***************************************************************************)
(* The health of an account's position under the prices of a call, a       *)
(* function on the tokens it has prices for.  A price that is needed and   *)
(* missing aborts the call.                                                *)
(***************************************************************************)
Total(f) == FoldFunction(+, 0, f)

Pledged(acct)  == {t \in Tokens : acct.collateral[t] > 0}
Borrowed(acct) == {t \in Tokens : acct.borrowed[t] > 0}

\* get_account_position_involved_tokens
PositionTokens(acct) ==
    IF acct.exists THEN Pledged(acct) \cup Borrowed(acct) ELSE {}

CollateralSum(acct, q, weight) ==
    Total([t \in Pledged(acct) |-> acct.collateral[t] * q[t] * weight[t]])

BorrowedSum(acct, q, weight) ==
    Total([t \in Borrowed(acct) |-> acct.borrowed[t] * q[t] * weight[t]])

\* compute_max_discount is (debt - collateral) / debt / 2 when that is positive
AtRisk(acct, q) ==
    BorrowedSum(acct, q, DebtWeight) > CollateralSum(acct, q, CollateralWeight)

\* it needs no price when there is no debt
CanAssess(acct, q) ==
    Borrowed(acct) = {} \/ PositionTokens(acct) \subseteq DOMAIN q

Healthy(acct, q) == CanAssess(acct, q) /\ (Borrowed(acct) = {} \/ ~ AtRisk(acct, q))

\* of two positions at risk, the first has the smaller discount
LessDiscount(acct1, acct2, q) ==
    LET debt1 == BorrowedSum(acct1, q, DebtWeight)
        debt2 == BorrowedSum(acct2, q, DebtWeight)
        coll1 == CollateralSum(acct1, q, CollateralWeight)
        coll2 == CollateralSum(acct2, q, CollateralWeight)
    IN  (debt1 - coll1) * debt2 < (debt2 - coll2) * debt1

\* available_amount of an asset: what no loan has taken
Available(accts, res, t) ==
    res[t] + Total([a \in Accounts |->
        accts[a].free[t] + accts[a].collateral[t] - accts[a].borrowed[t]])

-----------------------------------------------------------------------------
(***************************************************************************)
(* The actions of a list.  The handler holds a copy of the caller's        *)
(* account from the first action to the last, and reads and writes the     *)
(* account of a victim in between: `w` is that copy, the stored accounts   *)
(* and the reserves, and whether every action so far has passed.           *)
(***************************************************************************)
\* a position goes with its last collateral when nothing is owed; repaying
\* the last debt afterwards would leave an empty one
Unpledge(acct, t, n) ==
    LET taken == [acct EXCEPT !.collateral[t] = @ - n]
    IN  [taken EXCEPT !.exists = Pledged(taken) # {} \/ Borrowed(taken) # {}]

CanUnpledge(acct, t, n) == acct.exists /\ 0 < n /\ n <= acct.collateral[t]

CanRepay(payer, debtor, t, n) ==
    debtor.exists /\ 0 < n /\ n <= debtor.borrowed[t] /\ n <= payer.free[t]

Increase(w, x) ==
    [w EXCEPT !.ok = 0 < x.amount /\ x.amount <= w.own.free[x.token],
              !.own.free[x.token] = @ - x.amount,
              !.own.collateral[x.token] = @ + x.amount,
              !.own.exists = TRUE]

Decrease(w, x) ==
    [w EXCEPT !.ok = CanUnpledge(w.own, x.token, x.amount),
              !.own = [Unpledge(w.own, x.token, x.amount)
                          EXCEPT !.free[x.token] = @ + x.amount]]

\* the loan is the caller's supply at first, so the tokens stay available
Borrow(a, w, x) ==
    [w EXCEPT !.ok = /\ w.own.exists /\ 0 < x.amount
                     /\ x.amount <= Available([w.accounts EXCEPT ![a] = w.own],
                                              w.reserved, x.token),
              !.own.free[x.token] = @ + x.amount,
              !.own.borrowed[x.token] = @ + x.amount]

Repay(w, x) ==
    [w EXCEPT !.ok = CanRepay(w.own, w.own, x.token, x.amount),
              !.own.free[x.token] = @ - x.amount,
              !.own.borrowed[x.token] = @ - x.amount]

\* the liquidator pays what is repaid and is paid what is taken
Exchanged(free, x) ==
    [[free EXCEPT ![x.in] = @ - x.in_amount] EXCEPT ![x.out] = @ + x.out_amount]

\* slip: the victim may be the caller, whose copy is then stale
LiquidateAnyone(a, w, x, q) ==
    LET victim == w.accounts[x.victim]
        repaid == [victim EXCEPT !.borrowed[x.in] = @ - x.in_amount]
        left   == Unpledge(repaid, x.out, x.out_amount)
        debt   == BorrowedSum(victim, q, DebtWeight)
        coll   == CollateralSum(victim, q, CollateralWeight)
        allowed ==
            /\ Borrowed(victim) # {}
            /\ CanAssess(victim, q)
            /\ AtRisk(victim, q)
            /\ CanRepay(w.own, victim, x.in, x.in_amount)
            /\ CanUnpledge(repaid, x.out, x.out_amount)
            /\ x.out_amount * q[x.out] * (debt + coll)
                 <= x.in_amount * q[x.in] * 2 * debt
            /\ AtRisk(left, q)
            /\ LessDiscount(left, victim, q)
    IN  [w EXCEPT !.ok = allowed,
                  !.own.free = Exchanged(@, x),
                  !.accounts[x.victim] = left]

\* internal_liquidate: x.in repays debt of the victim, x.out is taken for it
Liquidate(a, w, x, q) ==
    LET victim == w.accounts[x.victim]
        repaid == [victim EXCEPT !.borrowed[x.in] = @ - x.in_amount]
        left   == Unpledge(repaid, x.out, x.out_amount)
        debt   == BorrowedSum(victim, q, DebtWeight)
        coll   == CollateralSum(victim, q, CollateralWeight)
        allowed ==
            /\ a # x.victim
            /\ Borrowed(victim) # {}
            /\ CanAssess(victim, q)
            /\ AtRisk(victim, q)
            /\ CanRepay(w.own, victim, x.in, x.in_amount)
            /\ CanUnpledge(repaid, x.out, x.out_amount)
            /\ x.out_amount * q[x.out] * (debt + coll)
                 <= x.in_amount * q[x.in] * 2 * debt
            /\ AtRisk(left, q)
            /\ LessDiscount(left, victim, q)
    IN  [w EXCEPT !.ok = allowed,
                  !.own.free = Exchanged(@, x),
                  !.accounts[x.victim] = left]

\* slip: whether the debt is worth more than the collateral is not asked
ForceCloseAny(a, w, x, q) ==
    LET victim == w.accounts[x.victim]
        left   == [t \in Tokens |->
                     w.reserved[t] + victim.collateral[t] - victim.borrowed[t]]
        allowed ==
            /\ a # x.victim
            /\ victim.exists
            /\ PositionTokens(victim) \subseteq DOMAIN q
            /\ \A t \in Tokens : left[t] >= 0
    IN  [w EXCEPT !.ok = allowed,
                  !.reserved = left,
                  !.accounts[x.victim] =
                      [@ EXCEPT !.collateral = [t \in Tokens |-> 0],
                                !.borrowed = [t \in Tokens |-> 0],
                                !.exists = FALSE]]

\* internal_force_close: the reserve takes the collateral and pays the debt
ForceClose(a, w, x, q) ==
    LET victim == w.accounts[x.victim]
        left   == [t \in Tokens |->
                     w.reserved[t] + victim.collateral[t] - victim.borrowed[t]]
        allowed ==
            /\ a # x.victim
            /\ victim.exists
            /\ PositionTokens(victim) \subseteq DOMAIN q
            /\ \A t \in Tokens : left[t] >= 0
            /\ BorrowedSum(victim, q, [t \in Tokens |-> 1])
                 > CollateralSum(victim, q, [t \in Tokens |-> 1])
    IN  [w EXCEPT !.ok = allowed,
                  !.reserved = left,
                  !.accounts[x.victim] =
                      [@ EXCEPT !.collateral = [t \in Tokens |-> 0],
                                !.borrowed = [t \in Tokens |-> 0],
                                !.exists = FALSE]]

Perform(a, w, x, q) ==
    CASE x.do = "increase"    -> Increase(w, x)
      [] x.do = "decrease"    -> Decrease(w, x)
      [] x.do = "borrow"      -> Borrow(a, w, x)
      [] x.do = "repay"       -> Repay(w, x)
      [] x.do = "liquidate"   -> Liquidate(a, w, x, q)
      [] x.do = "force_close" -> ForceClose(a, w, x, q)

\* slip: only the last action decides
LastNeedsRiskCheck(list) == Last(list).do \in {"decrease", "borrow"}

\* an action of the list adds the position to risk_check_positions
NeedsRiskCheck(list) == \E x \in ToSet(list) : x.do \in {"decrease", "borrow"}

\* internal_execute, and the caller's account saved at its end
Executes(a, list, q) ==
    LET start == [ok |-> TRUE, own |-> account[a], accounts |-> account,
                  reserved |-> reserved]
        end   == FoldLeft(LAMBDA w, x : IF w.ok THEN Perform(a, w, x, q) ELSE w,
                          start, list)
    IN  /\ end.ok
        /\ NeedsRiskCheck(list) => Healthy(end.own, q)
        /\ account' = [end.accounts EXCEPT ![a] = end.own]
        /\ reserved' = end.reserved
        /\ UNCHANGED margin

-----------------------------------------------------------------------------
(***************************************************************************)
(* Margin actions: each removal of collateral is checked by itself.        *)
(***************************************************************************)
MarginValue(m, q) == m.c * q[MarginTokens.c] + m.p * q[MarginTokens.p]
MarginDebt(m, q)  == m.d * q[MarginTokens.d]

\* below the forceclose line, or between it and the liquidation line
MarginAtRisk(m, q) ==
    MarginValue(m, q) * (MaxRatio - SafetyBuffer) < MarginDebt(m, q) * MaxRatio

Overleveraged(m, q) == MarginDebt(m, q) > MaxLeverage * m.c * q[MarginTokens.c]

MarginIncrease(m, x) ==
    [ok  |-> x.amount <= m.own.free,
     own |-> [m.own EXCEPT !.free = @ - x.amount, !.c = @ + x.amount]]

MarginDecrease(m, x, q) ==
    LET left == [m.own EXCEPT !.free = @ + x.amount, !.c = @ - x.amount]
    IN  [ok |-> /\ left.c > 0
                /\ {MarginTokens.c, MarginTokens.d, MarginTokens.p} \subseteq DOMAIN q
                /\ ~ MarginAtRisk(left, q)
                /\ ~ Overleveraged(left, q),
         own |-> left]

MarginExecutes(a, list, q) ==
    LET Perform1(m, x) == IF ~ m.ok THEN m
                          ELSE IF x.do = "margin_increase" THEN MarginIncrease(m, x)
                          ELSE MarginDecrease(m, x, q)
        end == FoldLeft(Perform1, [ok |-> TRUE, own |-> margin[a]], list)
    IN  /\ end.ok
        /\ margin' = [margin EXCEPT ![a] = end.own]
        /\ UNCHANGED <<account, reserved>>

Runs(on_margin, a, list, q) ==
    IF on_margin THEN MarginExecutes(a, list, q) ELSE Executes(a, list, q)

-----------------------------------------------------------------------------
(***************************************************************************)
(* The tokens a list involves, as far as the account shows now.            *)
(***************************************************************************)
\* collateral is involved when it opens the position and a loan is to follow
InvolvedBy(a, x, list) ==
    CASE x.do = "increase" ->
            IF ~ account[a].exists /\ \E y \in ToSet(list) : y.do = "borrow"
            THEN {x.token} ELSE {}
      [] x.do = "decrease" -> PositionTokens(account[a])
      [] x.do = "borrow" -> {x.token} \cup PositionTokens(account[a])
      [] x.do = "repay" -> {}
      [] x.do \in {"liquidate", "force_close"} -> PositionTokens(account[x.victim])

InvolvedTokens(a, list) == UNION {InvolvedBy(a, x, list) : x \in ToSet(list)}

MarginInvolvedTokens(list) ==
    IF \E x \in ToSet(list) : x.do = "margin_decrease"
    THEN {MarginTokens.p, MarginTokens.d} ELSE {}

Involved(on_margin, a, list) ==
    IF on_margin THEN MarginInvolvedTokens(list) ELSE InvolvedTokens(a, list)

\* the feeds to ask, each once, and the staking tokens to ask for their rate
Asked(tokens) ==
    {info[t].feed : t \in tokens} \cup {t \in tokens : info[t].extra}

CountCall(a) == Total(sent) < MaxCalls /\ sent' = [sent EXCEPT ![a] = @ + 1]

AskOracle(on_margin, a, list) ==
    LET involved == Involved(on_margin, a, list)
        promised == {t \in involved : info[t].default = NoPrice}
        defaults == [t \in involved \ promised |-> info[t].default]
    IN  /\ call[a] = NoCall
        /\ CountCall(a)
        /\ involved # {} => pyth_on
        /\ NoInfo \notin {info[t] : t \in involved}
        /\ IF promised = {}
           THEN Runs(on_margin, a, list, defaults) /\ UNCHANGED call
           ELSE /\ call' = [call EXCEPT ![a] =
                       [oracle |-> "pyth", margin |-> on_margin, list |-> list,
                        involved |-> involved, defaults |-> defaults,
                        answers |-> [f \in Asked(promised) |-> NoAnswer],
                        rates |-> rate]]
                /\ UNCHANGED ledgers
        /\ UNCHANGED <<settings, market, record, sync>>

ExecuteWithPyth(a, list) == AskOracle(FALSE, a, list)
MarginExecuteWithPyth(a, list) == AskOracle(TRUE, a, list)

\* one promise of a call is answered: by pyth for a feed, by the token itself
Answer(a, f) ==
    /\ call[a] # NoCall
    /\ call[a].oracle = "pyth"
    /\ f \in DOMAIN call[a].answers
    /\ call[a].answers[f] = NoAnswer
    /\ call' = [call EXCEPT ![a].answers[f] = IF f \in Feeds THEN feed[f] ELSE rate[f]]
    /\ UNCHANGED <<ledgers, settings, market, record, sync, sent>>

-----------------------------------------------------------------------------
(***************************************************************************)
(* The callback: generate_all_prices from the answers and from             *)
(* token_pyth_info as it is now, then the list on the account as it is     *)
(* now.  When anything aborts, nothing is changed and the list is lost.    *)
(***************************************************************************)
Fresh(quote) == quote.time + ValidDuration >= now

\* slip: the lower bound is left out
RateNotTooHigh(t, r) ==
    record[t] # NoRecord /\ max_change[t] # NoLimit =>
        r <= record[t] + (record[t] * max_change[t]) \div MaxRatio

\* update_staking_token_price_record lets the rate pass
RateAccepted(t, r) ==
    record[t] # NoRecord /\ max_change[t] # NoLimit =>
        /\ record[t] <= r
        /\ r <= record[t] + (record[t] * max_change[t]) \div MaxRatio

Answered(c) == \A f \in DOMAIN c.answers : c.answers[f] # NoAnswer

\* the tokens whose price the callback makes from answers
ToPrice(c) == c.involved \ DOMAIN c.defaults

CanPrice(c, t) ==
    /\ info[t].feed \in DOMAIN c.answers
    /\ Fresh(c.answers[info[t].feed])
    /\ info[t].extra => t \in DOMAIN c.answers /\ RateAccepted(t, c.answers[t])

PriceOf(c, t) ==
    LET price == c.answers[info[t].feed].price
    IN  IF info[t].extra THEN (price * c.answers[t]) \div One ELSE price

AllPrices(c) ==
    [t \in c.involved |->
        IF t \in DOMAIN c.defaults THEN c.defaults[t] ELSE PriceOf(c, t)]

Callback(a) ==
    LET c == call[a]
    IN  /\ c # NoCall
        /\ c.oracle = "pyth"
        /\ Answered(c)
        /\ \A t \in ToPrice(c) : CanPrice(c, t)
        /\ Runs(c.margin, a, c.list, AllPrices(c))
        /\ record' = [t \in DOMAIN record |->
                         IF t \in ToPrice(c) /\ info[t].extra
                         THEN c.answers[t] ELSE record[t]]
        /\ call' = [call EXCEPT ![a] = NoCall]
        /\ UNCHANGED <<settings, market, sync, sent>>

\* a promise failed, or the callback aborted
CallFails(a) ==
    /\ call[a] # NoCall
    /\ call' = [call EXCEPT ![a] = NoCall]
    /\ UNCHANGED <<ledgers, settings, market, record, sync, sent>>

-----------------------------------------------------------------------------
(***************************************************************************)
(* The price oracle, for which a client asks it to call the contract with  *)
(* the prices that are recent enough.                                      *)
(***************************************************************************)
MarketPrice(t) ==
    IF t \in DOMAIN Steady THEN Steady[t]
    ELSE IF t \in DOMAIN Rates THEN (feed[FeedOf[t]].price * rate[t]) \div One
    ELSE feed[FeedOf[t]].price

AskPriceOracle(on_margin, a, list) ==
    LET recent == {t \in Tokens :
                     t \in DOMAIN FeedOf => feed[FeedOf[t]].time + MaxRecency >= now}
    IN  /\ call[a] = NoCall
        /\ CountCall(a)
        /\ call' = [call EXCEPT ![a] =
               [oracle |-> "price", margin |-> on_margin, list |-> list,
                prices |-> [t \in recent |-> MarketPrice(t)], timestamp |-> now,
                rates |-> rate]]
        /\ UNCHANGED <<ledgers, settings, market, record, sync>>

OracleOnCall(a) ==
    LET c == call[a]
    IN  /\ c # NoCall
        /\ c.oracle = "price"
        /\ ~ pyth_on
        /\ now - c.timestamp <= MaxStaleness
        /\ Runs(c.margin, a, c.list, c.prices)
        /\ call' = [call EXCEPT ![a] = NoCall]
        /\ UNCHANGED <<settings, market, record, sync, sent>>

-----------------------------------------------------------------------------
(***************************************************************************)
(* sync_staking_token_price, which anyone may call: the token is asked for *)
(* its rate, and a callback records it.                                    *)
(***************************************************************************)
SyncRate(a, t) ==
    /\ sync[t] = NoCall
    /\ CountCall(a)
    /\ info[t] # NoInfo
    /\ info[t].extra
    /\ sync' = [sync EXCEPT ![t] = NoAnswer]
    /\ UNCHANGED <<ledgers, settings, market, record, call>>

\* the token answers
SyncAnswer(t) ==
    /\ sync[t] = NoAnswer
    /\ sync' = [sync EXCEPT ![t] = rate[t]]
    /\ UNCHANGED <<ledgers, settings, market, record, call, sent>>

SyncCallback(t) ==
    /\ sync[t] \in Nat
    /\ RateAccepted(t, sync[t])
    /\ record' = [record EXCEPT ![t] = sync[t]]
    /\ sync' = [sync EXCEPT ![t] = NoCall]
    /\ UNCHANGED <<ledgers, settings, market, call, sent>>

\* the promise failed, or the callback aborted
SyncFails(t) ==
    /\ sync[t] # NoCall
    /\ sync' = [sync EXCEPT ![t] = NoCall]
    /\ UNCHANGED <<ledgers, settings, market, record, call, sent>>

-----------------------------------------------------------------------------
(***************************************************************************)
(* The owner and the market.                                               *)
(***************************************************************************)
EnableOracle(pyth) ==
    /\ pyth_on # pyth
    /\ pyth_on' = pyth
    /\ UNCHANGED <<ledgers, market, info, max_change, record, sync, call, sent>>

\* add_token_pyth_info and update_token_pyth_info
SetTokenPythInfo(t, i) ==
    /\ info' = [info EXCEPT ![t] = i]
    /\ UNCHANGED <<ledgers, market, pyth_on, max_change, record, sync, call, sent>>

\* update_asset_max_change_rate
SetMaxChangeRate(t, m) ==
    /\ max_change' = [max_change EXCEPT ![t] = m]
    /\ UNCHANGED <<ledgers, market, info, pyth_on, record, sync, call, sent>>

Publish(f, p) ==
    LET quote == [price |-> p, time |-> now]
    IN  /\ feed[f].time < now
        /\ feed' = [feed EXCEPT ![f] = quote]
        /\ published' = [published EXCEPT ![f] = @ \cup {quote}]
        /\ UNCHANGED <<ledgers, settings, record, sync, call, rate, now, sent>>

\* staking rewards: a rate only grows
RateGrows(t, r) ==
    /\ r > rate[t]
    /\ rate' = [rate EXCEPT ![t] = r]
    /\ UNCHANGED <<ledgers, settings, record, sync, call, feed, now, published, sent>>

Tick ==
    /\ now < MaxTime
    /\ now' = now + 1
    /\ UNCHANGED <<ledgers, settings, record, sync, call, feed, rate, published, sent>>

Next ==
    \/ \E a \in Accounts :
        \/ \E list \in Lists[a] : ExecuteWithPyth(a, list)
        \/ \E list \in MarginLists[a] : MarginExecuteWithPyth(a, list)
        \/ \E list \in PriceLists[a] : AskPriceOracle(list \in MarginLists[a], a, list)
        \/ \E f \in Feeds \cup Tokens : Answer(a, f)
        \/ Callback(a)
        \/ OracleOnCall(a)
        \/ CallFails(a)
    \/ \E on \in Switches : EnableOracle(on)
    \/ \E t \in Tokens : \E i \in InfoChanges[t] : SetTokenPythInfo(t, i)
    \/ \E f \in Feeds : \E p \in FeedPrices[f] : Publish(f, p)
    \/ \E t \in DOMAIN Rates :
        \/ \E a \in Syncers : SyncRate(a, t)
        \/ SyncAnswer(t) \/ SyncCallback(t) \/ SyncFails(t)
        \/ \E m \in MaxChanges[t] : SetMaxChangeRate(t, m)
        \/ \E r \in Rates[t] : RateGrows(t, r)
    \/ Tick

Spec == Init /\ [][Next]_vars

-----------------------------------------------------------------------------
TypeOK ==
    /\ account \in [Accounts -> AccountType]
    /\ reserved \in [Tokens -> Nat]
    /\ margin \in [Accounts -> MarginType]
    /\ info \in [Tokens -> InfoType \cup {NoInfo}]
    /\ record \in [DOMAIN Rates -> Nat \cup {NoRecord}]
    /\ max_change \in [DOMAIN Rates -> 0 .. MaxRatio \cup {NoLimit}]
    /\ sync \in [DOMAIN Rates -> Nat \cup {NoCall, NoAnswer}]
    /\ pyth_on \in BOOLEAN
    /\ \A a \in Accounts : call[a] # NoCall => IsCall(call[a])
    /\ feed \in [Feeds -> QuoteType]
    /\ rate \in [DOMAIN Rates -> Nat]
    /\ now \in 0 .. MaxTime
    /\ sent \in [Accounts -> Nat]

-----------------------------------------------------------------------------
(***************************************************************************)
(* Prices the market can answer for at a step: one price for each feed, no *)
(* older than the contract allows, one rate for each staking token that it *)
(* had since the call was sent, and the default of a token as the owner    *)
(* has set it, now or when the call was sent.                              *)
(***************************************************************************)
MaxAge == LET a == MaxStaleness + MaxRecency
          IN  IF a > ValidDuration THEN a ELSE ValidDuration

RecentPrices(f) == {quote.price : quote \in {x \in published[f] : x.time + MaxAge >= now}}

Answering(a) == call[a] # NoCall /\ call'[a] = NoCall

RatesSince ==
    IF \E a \in Accounts : Answering(a)
    THEN call[CHOOSE a \in Accounts : Answering(a)].rates
    ELSE rate

DefaultsOf(t) ==
    {info[t].default} \cup {call[a].defaults[t] :
        a \in {x \in Accounts : /\ Answering(x)
                             /\ call[x].oracle = "pyth"
                             /\ t \in DOMAIN call[x].defaults}}

\* the quotes of a token when the feeds are at `price` and the rates at `r`
Quotes(t, price, r) ==
    (IF t \in DOMAIN Steady THEN {Steady[t]}
     ELSE {IF t \in DOMAIN r THEN (price[f] * r[t]) \div One ELSE price[f] :
             f \in {FeedOf[t]} \cap DOMAIN price})
    \cup (DefaultsOf(t) \ {NoPrice})

FunctionsInto(S(_), D) == {f \in [D -> UNION {S(x) : x \in D}] : \A x \in D : f[x] \in S(x)}

PlausiblePrices ==
    UNION {FunctionsInto(LAMBDA t : Quotes(t, price, r),
                         {t \in Tokens : Quotes(t, price, r) # {}}) :
              price \in FunctionsInto(RecentPrices, {f \in Feeds : RecentPrices(f) # {}}),
              r \in FunctionsInto(LAMBDA t : RatesSince[t] .. rate[t], DOMAIN Rates)}

RaisesDebt(a) ==
    \E t \in Tokens : account'[a].borrowed[t] > account[a].borrowed[t]

LowersCollateral(a) ==
    \E t \in Tokens : account'[a].collateral[t] < account[a].collateral[t]

\* the account whose list is run, at once or when its prices have come
Acts(a) == sent'[a] # sent[a] \/ Answering(a)

\* RiskIsPriced: a position whose owner borrows or withdraws collateral is
\* healthy afterwards under prices the market can answer for: however old the
\* request (execute_with_pyth, oracle_on_call), whatever else the list did, and
\* whatever happened to the account and the settings before the prices came.
RiskIsPriced ==
    [][\A a \in Accounts :
        /\ RaisesDebt(a) \/ (LowersCollateral(a) /\ Acts(a))
             => \E q \in PlausiblePrices : Healthy(account'[a], q)
        /\ margin'[a].c < margin[a].c
             => \E q \in PlausiblePrices :
                    /\ {MarginTokens.c, MarginTokens.d, MarginTokens.p} \subseteq DOMAIN q
                    /\ ~ MarginAtRisk(margin'[a], q)]_vars

\* SeizedAtRisk: collateral that others take from a position
\* (internal_liquidate, internal_force_close) was at risk, as the position is
\* when they take it, under prices the market can answer for.
SeizedAtRisk ==
    [][\A a \in Accounts :
         LowersCollateral(a) /\ ~ Acts(a)
         => \E q \in PlausiblePrices :
                PositionTokens(account[a]) \subseteq DOMAIN q /\ AtRisk(account[a], q)]_vars

\* NothingIsMinted: loans, repayments, liquidations and forced closings move
\* tokens between supplies, positions and reserve and leave what is available
\* of an asset alone, although a list works on a copy of the caller's account
\* while it writes the accounts of others (actions.rs, internal_execute).
NothingIsMinted ==
    \A t \in Tokens :
        Available(account, reserved, t)
          = Available(InitialAccount, InitialReserve, t)

\* RecordFallsUnlimited: the rate a staking token is valued by falls only if the
\* asset has no max_change_rate, in whatever order the answers of several calls
\* and of the calls that only record reach their callbacks
\* (update_staking_token_price_record, which two callbacks write through).
RecordFallsUnlimited ==
    [][\A t \in DOMAIN Rates :
         record[t] # NoRecord => record'[t] >= record[t] \/ max_change[t] = NoLimit]_vars
=============================================================================
