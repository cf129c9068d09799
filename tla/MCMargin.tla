------------------------------ MODULE MCMargin -------------------------------
(***************************************************************************)
(* Margin on small instances: the constants that a .cfg cannot write.      *)
(***************************************************************************)
EXTENDS Margin

CONSTANTS owner, trader, keeper, btc, usd, i1, i2, i3

TwoTokens == {btc, usd}

\* dollars as collateral and debt, bitcoins held; bitcoins as collateral, dollars sold
LongBtc  == [c |-> usd, d |-> usd, p |-> btc]
ShortUsd == [c |-> btc, d |-> usd, p |-> btc]
LongUsd  == [c |-> btc, d |-> btc, p |-> usd]

Long      == {LongBtc}
Longs     == {LongBtc, LongUsd}
BothWays  == {LongBtc, ShortUsd}

Holdings(who, b, u) ==
    [a \in Accounts |-> [t \in TwoTokens |->
        IF a # who THEN 0 ELSE IF t = btc THEN b ELSE u]]

KeeperLendsUsd     == Holdings(keeper, 0, 4)
OwnerLendsUsd      == Holdings(owner, 0, 4)
KeeperLendsMoreBtc == Holdings(keeper, 4, 2)

TraderHasMore     == Holdings(trader, 0, 3)
TraderHasOneOfBoth == Holdings(trader, 1, 1)
TraderHasBoth     == Holdings(trader, 1, 2)
OwnerTradesToo    == [TraderHasBoth EXCEPT ![owner][btc] = 1]

NoLimit   == [t \in TwoTokens |-> 100]
Reserve   == [t \in TwoTokens |-> IF t = usd THEN 1 ELSE 0]

BtcMoves  == [t \in TwoTokens |-> IF t = btc THEN {1, 2} ELSE {1}]
NoneMove  == [t \in TwoTokens |-> {1}]

FeeInBtc == [token |-> btc, amount |-> 1]
FeeInUsd == [token |-> usd, amount |-> 1]

LossOrProfit == {[loss |-> 3, profit |-> 0], [loss |-> 0, profit |-> 5]}
=============================================================================
