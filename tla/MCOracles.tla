------------------------------ MODULE MCOracles ------------------------------
(***************************************************************************)
(* Oracles on a small instance: alice pledges staked NEAR, borrows        *)
(* dollars and holds a margin position; bob liquidates her.                *)
(***************************************************************************)
EXTENDS Oracles

CONSTANTS alice, bob, near, stnear, usd, fnear

AliceAndBob   == {alice, bob}
ThreeTokens   == {near, stnear, usd}
FeedOfToken   == [t \in {near, stnear} |-> fnear]
OneDollar     == usd :> 1
Volatile      == [t \in ThreeTokens |-> IF t = usd THEN 2 ELSE 1]
VolatileDebt  == [t \in ThreeTokens |-> IF t = usd THEN 2 ELSE 4]
LongNear      == [c |-> usd, d |-> usd, p |-> near]

None     == [t \in ThreeTokens |-> 0]
AtFirst  == [a \in AliceAndBob |->
    IF a = alice
    THEN [free |-> [None EXCEPT ![stnear] = 1, ![near] = 1, ![usd] = 3],
          collateral |-> [None EXCEPT ![stnear] = 2],
          borrowed |-> [None EXCEPT ![usd] = 3], exists |-> TRUE]
    ELSE [free |-> [None EXCEPT ![usd] = 4], collateral |-> None, borrowed |-> None,
          exists |-> FALSE]]
Reserve  == [None EXCEPT ![usd] = 3]
MarginAtFirst == [a \in AliceAndBob |->
    IF a = alice THEN [free |-> 1, c |-> 3, d |-> 4, p |-> 2]
    ELSE [free |-> 0, c |-> 0, d |-> 0, p |-> 0]]

Staking == [default |-> NoPrice, feed |-> fnear, extra |-> TRUE]
Plain   == [default |-> NoPrice, feed |-> fnear, extra |-> FALSE]
Pegged(n) == [default |-> n, feed |-> fnear, extra |-> FALSE]

InfoAtFirst == [t \in ThreeTokens |-> IF t = usd THEN Pegged(1)
                                      ELSE IF t = stnear THEN Staking ELSE Plain]
DollarDoubles == [t \in ThreeTokens |-> IF t = usd THEN {Pegged(2)} ELSE {}]

Do(what, t, n) == [do |-> what, token |-> t, amount |-> n]
Liquidates == [do |-> "liquidate", victim |-> alice, in |-> usd, in_amount |-> 2,
               out |-> stnear, out_amount |-> 1]
ForceCloses == [do |-> "force_close", victim |-> alice]

PledgeAndBorrow == <<Do("increase", stnear, 1), Do("borrow", usd, 1)>>

ListsSent == [a \in AliceAndBob |->
    IF a = alice
    THEN {PledgeAndBorrow,
          <<Do("decrease", stnear, 1), Do("increase", near, 1)>>,
          <<Liquidates>>}
    ELSE {<<Do("increase", usd, 1), Do("borrow", usd, 1)>>,
          <<Liquidates>>,
          <<ForceCloses>>}]

MarginListsSent == [a \in AliceAndBob |->
    IF a = alice
    THEN {<<[do |-> "margin_increase", amount |-> 1], [do |-> "margin_decrease", amount |-> 2]>>}
    ELSE {}]

PriceListsSent == [a \in AliceAndBob |->
    IF a = alice THEN MarginListsSent[alice] \cup {PledgeAndBorrow}
    ELSE {<<Liquidates>>}]

FirstPrices == [f \in {fnear} |-> 4]
Prices == [f \in {fnear} |-> {2, 4}]
StakingRates == stnear :> {3}
Unlimited == stnear :> NoLimit
Half == stnear :> {1}
=============================================================================
