------------------------------- MODULE MCFarms -------------------------------
(***************************************************************************)
(* Farms on small instances: a farm of dollars and one of booster tokens,  *)
(* both paying booster tokens.                                             *)
(***************************************************************************)
EXTENDS Farms

CONSTANTS alice, bob, usd, brrr

AliceAndBob == {alice, bob}
UsdAndBrrr  == {usd, brrr}

Each(x, y) == [t \in UsdAndBrrr |-> IF t = usd THEN x ELSE y]

Wealth    == [a \in AliceAndBob |-> IF a = alice THEN Each(1, 0) ELSE Each(0, 0)]
Reserve   == Each(0, 2)
BobLegacy == [a \in AliceAndBob |-> IF a = bob THEN 1 ELSE 0]

BothPayBrrr == {usd, brrr} \X {brrr}
OneByOne    == {<<1, 1>>}
OnlyBob   == {bob}
Short       == [min |-> 1, max |-> 2, multiplier |-> 4]
OnlyShort   == {Short}
=============================================================================
