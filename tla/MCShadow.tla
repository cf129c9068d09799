------------------------------- MODULE MCShadow -------------------------------
(***************************************************************************)
(* Shadow on small instances: one provider of liquidity, and a liquidator  *)
(* with dollars to lend.                                                   *)
(***************************************************************************)
EXTENDS Shadow

CONSTANTS alice, bob

AliceAndBob == {alice, bob}

Provides(n) == [a \in AliceAndBob |-> IF a = alice THEN n ELSE 0]
Lends(n)    == [a \in AliceAndBob |-> IF a = bob THEN n ELSE 0]

TwoShares    == Provides(2)
ThreeShares  == Provides(3)
TwoDollars   == Lends(2)
ThreeDollars == Lends(3)
OnlyAlice    == {alice}
=============================================================================
