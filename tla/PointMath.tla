------------------------------ MODULE PointMath ------------------------------
(***************************************************************************)
(* The arithmetic of the exchange of contracts/mock-dcl: prices belong to  *)
(* points, and each point holds liquidity of its own, which is worth       *)
(* liquidity / sqrt(price) of token x or liquidity * sqrt(price) of token  *)
(* y.  The token in and the token out are written t and Other(t); where    *)
(* the code has a function for each of them that differ only in x and y,   *)
(* there is one operator here.                                             *)
(*                                                                         *)
(* The code counts square roots of prices in units of 2^-96 and the price  *)
(* grows by 1.0001 per point, between points -800000 and 800000.  Unit,    *)
(* Rate, LeftMost and RightMost stand for these; a root of the price of a  *)
(* point is Unit * Rate^point, rounded up.  The code keeps the root of the *)
(* pool's price next to its point, and sometimes computes it from the last *)
(* one; with an integral Rate the two agree, and it is left out.           *)
(***************************************************************************)
EXTENDS Integers, FiniteSetsExt

CONSTANTS
    Unit,       \* one, in the units of a root of a price (2^96)
    Rate,       \* the growth of the root of the price from a point to the next
    LeftMost,
    RightMost

ASSUME PointNumbers ==
    /\ Unit \in Nat \ {0}
    /\ Rate \in Nat \ {0, 1}
    /\ RightMost \in Nat \ {0}
    /\ LeftMost = -RightMost

Tokens == {"x", "y"}
Other(t) == CHOOSE u \in Tokens : u # t

\* mul_fraction_floor and mul_fraction_ceil
Fraction(a, numerator, denominator, up) ==
    (a * numerator + (IF up THEN denominator - 1 ELSE 0)) \div denominator

Legal(p) == LeftMost <= p /\ p <= RightMost

SqrtPrice(p) ==
    IF p >= 0 THEN Unit * Rate^p ELSE Fraction(Unit, 1, Rate^(-p), TRUE)

SqrtRate == SqrtPrice(1)

\* the last point whose price is not above the one with this root
PointOfPrice(root) ==
    CHOOSE p \in LeftMost..RightMost :
        SqrtPrice(p) <= root /\ (p = RightMost \/ root < SqrtPrice(p + 1))

-----------------------------------------------------------------------------
(***************************************************************************)
(* The tokens of a unit of liquidity in each point from l up to, and not   *)
(* including, r: sums of geometric series.                                 *)
(***************************************************************************)
UnitY(l, r) == Fraction(Unit, SqrtPrice(r) - SqrtPrice(l), SqrtRate - Unit, TRUE)

UnitX(l, r) ==
    Fraction(Unit, SqrtPrice(r - l + 1) - SqrtRate, SqrtPrice(r + 1) - SqrtPrice(r), TRUE)

AmountY(liquidity, l, r, up) ==
    Fraction(liquidity, SqrtPrice(r) - SqrtPrice(l), SqrtRate - Unit, up)

\* slip: what is taken in for a range of x is rounded down
AmountXDown(liquidity, l, r, up) ==
    Fraction(liquidity, SqrtPrice(r - l) - Unit,
             SqrtPrice(r) - Fraction(SqrtPrice(r), Unit, SqrtRate, FALSE), FALSE)

AmountX(liquidity, l, r, up) ==
    Fraction(liquidity, SqrtPrice(r - l) - Unit,
             SqrtPrice(r) - Fraction(SqrtPrice(r), Unit, SqrtRate, FALSE), up)

\* the points down to which x buys all liquidity left of r; r if none
MostLeft(liquidity, x, r) ==
    LET below == Fraction(SqrtPrice(r), Unit, SqrtRate, TRUE)
    IN r - PointOfPrice(Fraction(x, SqrtPrice(r) - below, liquidity, FALSE) + Unit)

\* the point up to which y buys all liquidity from l; l if none
MostRight(liquidity, y, l) ==
    PointOfPrice(Fraction(y, SqrtRate - Unit, liquidity, FALSE) + SqrtPrice(l))

-----------------------------------------------------------------------------
(***************************************************************************)
(* Trades at one point.  What the pool takes is rounded up, what it gives  *)
(* is rounded down.                                                        *)
(***************************************************************************)
LiquidityOf(t, amount, p, up) ==
    IF t = "x" THEN Fraction(amount, SqrtPrice(p), Unit, up)
               ELSE Fraction(amount, Unit, SqrtPrice(p), up)

TokensOf(t, liquidity, p, up) == LiquidityOf(Other(t), liquidity, p, up)

\* x_swap_y_at_price_liquidity and y_swap_x_at_price_liquidity: `held` of the
\* point's liquidity is in the token that is bought
AtPoint(t, amount, p, held) ==
    LET moved == Min({LiquidityOf(t, amount, p, FALSE), held})
    IN [cost    |-> TokensOf(t, moved, p, TRUE),
        acquire |-> TokensOf(Other(t), moved, p, FALSE),
        moved   |-> moved]

\* x_swap_y_at_price and y_swap_x_at_price: from orders that sell `selling`
AtOrder(t, amount, p, selling) ==
    LET offered == TokensOf(Other(t), LiquidityOf(t, amount, p, FALSE), p, FALSE)
        acquire == Min({offered, selling})
    IN [cost    |-> TokensOf(t, LiquidityOf(Other(t), acquire, p, TRUE), p, TRUE),
        acquire |-> acquire]

-----------------------------------------------------------------------------
(***************************************************************************)
(* Trades over the points from l up to r, where liquidity is the same: all *)
(* of it, or as many whole points as the amount buys; `point` is where the *)
(* rest of the amount is to be spent.                                      *)
(***************************************************************************)
AllX(liquidity, l, r, x) ==
    LET cost == AmountX(liquidity, l, r, TRUE)
        from == MostLeft(liquidity, x, r)
    IN IF cost <= x
       THEN [complete |-> TRUE, cost |-> cost, acquire |-> AmountY(liquidity, l, r, FALSE),
             point |-> l]
       ELSE [complete |-> FALSE,
             cost     |-> Min({AmountX(liquidity, from, r, TRUE), x}),
             acquire  |-> AmountY(liquidity, from, r, FALSE),
             point    |-> from - 1]

AllY(liquidity, l, r, y) ==
    LET cost == AmountY(liquidity, l, r, TRUE)
        to   == MostRight(liquidity, y, l)
    IN IF cost <= y
       THEN [complete |-> TRUE, cost |-> cost, acquire |-> AmountX(liquidity, l, r, FALSE),
             point |-> r]
       ELSE [complete |-> FALSE,
             cost     |-> Min({AmountY(liquidity, l, to, TRUE), y}),
             acquire  |-> AmountX(liquidity, l, to, FALSE),
             point    |-> to]
==============================================================================
