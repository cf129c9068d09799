------------------------------- MODULE DclPool -------------------------------
(***************************************************************************)
(* A pool of the exchange of contracts/mock-dcl as a value, and what each  *)
(* call does to it: liquidity is added to and removed from a range of      *)
(* points, orders rest at single points, and a swap walks from point to    *)
(* point through both.  No state; Dcl has it.                              *)
(*                                                                         *)
(* A pool is a record:                                                     *)
(*   delta        the distance of points at which ranges may end and       *)
(*                orders rest                                              *)
(*   current      its point                                                *)
(*   liquidity    at the current point; liquidityX is the part in token x  *)
(*   scale[t]     fees in t per unit of liquidity since ever, in FeeUnit   *)
(*   charged[t]   fees of the protocol                                     *)
(*   total[t]     all tokens of the pool, totalOrder[t] those of orders    *)
(*   range[p]     what ends at p: sum and delta of liquidity, and the fees *)
(*                `out`side of p                                           *)
(*   order[p]     the orders at p, and per token sold what is for sale,    *)
(*                what was earned and not handed out                       *)
(*   marked       the points of the bitmap                                 *)
(* A point without ranges or orders has zeros where the code has None.     *)
(***************************************************************************)
EXTENDS PointMath, Sequences, SequencesExt

CONSTANTS
    FeeUnit,        \* one, in the units of fee scales (2^128)
    Modulus,        \* of the arithmetic of fee scales (2^256)
    Whole,          \* one, in the units of fee rates (10^6 and BP_DENOM)
    MaxLiquidityPerPoint

ASSUME PoolNumbers ==
    /\ FeeUnit \in Nat \ {0}
    /\ Modulus \in Nat \ {0}
    /\ Whole \in Nat \ {0}
    /\ MaxLiquidityPerPoint \in Nat

Points == LeftMost..RightMost
Nothing == [t \in Tokens |-> 0]

NoRange == [sum |-> 0, delta |-> 0, out |-> Nothing]
NoSale == [selling |-> 0, earned |-> 0, legacy |-> 0, acc |-> 0, accLegacy |-> 0]
NoOrders == [count |-> 0, sale |-> [t \in Tokens |-> NoSale]]

NewPool(delta, point) ==
    [delta |-> delta, current |-> point, liquidity |-> 0, liquidityX |-> 0,
     scale |-> Nothing, charged |-> Nothing, totalLiquidity |-> 0,
     total |-> Nothing, totalOrder |-> Nothing,
     range |-> [p \in Points |-> NoRange], order |-> [p \in Points |-> NoOrders],
     marked |-> {}, running |-> TRUE]

IsEnd(g, p) == g.range[p].sum > 0
HasOrder(g, p) == \E t \in Tokens : g.order[p].sale[t].selling > 0

\* the bit of a point at which orders or a range have ended
Unmarked(g, p) ==
    IF IsEnd(g, p) \/ HasOrder(g, p) THEN g ELSE [g EXCEPT !.marked = @ \ {p}]

-----------------------------------------------------------------------------
(***************************************************************************)
(* Fees.  What is outside of an end is on the other side of it than the    *)
(* current point; the difference of two such numbers may be negative, and  *)
(* is taken modulo Modulus.                                                *)
(***************************************************************************)
Minus(a, b) == (a - b) % Modulus

Below(g, p, t) ==
    IF p <= g.current THEN g.range[p].out[t] ELSE g.scale[t] - g.range[p].out[t]

AtOrAbove(g, p, t) ==
    IF p > g.current THEN g.range[p].out[t] ELSE g.scale[t] - g.range[p].out[t]

FeeInRange(g, l, r) ==
    [t \in Tokens |-> Minus(Minus(g.scale[t], Below(g, l, t)), AtOrAbove(g, r, t))]

\* the fees of an LP token since its last account of them
Unclaimed(lpt, inside) ==
    [t \in Tokens |-> Fraction(Minus(inside[t], lpt.last[t]), lpt.amount, FeeUnit, FALSE)]

\* vip users pay a part of the pool's fee
FeeFor(fee, discount) == (fee * discount) \div Whole

NetOf(amount, fee) == Fraction(amount, Whole - fee, Whole, FALSE)

FeeOn(amount, net, cost, fee) ==
    IF cost >= net THEN amount - cost ELSE Fraction(cost, fee, Whole - fee, TRUE)

\* the protocol has its part of a fee, and all of it when there is no liquidity
Distributed(g, t, paid, protocolRate) ==
    LET part == IF g.liquidity = 0 THEN paid ELSE (paid * protocolRate) \div Whole
    IN [g EXCEPT
          !.charged[t] = @ + part,
          !.scale[t] = IF g.liquidity = 0 THEN @
                       ELSE @ + Fraction(paid - part, FeeUnit, g.liquidity, FALSE)]

-----------------------------------------------------------------------------
(***************************************************************************)
(* Liquidity of a range.                                                   *)
(***************************************************************************)
IsRange(g, l, r) ==
    /\ l % g.delta = 0 /\ r % g.delta = 0
    /\ l < r /\ r - l < RightMost
    /\ Legal(l) /\ Legal(r)

Covers(g, l, r) == l <= g.current /\ g.current < r

EndUpdated(g, p, d, sign) ==
    LET e == g.range[p]
        new == [sum   |-> e.sum + d,
                delta |-> e.delta + sign * d,
                out   |-> IF e.sum > 0 THEN e.out
                          ELSE IF p >= g.current THEN g.scale ELSE Nothing]
    IN [g EXCEPT !.range[p] = new]

\* slip: the bit of a point goes with its range though orders rest there
TidiedOrders(g, before, p) ==
    IF before > 0 /\ IsEnd(g, p) THEN g
    ELSE [g EXCEPT
            !.range[p] = IF IsEnd(g, p) THEN @ ELSE NoRange,
            !.marked = IF IsEnd(g, p) THEN @ \union {p} ELSE @ \ {p}]

\* an end that is new, or that nobody uses any more, which is forgotten once
\* the fees inside were read
Tidied(g, before, p) ==
    IF before > 0 /\ IsEnd(g, p) THEN g
    ELSE [g EXCEPT
            !.range[p] = IF IsEnd(g, p) THEN @ ELSE NoRange,
            !.marked = IF HasOrder(g, p) THEN @
                       ELSE IF IsEnd(g, p) THEN @ \union {p} ELSE @ \ {p}]

\* update_pool: the ends, before and after they are tidied
Ended(g, l, r, d) ==
    IF d = 0 THEN g ELSE EndUpdated(EndUpdated(g, l, d, 1), r, d, -1)

Cleaned(g, ended, l, r) ==
    Tidied(Tidied(ended, g.range[l].sum, l), g.range[r].sum, r)

\* liquidity a unit of which takes `unit` of an amount
Afforded(amount, unit) == Fraction(amount, Unit, unit, FALSE)

\* a unit of liquidity takes as much of y, and of x
PerUnitY(g, l, r) ==
    (IF l < g.current THEN UnitY(l, Min({r, g.current})) ELSE 0)
        + (IF Covers(g, l, r) THEN SqrtPrice(g.current) ELSE 0)

PerUnitX(g, l, r) == IF r > g.current THEN UnitX(Max({l, g.current + 1}), r) ELSE 0

\* compute_liquidity subtracts one from the amount of y, and aborts on none
CanCompute(g, l, r, amount) == PerUnitY(g, l, r) = 0 \/ amount["y"] > 0

ComputeLiquidity(g, l, r, amount) ==
    LET x == PerUnitX(g, l, r)
        y == PerUnitY(g, l, r)
    IN Min((IF x = 0 THEN {} ELSE {Afforded(amount["x"], x)})
             \union (IF y = 0 THEN {} ELSE {Afforded(amount["y"] - 1, y)}))

Need(g, l, r, liquidity) ==
    [x |-> IF r > g.current
           THEN AmountX(liquidity, Max({l, g.current + 1}), r, TRUE) ELSE 0,
     y |-> (IF l < g.current THEN AmountY(liquidity, l, Min({r, g.current}), TRUE) ELSE 0)
             + (IF Covers(g, l, r) THEN Fraction(liquidity, SqrtPrice(g.current), Unit, TRUE)
                ELSE 0)]

\* Pool::internal_add_liquidity and the totals its callers add to
CanAdd(g, l, r, amount) ==
    /\ CanCompute(g, l, r, amount)
    /\ LET liquidity == ComputeLiquidity(g, l, r, amount)
       IN /\ liquidity > 0
          /\ \A p \in {l, r} : g.range[p].sum + liquidity <= MaxLiquidityPerPoint

Added(g, l, r, amount) ==
    LET liquidity == ComputeLiquidity(g, l, r, amount)
        need      == Need(g, l, r, liquidity)
        ended     == Ended(g, l, r, liquidity)
        tidied    == Cleaned(g, ended, l, r)
    IN [pool |-> [tidied EXCEPT
                    !.liquidity = IF Covers(g, l, r) THEN @ + liquidity ELSE @,
                    !.totalLiquidity = @ + liquidity,
                    !.total = [t \in Tokens |-> @[t] + need[t]]],
        liquidity |-> liquidity,
        need      |-> need,
        inside    |-> FeeInRange(ended, l, r)]

\* y leaves the current point first
WithdrawnY(g, liquidity) == Min({g.liquidity - g.liquidityX, liquidity})

\* slip: liquidity is worth what adding it takes, rounded up and all in y
ReturnedUp(g, l, r, liquidity) == Need(g, l, r, liquidity)

Returned(g, l, r, liquidity) ==
    LET atY == WithdrawnY(g, liquidity)
        here(t, amount) ==
            IF Covers(g, l, r) THEN TokensOf(t, amount, g.current, FALSE) ELSE 0
    IN [x |-> (IF r > g.current
               THEN AmountX(liquidity, Max({l, g.current + 1}), r, FALSE) ELSE 0)
                 + here("x", liquidity - atY),
        y |-> (IF l < g.current THEN AmountY(liquidity, l, Min({r, g.current}), FALSE) ELSE 0)
                 + here("y", atY)]

\* Pool::internal_remove_liquidity, and what Contract::internal_remove_liquidity
\* takes out of the totals with the fees of the LP token
Removal(g, lpt, liquidity) ==
    LET l == lpt.left  r == lpt.right
        ended    == Ended(g, l, r, -liquidity)
        inside   == FeeInRange(ended, l, r)
        returned == Returned(g, l, r, liquidity)
        fees     == Unclaimed(lpt, inside)
        refund   == [t \in Tokens |-> returned[t] + fees[t]]
        tidied   == Cleaned(g, ended, l, r)
        atX      == liquidity - WithdrawnY(g, liquidity)
    IN [pool |-> [tidied EXCEPT
                    !.liquidity = IF Covers(g, l, r) THEN @ - liquidity ELSE @,
                    !.liquidityX = IF Covers(g, l, r) THEN @ - atX ELSE @,
                    !.totalLiquidity = @ - liquidity,
                    !.total = [t \in Tokens |-> @[t] - refund[t]]],
        returned |-> returned,
        fees     |-> fees,
        inside   |-> inside]

\* no subtraction of the removal underflows
Sound(g) ==
    /\ 0 <= g.liquidityX /\ 0 <= g.liquidity
    /\ g.totalLiquidity >= 0
    /\ \A t \in Tokens : g.total[t] >= 0 /\ g.totalOrder[t] >= 0
    /\ \A p \in Points : g.range[p].sum >= 0
    /\ \A p \in Points, t \in Tokens : g.range[p].out[t] <= g.scale[t]

CanRemove(g, lpt, liquidity) ==
    /\ g.liquidity >= g.liquidityX
    /\ Sound(Removal(g, lpt, liquidity).pool)

-----------------------------------------------------------------------------
(***************************************************************************)
(* Orders.  An order of a user sells `remain` of token t at a point and has *)
(* seen the earnings of that point up to `last`.                            *)
(***************************************************************************)
Exchanged(t, amount, p, up) ==
    TokensOf(Other(t), LiquidityOf(t, amount, p, up), p, up)

OrderSeen(g, t, p) == g.order[p].sale[t].acc

\* internal_add_order: x rests at or above the current point, y at or below
CanAddOrder(g, t, p, amount) ==
    /\ Legal(p) /\ p % g.delta = 0
    /\ IF t = "x" THEN p >= g.current ELSE p <= g.current
    /\ amount > 0

OrderAdded(g, t, p, amount) ==
    [g EXCEPT
       !.order[p].count = @ + 1,
       !.order[p].sale[t].selling = @ + amount,
       !.total[t] = @ + amount,
       !.totalOrder[t] = @ + amount,
       !.marked = IF HasOrder(g, p) \/ IsEnd(g, p) THEN @ ELSE @ \union {p}]

\* internal_update_order: an order that was filled has its price out of what
\* the filled ones left; any other one has what was earned since it last
\* looked, as long as there is some and it sells enough
Filled(order, sale) == order.last < sale.accLegacy

Earning(order, sale, p) ==
    LET t      == order.token
        wants  == Min({sale.acc - order.last, sale.earned})
        sold   == Exchanged(Other(t), wants, p, TRUE)
        capped == sold > order.remain
    IN IF Filled(order, sale)
       THEN [earned |-> Min({Exchanged(t, order.remain, p, FALSE), sale.legacy}),
             sold   |-> order.remain]
       ELSE [earned |-> IF capped
                        THEN Min({Exchanged(t, order.remain, p, FALSE), sale.earned})
                        ELSE wants,
             sold   |-> Min({sold, order.remain})]

\* the last order of a point takes what roundings left there out of the
\* pool's totals; `taken` leaves them as well
Leaving(g, order, kept, taken, earned) ==
    LET p        == order.point
        last     == order.remain = 0 /\ kept.count = 0
        gone(u)  == (IF u = order.token THEN taken ELSE 0)
                       + (IF last THEN kept.sale[u].selling ELSE 0)
    IN Unmarked([g EXCEPT
                   !.order[p] = IF last THEN NoOrders ELSE kept,
                   !.total = [u \in Tokens |-> @[u] - gone(u)
                                                 - (IF u = order.token THEN 0 ELSE earned)],
                   !.totalOrder = [u \in Tokens |-> @[u] - gone(u)]], p)

\* Contract::cancel_order, of at most `amount`
Paid(sale, order, earn, cancel) ==
    [sale EXCEPT
       !.selling = @ - cancel,
       !.earned  = IF Filled(order, sale) THEN @ ELSE @ - earn.earned,
       !.legacy  = IF Filled(order, sale) THEN @ - earn.earned ELSE @]

CancelledBy(g, order, earn, cancel) ==
    LET t     == order.token
        here  == g.order[order.point]
        after == [order EXCEPT !.remain = @ - earn.sold - cancel, !.last = here.sale[t].acc]
        kept  == [here EXCEPT !.sale[t] = Paid(@, order, earn, cancel),
                              !.count = IF after.remain = 0 THEN @ - 1 ELSE @]
    IN [pool   |-> Leaving(g, after, kept, cancel, earn.earned),
        earned |-> earn.earned,
        cancel |-> cancel,
        order  |-> after]

CancelledOf(g, order, amount, earn) ==
    CancelledBy(g, order, earn, Min({amount, order.remain - earn.sold}))

Cancelled(g, order, amount) ==
    CancelledOf(g, order, amount,
                Earning(order, g.order[order.point].sale[order.token], order.point))

CanCancel(g, order, amount) ==
    LET after == Cancelled(g, order, amount).pool
    IN /\ after.order[order.point].sale[order.token].selling >= 0
       /\ \A t \in Tokens : after.total[t] >= 0 /\ after.totalOrder[t] >= 0

-----------------------------------------------------------------------------
(***************************************************************************)
(* Swaps.  A swap of token t under way has `amount` to spend, has spent     *)
(* `in` and bought `out`; it is `done` when the amount is spent, as far as  *)
(* roundings allow.                                                         *)
(***************************************************************************)
Starting(g, amount) ==
    [pool |-> g, amount |-> amount, in |-> 0, out |-> 0, done |-> FALSE]

Finished(s) == [s EXCEPT !.done = TRUE]

\* one trade and its fee
Traded(s, t, terms, deal) ==
    LET net  == NetOf(s.amount, terms.fee)
        paid == deal.cost + FeeOn(s.amount, net, deal.cost, terms.fee)
    IN [pool   |-> Distributed(s.pool, t, paid - deal.cost, terms.protocol),
        amount |-> s.amount - paid,
        in     |-> s.in + paid,
        out    |-> s.out + deal.acquire,
        done   |-> deal.done]

\* process_limit_order_y, process_limit_order_x and update_point_order
ThroughOrders(s, t, terms) ==
    LET g    == s.pool
        p    == g.current
        u    == Other(t)
        net  == NetOf(s.amount, terms.fee)
        sale == g.order[p].sale[u]
        deal == AtOrder(t, net, p, sale.selling)
        next == Traded(s, t, terms,
                       [cost    |-> deal.cost,
                        acquire |-> deal.acquire,
                        done    |-> deal.acquire < sale.selling \/ deal.cost >= net])
        sold == [sale EXCEPT !.selling = @ - deal.acquire,
                             !.earned = @ + deal.cost,
                             !.acc = @ + deal.cost]
        after == IF sold.selling > 0 THEN sold
                 ELSE [sold EXCEPT !.legacy = @ + sold.earned,
                                   !.accLegacy = sold.acc,
                                   !.earned = 0]
    IN IF net = 0 THEN Finished(s)
       ELSE [next EXCEPT
               !.pool = Unmarked([@ EXCEPT !.totalOrder[u] = @ - deal.acquire,
                                           !.order[p].sale[u] = after], p)]

(***************************************************************************)
(* Through liquidity that is the same from the current point to another     *)
(* one: range_x_swap_y leftwards, down to and including it, range_y_swap_x  *)
(* rightwards, up to and not including it.  The current point comes first   *)
(* if it has both tokens.  `held` is the liquidity in token x where the     *)
(* swap ends.                                                               *)
(***************************************************************************)
\* what `here` left of the amount is spent on a range, and the rest of it at
\* the point where the range stops short
Beyond(t, all, here, range, amount) ==
    LET rest    == amount - range.cost
        last    == AtPoint(t, rest, range.point, all)
        held(k) == IF t = "x" THEN k ELSE all - k
    IN IF range.complete
       THEN [cost    |-> here.cost + range.cost,
             acquire |-> here.acquire + range.acquire,
             done    |-> rest = 0,
             point   |-> range.point,
             held    |-> held(all)]
       ELSE [cost    |-> here.cost + range.cost + last.cost,
             acquire |-> here.acquire + range.acquire + last.acquire,
             done    |-> TRUE,
             point   |-> range.point,
             held    |-> held(last.moved)]

\* only the current point
Alone(here, done, point, held) ==
    [cost |-> here.cost, acquire |-> here.acquire, done |-> done,
     point |-> point, held |-> held]

NoDeal == [cost |-> 0, acquire |-> 0, moved |-> 0]

RangeX(g, left, x) ==
    LET all   == g.liquidity
        hasY  == g.liquidityX < all
        alone == hasY /\ (g.liquidityX > 0 \/ left = g.current)
        right == IF hasY /\ ~alone THEN g.current + 1 ELSE g.current
        here  == IF alone THEN AtPoint("x", x, g.current, all - g.liquidityX) ELSE NoDeal
    IN IF alone /\ (g.liquidityX + here.moved < all \/ here.cost >= x)
       THEN Alone(here, TRUE, g.current, g.liquidityX + here.moved)
       ELSE IF left >= right THEN Alone(here, FALSE, g.current, all)
       ELSE Beyond("x", all, here, AllX(all, left, right, x - here.cost), x - here.cost)

RangeY(g, right, y) ==
    LET all  == g.liquidity
        hasY == g.liquidityX < all
        left == IF hasY THEN g.current + 1 ELSE g.current
        here == IF hasY THEN AtPoint("y", y, g.current, g.liquidityX) ELSE NoDeal
    IN IF hasY /\ (here.moved < g.liquidityX \/ here.cost >= y)
       THEN Alone(here, TRUE, g.current, g.liquidityX - here.moved)
       ELSE IF hasY /\ left = right THEN Alone(here, FALSE, right, 0)
       ELSE Beyond("y", all, here, AllY(all, left, right, y - here.cost), y - here.cost)

\* the swap moves to a point where there is nothing in between
Moved(s, p) ==
    [s EXCEPT !.pool = IF @.current = p THEN @ ELSE [@ EXCEPT !.current = p, !.liquidityX = 0]]

\* process_liquidity_y and process_liquidity_x
Ranged(s, t, terms, deal) ==
    [Traded(s, t, terms, deal) EXCEPT
       !.pool = [@ EXCEPT !.current = deal.point, !.liquidityX = deal.held]]

ThroughLiquidity(s, t, p, terms) ==
    LET net == NetOf(s.amount, terms.fee)
    IN IF net = 0 THEN Finished(s)
       ELSE IF s.pool.liquidity = 0 THEN Moved(s, p)
       ELSE Ranged(s, t, terms,
                   IF t = "x" THEN RangeX(s.pool, p, net) ELSE RangeY(s.pool, p, net))

\* slip: an end adds its delta in either direction
PassedUp(g, p, sign) ==
    [g EXCEPT
       !.range[p].out = [t \in Tokens |-> g.scale[t] - @[t]],
       !.liquidity = @ + g.range[p].delta]

\* pass_endpoint, to the right (sign 1) or to the left (-1)
Passed(g, p, sign) ==
    [g EXCEPT
       !.range[p].out = [t \in Tokens |-> g.scale[t] - @[t]],
       !.liquidity = @ + sign * g.range[p].delta]

-----------------------------------------------------------------------------
(***************************************************************************)
(* internal_x_swap_y: to the left, down to the boundary.  At each point     *)
(* orders come first; liquidity of a point that ends ranges is traded alone *)
(* and the end passed; then everything down to the next point of the bitmap *)
(* is one range, which stops short of a point with orders.                  *)
(***************************************************************************)
OneLeft(s) == Moved(s, s.pool.current - 1)

NextLeft(g, from, boundary) ==
    LET found   == {p \in g.marked : boundary <= p /\ p <= from}
        guarded == found # {} /\ HasOrder(g, Max(found))
    IN [stop    |-> IF found = {} THEN boundary
                    ELSE IF guarded THEN Max(found) + 1 ELSE Max(found),
        guarded |-> guarded]

RECURSIVE Leftwards(_, _, _)

AfterRange(s, boundary, terms, guarded) ==
    IF s.done \/ s.pool.current <= boundary THEN s
    ELSE Leftwards(IF guarded THEN OneLeft(s) ELSE s, boundary, terms)

DownTo(s, boundary, terms, next) ==
    AfterRange(ThroughLiquidity(s, "x", next.stop, terms), boundary, terms, next.guarded)

AfterEnd(s, boundary, terms) ==
    LET p == s.pool.current
    IN IF p < boundary THEN s
       ELSE IF IsEnd(s.pool, p) \/ HasOrder(s.pool, p) THEN Leftwards(s, boundary, terms)
       ELSE DownTo(s, boundary, terms, NextLeft(s.pool, p, boundary))

PastEnd(s, boundary, terms) ==
    IF s.done THEN s
    ELSE AfterEnd(OneLeft([s EXCEPT !.pool = Passed(@, s.pool.current, -1)]), boundary, terms)

AfterOrders(s, boundary, terms) ==
    LET p == s.pool.current
    IN IF s.done THEN s
       ELSE IF IsEnd(s.pool, p)
       THEN PastEnd(ThroughLiquidity(s, "x", p, terms), boundary, terms)
       ELSE DownTo(s, boundary, terms, NextLeft(s.pool, p - 1, boundary))

Leftwards(s, boundary, terms) ==
    IF s.done \/ s.pool.current < boundary THEN s
    ELSE AfterOrders(IF HasOrder(s.pool, s.pool.current) THEN ThroughOrders(s, "x", terms)
                     ELSE s, boundary, terms)

\* internal_y_swap_x: to the right, up to the boundary
Entered(g, found, p) ==
    LET passed == IF p \in found /\ IsEnd(g, p) THEN Passed(g, p, 1) ELSE g
    IN IF g.current # p THEN g ELSE [passed EXCEPT !.liquidityX = passed.liquidity]

RECURSIVE Rightwards(_, _, _)

UpTo(s, boundary, terms, found) ==
    LET stop == IF found = {} THEN boundary ELSE Min(found)
        next == IF s.pool.liquidity = 0 THEN Moved(s, stop)
                ELSE ThroughLiquidity(s, "y", stop, terms)
    IN IF s.done THEN s
       ELSE Rightwards([next EXCEPT !.pool = Entered(@, found, stop)], boundary, terms)

Rightwards(s, boundary, terms) ==
    LET g == s.pool
    IN IF s.done \/ g.current >= boundary THEN s
       ELSE UpTo(IF HasOrder(g, g.current) THEN ThroughOrders(s, "y", terms) ELSE s,
                 boundary, terms, {p \in g.marked : g.current < p /\ p <= boundary})

\* a swap down or up to `stop`, and the totals every caller of it updates
Counted(s, t) ==
    [s EXCEPT !.pool.total = [u \in Tokens |-> IF u = t THEN @[u] + s.in ELSE @[u] - s.out]]

Swapped(g, t, amount, stop, terms) ==
    Counted(IF t = "x"
            THEN Leftwards(Starting(g, amount), Max({stop, LeftMost}), terms)
            ELSE Rightwards(Starting(g, amount), Min({stop, RightMost}), terms), t)
==============================================================================
