-------------------------------- MODULE MCDcl --------------------------------
(* Dcl with two users, points -4 to 4 at which prices grow by four, and     *)
(* pools that calls have led to.                                            *)
EXTENDS Dcl

CONSTANTS alice, bob, dao, farm

MCLeftMost == -4
MCUsers == {alice, bob}
MCRanges == {<<-2, 0>>, <<-1, 1>>, <<0, 2>>}
MCStops == {-1, 1}
MCFarmRange == <<-1, 2>>

XY(x, y) == [t \in Tokens |-> IF t = "x" THEN x ELSE y]
MCSupplies == {XY(24, 24)}

NoCalls ==
    [k \in {"liquidity", "swap", "order", "part", "asset", "failure", "account", "token",
            "manage"} |-> 0]
Calls(kinds) == kinds @@ NoCalls

Fresh(delta, point) ==
    [pool |-> NewPool(delta, point), lpt |-> << >>, order |-> << >>, latest |-> 0,
     asset |-> XY(24, 24), protocol |-> Whole \div 2, budget |-> NoCalls]

Provided(s, u, l, r, amount) ==
    LET added == Added(s.pool, l, r, amount)
    IN [s EXCEPT !.pool = added.pool, !.latest = @ + 1,
                 !.lpt = Minted(s.latest + 1, @, NewLpt(u, l, r, added))]

Offered(s, u, t, p, amount) ==
    [s EXCEPT !.pool = OrderAdded(@, t, p, amount), !.latest = @ + 1,
              !.order = Minted(s.latest + 1, @,
                          [owner |-> u, token |-> t, point |-> p, remain |-> amount,
                           last |-> OrderSeen(s.pool, t, p)])]

TradedTo(s, t, amount, stop) ==
    [s EXCEPT !.pool = Swapped(@, t, amount, stop,
                               [fee |-> Fee, protocol |-> s.protocol]).pool]

With(s, kinds) == [s EXCEPT !.budget = Calls(kinds)]

Wide == Provided(Fresh(1, 0), alice, -2, 2, XY(60, 60))
Two == Provided(Wide, bob, -1, 1, XY(24, 24))
Narrow == Provided(Provided(Fresh(1, 0), alice, -2, 2, XY(24, 24)), bob, -1, 1, XY(24, 24))
Twins == TradedTo(Provided(Wide, alice, -2, 2, XY(24, 24)), "x", 40, LastPoint("x"))
Book == Offered(Offered(Offered(Narrow, alice, "y", -1, 20), bob, "y", -1, 9), bob, "x", 1, 12)
Refilled ==
    Offered(TradedTo(Offered(Fresh(1, 0), alice, "y", -1, 9), "x", 90, -1), bob, "y", -1, 9)
Sparse == Offered(Provided(Fresh(2, 1), alice, -2, 2, XY(60, 60)), bob, "y", 0, 9)

MCStarts ==
    {With(Fresh(1, 0), [liquidity |-> 2, swap |-> 1]),
     With(Two, [swap |-> 2, part |-> 1]),
     With(Book, [swap |-> 1]),
     With(Refilled, [swap |-> 1, order |-> 1]),
     With(Sparse, [swap |-> 1]),
     With(Twins, [liquidity |-> 1]),
     With(Fresh(1, 0), [asset |-> 2, failure |-> 1, account |-> 2]),
     With(Two, [manage |-> 2, swap |-> 1]),
     With(Wide, [token |-> 3, part |-> 1])}
==============================================================================
