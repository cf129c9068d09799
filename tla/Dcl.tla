--------------------------------- MODULE Dcl ---------------------------------
(***************************************************************************)
(* The exchange of contracts/mock-dcl with one pool: LP tokens and orders   *)
(* of users in it, tokens that users keep in the contract, and transfers of *)
(* tokens to users that are under way, may fail and end in any order.       *)
(*                                                                         *)
(*   pool         a record of DclPool                                       *)
(*   lpt[id]      an LP token: its owner, range, amount, the fees inside of *)
(*                the range when it was last paid, its v-liquidity          *)
(*   order[id]    an order: its owner, token, point, what remains for sale, *)
(*                the earnings of the point when it was last paid           *)
(*   latest       the last id of either                                     *)
(*   registered   the accounts                                              *)
(*   asset[u][t]  tokens that u keeps in the contract                       *)
(*   mft[u]       v-liquidity that u holds                                  *)
(*   approved[id] accounts that may take the LP token                       *)
(*   transfer     a bag of transfers under way                              *)
(*   cash[t]      the contract's balance in the token contract              *)
(*   settings     of the owner and operators                                *)
(*   budget       calls of each kind that may still be made (a bound)       *)
(*                                                                         *)
(* Every call is atomic.  Each underflow of the pool's arithmetic aborts    *)
(* the call.  Minimal amounts, which only abort a call, are left out.       *)
(***************************************************************************)
EXTENDS DclPool

CONSTANTS
    Users,          \* accounts that call
    Owner,          \* of the contract
    Farm,           \* the farming contract, an account that only holds v-liquidity
    Fee,            \* of the pool, of Whole
    MaxSlots,       \* LP tokens and orders that a user's storage is paid for
    Amounts,        \* that are deposited, swapped and sold by orders
    Stops,          \* points at which swaps stop and orders rest
    Supplies,       \* amounts offered as liquidity
    Ranges,         \* of liquidity
    FarmRange,      \* of points whose liquidity is farmed
    Mining,         \* the least liquidity that can be farmed (10^6)
    Discounts,      \* of vip users: the part of the fee they pay
    ProtocolRates,
    MaxTransfers,   \* bound: transfers under way
    Starts          \* records of pool, lpt, order, latest, asset, budget

VARIABLES pool, lpt, order, latest, registered, asset, mft, approved,
          transfer, cash, settings, budget

vars == <<pool, lpt, order, latest, registered, asset, mft, approved,
          transfer, cash, settings, budget>>

\* what the trades of a user in the pool leave alone
tokens  == <<mft, approved>>
rules   == <<registered, settings>>

ASSUME DclNumbers ==
    /\ Fee \in 0..(Whole - 1)
    /\ MaxSlots \in Nat
    /\ Mining \in Nat \ {0}
    /\ MaxTransfers \in Nat
    /\ Discounts \subseteq 0..Whole
    /\ ProtocolRates \subseteq 0..Whole

Accounts == Users \union {Owner, Farm}
NoTransfer == EmptyBag

Minted(id, f, record) == [i \in DOMAIN f \union {id} |-> IF i = id THEN record ELSE f[i]]
Burned(id, f) == [i \in DOMAIN f \ {id} |-> f[i]]
Plus(a, b) == [t \in Tokens |-> a[t] + b[t]]
Less(a, b) == [t \in Tokens |-> a[t] - b[t]]
Only(t, amount) == [u \in Tokens |-> IF u = t THEN amount ELSE 0]
Covered(a, b) == \A t \in Tokens : a[t] <= b[t]

-----------------------------------------------------------------------------
(***************************************************************************)
(* Guards and effects that calls share.                                     *)
(***************************************************************************)
Spend(kind) ==
    /\ budget[kind] > 0
    /\ budget' = [budget EXCEPT ![kind] = @ - 1]

Unfrozen == settings.frozen = {}
Trading == settings.running /\ pool.running /\ Unfrozen

Holding(u) ==
    Cardinality({i \in DOMAIN lpt : lpt[i].owner = u})
        + Cardinality({i \in DOMAIN order : order[i].owner = u})

HasSlot(u) == u \in registered /\ Holding(u) < MaxSlots

\* process_transfer of each token, if there is any
Sent(u, amounts) ==
    LET some == {t \in Tokens : amounts[t] > 0}
    IN /\ BagCardinality(transfer) + Cardinality(some) <= MaxTransfers
       /\ transfer' = transfer (+) SetToBag({[user |-> u, token |-> t, amount |-> amounts[t]] :
                                               t \in some})

Credited(u, amounts) == asset' = [asset EXCEPT ![u] = Plus(@, amounts)]

\* a pool record all of whose subtractions succeeded
Becomes(g) == Sound(g) /\ pool' = g

Mined(id) == lpt[id].v > 0

Terms(u) == [fee |-> FeeFor(Fee, settings.vip[u]), protocol |-> settings.protocol]

NewLpt(u, l, r, added) ==
    [owner |-> u, left |-> l, right |-> r, amount |-> added.liquidity,
     last |-> added.inside, v |-> 0]

-----------------------------------------------------------------------------
(***************************************************************************)
(* Liquidity.                                                               *)
(***************************************************************************)
AddLiquidity(u, l, r, amount) ==
    LET added == Added(pool, l, r, amount)
    IN /\ Spend("liquidity")
       /\ settings.running /\ Unfrozen
       /\ HasSlot(u)
       /\ IsRange(pool, l, r) /\ CanAdd(pool, l, r, amount)
       /\ Covered(added.need, amount) /\ Covered(amount, asset[u])
       /\ Becomes(added.pool)
       /\ lpt' = Minted(latest + 1, lpt, NewLpt(u, l, r, added))
       /\ latest' = latest + 1
       /\ asset' = [asset EXCEPT ![u] = Less(@, amount)]
       /\ Sent(u, Less(amount, added.need))
       /\ UNCHANGED <<order, tokens, rules, cash>>

\* slip: the fees of an LP token that grows are paid and stay in the totals
AppendedUnpaid(g, token, added) ==
    LET fees == Unclaimed(token, added.inside)
    IN [pool |-> added.pool,
        fees |-> fees,
        token |-> [token EXCEPT !.amount = @ + added.liquidity, !.last = added.inside]]

\* an LP token's fees are paid when its liquidity changes
Appended(g, token, added) ==
    LET fees == Unclaimed(token, added.inside)
    IN [pool |-> [added.pool EXCEPT !.total = Less(@, fees)],
        fees |-> fees,
        token |-> [token EXCEPT !.amount = @ + added.liquidity, !.last = added.inside]]

AppendLiquidity(u, id, amount) ==
    LET token == lpt[id]
        added == Added(pool, token.left, token.right, amount)
        after == Appended(pool, token, added)
    IN /\ Spend("liquidity")
       /\ settings.running /\ Unfrozen
       /\ u \in registered /\ token.owner = u /\ ~Mined(id)
       /\ CanAdd(pool, token.left, token.right, amount)
       /\ Covered(added.need, amount) /\ Covered(amount, asset[u])
       /\ Becomes(after.pool)
       /\ lpt' = [lpt EXCEPT ![id] = after.token]
       /\ asset' = [asset EXCEPT ![u] = Less(@, amount)]
       /\ Sent(u, Plus(Less(amount, added.need), after.fees))
       /\ UNCHANGED <<order, latest, tokens, rules, cash>>

\* merge_liquidity, of one other LP token
MergeLiquidity(u, id, other) ==
    LET token   == lpt[id]
        removed == Removal(pool, lpt[other], lpt[other].amount)
        added   == Added(removed.pool, token.left, token.right, removed.returned)
        after   == Appended(removed.pool, token, added)
    IN /\ Spend("liquidity")
       /\ settings.running /\ Unfrozen
       /\ u \in registered /\ token.owner = u /\ ~Mined(id) /\ ~Mined(other)
       /\ other # id /\ lpt[other].owner = u
       /\ lpt[other].left = token.left /\ lpt[other].right = token.right
       /\ CanRemove(pool, lpt[other], lpt[other].amount)
       /\ CanAdd(removed.pool, token.left, token.right, removed.returned)
       /\ Covered(added.need, removed.returned)
       /\ Becomes(after.pool)
       /\ lpt' = Burned(other, [lpt EXCEPT ![id] = after.token])
       /\ Sent(u, Plus(Less(removed.returned, added.need), Plus(after.fees, removed.fees)))
       /\ UNCHANGED <<order, latest, asset, tokens, rules, cash>>

\* the v-liquidity of an LP token must come back before its liquidity goes
Releases(u, id, amount) == amount > 0 /\ Mined(id)
MayRelease(u, id, amount) == Releases(u, id, amount) => mft[u] >= lpt[id].v

Shrunk(id, removed, amount) ==
    LET token == [lpt[id] EXCEPT !.amount = @ - amount, !.last = removed.inside,
                                 !.v = IF amount > 0 THEN 0 ELSE @]
    IN IF token.amount = 0 THEN Burned(id, lpt) ELSE [lpt EXCEPT ![id] = token]

RemoveLiquidity(u, id, amount) ==
    LET removed == Removal(pool, lpt[id], amount)
    IN /\ IF amount = lpt[id].amount THEN UNCHANGED budget ELSE Spend("part")
       /\ settings.running /\ Unfrozen
       /\ u \in registered /\ lpt[id].owner = u
       /\ MayRelease(u, id, amount)
       /\ CanRemove(pool, lpt[id], amount)
       /\ Becomes(removed.pool)
       /\ lpt' = Shrunk(id, removed, amount)
       /\ mft' = [mft EXCEPT ![u] = IF Releases(u, id, amount) THEN @ - lpt[id].v ELSE @]
       /\ Sent(u, Plus(removed.returned, removed.fees))
       /\ UNCHANGED <<order, latest, asset, approved, rules, cash>>

\* batch_update_liquidity: liquidity moves to another range, through the
\* user's assets
UpdateLiquidity(u, id, amount, l, r, offered) ==
    LET removed == Removal(pool, lpt[id], amount)
        gained  == Plus(asset[u], Plus(removed.returned, removed.fees))
        added   == Added(removed.pool, l, r, offered)
    IN /\ Spend("liquidity")
       /\ settings.running /\ Unfrozen
       /\ u \in registered /\ lpt[id].owner = u
       /\ MayRelease(u, id, amount)
       /\ CanRemove(pool, lpt[id], amount)
       /\ amount = lpt[id].amount \/ HasSlot(u)
       /\ IsRange(pool, l, r) /\ CanAdd(removed.pool, l, r, offered)
       /\ Covered(added.need, offered) /\ Covered(offered, gained)
       /\ Becomes(added.pool)
       /\ lpt' = Minted(latest + 1, Shrunk(id, removed, amount), NewLpt(u, l, r, added))
       /\ latest' = latest + 1
       /\ asset' = [asset EXCEPT ![u] = Less(gained, offered)]
       /\ mft' = [mft EXCEPT ![u] = IF Releases(u, id, amount) THEN @ - lpt[id].v ELSE @]
       /\ Sent(u, Less(offered, added.need))
       /\ UNCHANGED <<order, approved, rules, cash>>

-----------------------------------------------------------------------------
(***************************************************************************)
(* Calls that come with tokens: ft_on_transfer.  A call that aborts gives   *)
(* them back, and a step is a call that does not.                           *)
(***************************************************************************)
Receives(t, amount) == cash' = [cash EXCEPT ![t] = @ + amount]

Deposit(u, t, amount) ==
    /\ Spend("asset")
    /\ settings.running /\ t \notin settings.frozen
    /\ u \in registered
    /\ Credited(u, Only(t, amount))
    /\ Receives(t, amount)
    /\ UNCHANGED <<pool, lpt, order, latest, tokens, rules, transfer>>

\* a swap that must finish, to the ends of the points; what it leaves over of
\* the amount is in nobody's name
LastPoint(t) == IF t = "x" THEN LeftMost + 1 ELSE RightMost - 1

Bought(u, t, s, paid) ==
    /\ Trading
    /\ Becomes(s.pool)
    /\ Sent(u, Only(Other(t), s.out))
    /\ Receives(t, paid)
    /\ UNCHANGED <<lpt, order, latest, asset, tokens, rules>>

BoughtAll(u, t, s, paid) == s.done /\ Bought(u, t, s, paid)

Swap(u, t, amount) ==
    /\ Spend("swap")
    /\ BoughtAll(u, t, Swapped(pool, t, amount, LastPoint(t), Terms(u)), amount)

\* what is not spent goes back
BoughtSome(u, t, s) == Bought(u, t, s, s.in)

SwapByStopPoint(u, t, amount, stop) ==
    /\ Spend("swap")
    /\ BoughtSome(u, t, Swapped(pool, t, amount, stop, Terms(u)))

\* one order of a user at a point
Places(u, g, t, p, amount) ==
    /\ CanAddOrder(g, t, p, amount)
    /\ HasSlot(u)
    /\ \A i \in DOMAIN order : order[i].owner = u => order[i].point # p
    /\ Becomes(OrderAdded(g, t, p, amount))
    /\ order' = Minted(latest + 1, order,
                       [owner |-> u, token |-> t, point |-> p, remain |-> amount,
                        last |-> OrderSeen(g, t, p)])
    /\ latest' = latest + 1

LimitOrder(u, t, p, amount) ==
    /\ Spend("order")
    /\ settings.running /\ Unfrozen
    /\ Places(u, pool, t, p, amount)
    /\ Receives(t, amount)
    /\ UNCHANGED <<lpt, asset, tokens, rules, transfer>>

\* the swap goes through the point of the order, which sells the rest
OrdersRest(u, t, p, amount, s) ==
    /\ IF s.done
       THEN Becomes(s.pool) /\ UNCHANGED <<order, latest>>
       ELSE Sound(s.pool) /\ Places(u, s.pool, t, p, amount - s.in)
    /\ Sent(u, Only(Other(t), s.out))

LimitOrderWithSwap(u, t, p, amount) ==
    /\ Spend("order")
    /\ Trading
    /\ p % pool.delta = 0
    /\ OrdersRest(u, t, p, amount,
                  Swapped(pool, t, amount, IF t = "x" THEN p ELSE p + 1, Terms(u)))
    /\ Receives(t, amount)
    /\ UNCHANGED <<lpt, asset, tokens, rules>>

\* a part is swapped and all is offered as liquidity; the rest is kept
AddsBought(u, l, r, s, offered) ==
    LET added == Added(s.pool, l, r, offered)
    IN /\ s.done /\ Sound(s.pool)
       /\ CanAdd(s.pool, l, r, offered) /\ Covered(added.need, offered)
       /\ Becomes(added.pool)
       /\ lpt' = Minted(latest + 1, lpt, NewLpt(u, l, r, added))
       /\ latest' = latest + 1
       /\ Credited(u, Less(offered, added.need))

Zaps(u, t, kept, l, r, s) ==
    AddsBought(u, l, r, s, Plus(Only(t, kept), Only(Other(t), s.out)))

HotZap(u, t, amount, part, l, r) ==
    /\ Spend("liquidity")
    /\ Trading
    /\ HasSlot(u)
    /\ part <= amount /\ IsRange(pool, l, r)
    /\ Zaps(u, t, amount - part, l, r, Swapped(pool, t, part, LastPoint(t), Terms(u)))
    /\ Receives(t, amount)
    /\ UNCHANGED <<order, tokens, rules, transfer>>

-----------------------------------------------------------------------------
CancelOrder(u, id, amount) ==
    LET after == Cancelled(pool, order[id], amount)
    IN /\ IF amount >= order[id].remain THEN UNCHANGED budget ELSE Spend("part")
       /\ settings.running /\ Unfrozen
       /\ order[id].owner = u
       /\ CanCancel(pool, order[id], amount)
       /\ Becomes(after.pool)
       /\ order' = IF after.order.remain = 0 THEN Burned(id, order)
                   ELSE [order EXCEPT ![id] = after.order]
       /\ Sent(u, Plus(Only(order[id].token, after.cancel),
                       Only(Other(order[id].token), after.earned)))
       /\ UNCHANGED <<lpt, latest, asset, tokens, rules, cash>>

WithdrawAsset(u, t, amount) ==
    /\ Spend("asset")
    /\ settings.running /\ t \notin settings.frozen
    /\ u \in registered
    /\ 0 < amount /\ amount <= asset[u][t]
    /\ asset' = [asset EXCEPT ![u][t] = @ - amount]
    /\ Sent(u, Only(t, amount))
    /\ UNCHANGED <<pool, lpt, order, latest, tokens, rules, cash>>

\* the token contract moves the tokens, and the callback has nothing to do
TransferSucceeds(m) ==
    /\ cash[m.token] >= m.amount
    /\ cash' = [cash EXCEPT ![m.token] = @ - m.amount]
    /\ transfer' = transfer (-) SetToBag({m})
    /\ UNCHANGED <<pool, lpt, order, latest, asset, tokens, rules, budget>>

\* callback_post_withdraw_asset: the tokens are kept for the user, if there
\* still is one
TransferFails(m) ==
    /\ Spend("failure")
    /\ transfer' = transfer (-) SetToBag({m})
    /\ asset' = IF m.user \in registered
                THEN [asset EXCEPT ![m.user][m.token] = @ + m.amount] ELSE asset
    /\ UNCHANGED <<pool, lpt, order, latest, tokens, rules, cash>>

-----------------------------------------------------------------------------
(***************************************************************************)
(* Accounts, and tokens made of LP tokens: an LP token may be given away by *)
(* its owner and by accounts he approved, and its v-liquidity may be staked *)
(* in the farming contract while the liquidity stays in the pool.           *)
(***************************************************************************)
StorageDeposit(u) ==
    /\ Spend("account")
    /\ settings.running
    /\ u \notin registered
    /\ registered' = registered \union {u}
    /\ UNCHANGED <<pool, lpt, order, latest, asset, tokens, transfer, cash, settings>>

StorageUnregister(u) ==
    /\ Spend("account")
    /\ settings.running
    /\ u \in registered
    /\ asset[u] = Nothing /\ mft[u] = 0 /\ Holding(u) = 0
    /\ registered' = registered \ {u}
    /\ UNCHANGED <<pool, lpt, order, latest, asset, tokens, transfer, cash, settings>>

\* calc_fix_range_v_liquidity
Farmed(token) ==
    LET common == Min({token.right, FarmRange[2]}) - Max({token.left, FarmRange[1]})
    IN (Max({common, 0}) * Max({common, 0}) * token.amount) \div Mining

MintVLiquidity(u, id) ==
    /\ Spend("token")
    /\ settings.running
    /\ u \in registered /\ lpt[id].owner = u /\ ~Mined(id)
    /\ lpt[id].amount >= Mining /\ Farmed(lpt[id]) > 0
    /\ lpt' = [lpt EXCEPT ![id].v = Farmed(lpt[id])]
    /\ mft' = [mft EXCEPT ![u] = @ + Farmed(lpt[id])]
    /\ UNCHANGED <<pool, order, latest, asset, approved, rules, transfer, cash>>

BurnVLiquidity(u, id) ==
    /\ Spend("token")
    /\ settings.running
    /\ u \in registered /\ lpt[id].owner = u /\ Mined(id)
    /\ mft[u] >= lpt[id].v
    /\ lpt' = [lpt EXCEPT ![id].v = 0]
    /\ mft' = [mft EXCEPT ![u] = @ - lpt[id].v]
    /\ UNCHANGED <<pool, order, latest, asset, approved, rules, transfer, cash>>

\* internal_mft_transfer, to the farming contract and back
MftTransfer(u, w, amount) ==
    /\ Spend("token")
    /\ settings.running
    /\ u \in registered /\ w \in registered /\ u # w
    /\ 0 < amount /\ amount <= mft[u]
    /\ mft' = [mft EXCEPT ![u] = @ - amount, ![w] = @ + amount]
    /\ UNCHANGED <<pool, lpt, order, latest, asset, approved, rules, transfer, cash>>

NftApprove(u, id, w) ==
    /\ Spend("token")
    /\ settings.running
    /\ lpt[id].owner = u
    /\ approved' = Minted(id, approved, (IF id \in DOMAIN approved THEN approved[id] ELSE {})
                                            \union {w})
    /\ UNCHANGED <<pool, lpt, order, latest, asset, mft, rules, transfer, cash>>

NftRevoke(u, id, w) ==
    /\ Spend("token")
    /\ settings.running
    /\ lpt[id].owner = u
    /\ id \in DOMAIN approved /\ w \in approved[id]
    /\ approved' = IF approved[id] = {w} THEN Burned(id, approved)
                   ELSE [approved EXCEPT ![id] = @ \ {w}]
    /\ UNCHANGED <<pool, lpt, order, latest, asset, mft, rules, transfer, cash>>

NftTransfer(u, id, w) ==
    /\ Spend("token")
    /\ settings.running
    /\ ~Mined(id)
    /\ u = lpt[id].owner \/ (id \in DOMAIN approved /\ u \in approved[id])
    /\ w # lpt[id].owner /\ HasSlot(w)
    /\ lpt' = [lpt EXCEPT ![id].owner = w]
    /\ approved' = Burned(id, approved)
    /\ UNCHANGED <<pool, order, latest, asset, mft, rules, transfer, cash>>

-----------------------------------------------------------------------------
(***************************************************************************)
(* The owner and the operators.                                             *)
(***************************************************************************)
Manages ==
    /\ Spend("manage")
    /\ UNCHANGED <<lpt, order, latest, registered, tokens, transfer, cash>>

SetPool(running) ==
    /\ Manages
    /\ settings.running /\ pool.running # running
    /\ pool' = [pool EXCEPT !.running = running]
    /\ UNCHANGED <<asset, settings>>

Setting(changed) ==
    /\ Manages
    /\ settings' = changed
    /\ UNCHANGED <<pool, asset>>

SetContract(running) ==
    /\ settings.running # running
    /\ Setting([settings EXCEPT !.running = running])

ExtendFrozenlist(t) == Setting([settings EXCEPT !.frozen = @ \union {t}])

RemoveFrozenlist(t) ==
    /\ t \in settings.frozen
    /\ Setting([settings EXCEPT !.frozen = @ \ {t}])

SetVipUser(u, discount) == Setting([settings EXCEPT !.vip[u] = discount])

RemoveVipUser(u) == Setting([settings EXCEPT !.vip[u] = Whole])

ModifyProtocolFeeRate(rate) ==
    /\ settings.running
    /\ Setting([settings EXCEPT !.protocol = rate])

\* claim_charged_fee: to the owner, whoever of them calls
ClaimChargedFee ==
    /\ Manages
    /\ settings.running
    /\ Owner \in registered
    /\ Becomes([pool EXCEPT !.charged = Nothing, !.total = Less(@, pool.charged)])
    /\ Credited(Owner, pool.charged)
    /\ UNCHANGED settings

-----------------------------------------------------------------------------
\* a pool that was just created, and later ones that calls lead to
Init ==
    \E s \in Starts :
        /\ pool = s.pool /\ lpt = s.lpt /\ order = s.order /\ latest = s.latest
        /\ budget = s.budget
        /\ registered = Accounts
        /\ asset = [u \in Accounts |-> IF u \in Users THEN s.asset ELSE Nothing]
        /\ mft = [u \in Accounts |-> 0]
        /\ approved = << >>
        /\ transfer = NoTransfer
        /\ cash = [t \in Tokens |->
                     s.pool.total[t] + Cardinality(Users) * s.asset[t]]
        /\ settings = [running |-> TRUE, frozen |-> {}, protocol |-> s.protocol,
                       vip |-> [u \in Users |-> Whole]]

Supplying ==
    \E u \in Users :
        \/ \E range \in Ranges, amount \in Supplies :
             \/ AddLiquidity(u, range[1], range[2], amount)
             \/ \E id \in DOMAIN lpt :
                  UpdateLiquidity(u, id, lpt[id].amount, range[1], range[2], amount)
        \/ \E id \in DOMAIN lpt :
             \/ \E amount \in Supplies : AppendLiquidity(u, id, amount)
             \/ \E other \in DOMAIN lpt : MergeLiquidity(u, id, other)
             \/ \E amount \in {0, lpt[id].amount \div 2, lpt[id].amount} :
                  RemoveLiquidity(u, id, amount)
        \/ \E range \in Ranges, t \in Tokens, amount \in Amounts :
             HotZap(u, t, amount, amount \div 2, range[1], range[2])

Exchanging ==
    \E u \in Users, t \in Tokens :
        \/ \E amount \in Amounts :
             \/ Deposit(u, t, amount)
             \/ Swap(u, t, amount)
             \/ \E p \in Stops :
                  \/ SwapByStopPoint(u, t, amount, p)
                  \/ LimitOrder(u, t, p, amount)
                  \/ LimitOrderWithSwap(u, t, p, amount)
        \/ WithdrawAsset(u, t, asset[u][t])
        \/ \E id \in DOMAIN order :
             \E amount \in {0, order[id].remain \div 2, order[id].remain} :
                CancelOrder(u, id, amount)

Transferring == \E m \in BagToSet(transfer) : TransferSucceeds(m) \/ TransferFails(m)

Owning ==
    \/ \E u \in Users :
         \/ StorageDeposit(u)
         \/ StorageUnregister(u)
         \/ \E id \in DOMAIN lpt :
              \/ MintVLiquidity(u, id)
              \/ BurnVLiquidity(u, id)
              \/ \E w \in Users :
                   \/ NftApprove(u, id, w)
                   \/ NftRevoke(u, id, w)
                   \/ NftTransfer(u, id, w)
         \/ MftTransfer(u, Farm, mft[u])
         \/ MftTransfer(Farm, u, mft[Farm])

Managing ==
    \/ \E running \in BOOLEAN : SetPool(running) \/ SetContract(running)
    \/ \E t \in Tokens : ExtendFrozenlist(t) \/ RemoveFrozenlist(t)
    \/ \E u \in Users :
         \/ \E discount \in Discounts : SetVipUser(u, discount)
         \/ RemoveVipUser(u)
    \/ \E rate \in ProtocolRates : ModifyProtocolFeeRate(rate)
    \/ ClaimChargedFee

Next == Supplying \/ Exchanging \/ Transferring \/ Owning \/ Managing

Spec == Init /\ [][Next]_vars

-----------------------------------------------------------------------------
(***************************************************************************)
(* Properties.                                                              *)
(***************************************************************************)
Total(ids, amount(_)) == FoldSet(LAMBDA i, sum : sum + amount(i), 0, ids)

\* The liquidity a swap trades with is what the LP tokens that cover its point
\* have, however often the point moved over the ends of their ranges
\* (pass_endpoint), and the ends know what moving over them changes; orders
\* that are for sale add up to what the pool counts as theirs.
LiquidityAddsUp ==
    LET amount(i) == lpt[i].amount
        ids(Test(_)) == {i \in DOMAIN lpt : Test(lpt[i])}
    IN /\ pool.liquidity = Total(ids(LAMBDA k : Covers(pool, k.left, k.right)), amount)
       /\ pool.liquidityX \in 0..pool.liquidity
       /\ pool.totalLiquidity = Total(DOMAIN lpt, amount)
       /\ \A p \in Points :
            LET starts == Total(ids(LAMBDA k : k.left = p), amount)
                stops  == Total(ids(LAMBDA k : k.right = p), amount)
            IN pool.range[p].sum = starts + stops /\ pool.range[p].delta = starts - stops
       /\ \A t \in Tokens :
            pool.totalOrder[t] = Total(Points, LAMBDA p : pool.order[p].sale[t].selling)

\* A swap never leaves an order behind that it could have bought from: orders
\* for y are at or below the current point, orders for x at or above it.  The
\* bitmap must lead each swap to each of them.
NoOrderPassed ==
    \A p \in Points :
        /\ pool.order[p].sale["y"].selling > 0 => p <= pool.current
        /\ pool.order[p].sale["x"].selling > 0 => p >= pool.current

\* Everyone can take out liquidity and orders at any time, in any order: no
\* rounding of a trade or a fee makes a subtraction of remove_liquidity or
\* cancel_order underflow; when all have left, the protocol's fees are there
\* and nothing is for sale.
EveryoneCanLeave ==
    /\ \A i \in DOMAIN lpt : CanRemove(pool, lpt[i], lpt[i].amount)
    /\ \A i \in DOMAIN order :
         CanCancel(pool, order[i], order[i].remain)
    /\ DOMAIN lpt = {} /\ DOMAIN order = {} =>
         /\ Covered(pool.charged, pool.total)
         /\ pool.totalOrder = Nothing /\ pool.marked = {}

\* The contract has the tokens of the pool, of its users and of the transfers
\* that are under way, whatever call or callback failed.
TokensHeld ==
    \A t \in Tokens :
        pool.total[t]
            + Total(Accounts, LAMBDA u : asset[u][t])
            + Total(BagToSet(transfer),
                    LAMBDA m : IF m.token = t THEN m.amount * CopiesIn(m, transfer) ELSE 0)
          <= cash[t]

\* No swap there and back gains anything, even for a user who pays no fee: all
\* roundings, at points, over ranges and at orders, are for the pool; and no
\* swap aborts on an underflow.
NoFreeLunch ==
    LET terms == [fee |-> 0, protocol |-> settings.protocol]
        Far(g, t, amount) == Swapped(g, t, amount, LastPoint(t), terms)
        GainsNothing(t, amount, there) ==
            /\ Sound(there.pool) /\ there.in <= amount
            /\ Far(there.pool, Other(t), there.out).out <= there.in
    IN \A t \in Tokens, amount \in Amounts : GainsNothing(t, amount, Far(pool, t, amount))
==============================================================================
