-------------------------- MODULE MarginInvariant ---------------------------
(***************************************************************************)
(* The inductive invariant of Margin, for any accounts, tokens, pairs and  *)
(* rates, and any number of positions traded at once; that the calls of    *)
(* accounts keep it, and the callback of a trade that failed.              *)
(* MarginProofs has the answers of the exchange and the theorems.          *)
(*                                                                         *)
(* An action touches one position, at most two assets and the entries of   *)
(* at most three accounts.  The totals of the books are sums over all      *)
(* positions, so the proof compares what the action changes in the asset   *)
(* with what it changes in the entry of its position.                      *)
(***************************************************************************)
EXTENDS Margin, PoolProofs

\* Where it does not hold the code loses shares and claims (README.md): the fee
\* of a stop in the token an opening borrows is overwritten.
FeeApart == \A pair \in Pairs : pair.d # StopFee.token

-----------------------------------------------------------------------------
(***************************************************************************)
(* What one position, with its trade and its stop, adds to the totals of   *)
(* token t.                                                                *)
(***************************************************************************)
PledgedIn(pos, t) == IF pos # NoPosition /\ pos.c = t THEN pos.c_shares ELSE 0
OwedIn(pos, t)    == IF pos # NoPosition /\ pos.d = t THEN pos.d_shares ELSE 0
BoughtIn(pos, t)  == IF pos # NoPosition /\ pos.p = t THEN pos.p_amount ELSE 0

AskedIn(pos, tr, t) ==
    IF tr # NoTrade /\ tr.op = "open" /\ pos.d = t THEN tr.amount_in ELSE 0

AwayIn(pos, tr, t) ==
    IF tr # NoTrade /\ tr.stage \in {"swapped", "blocked"} THEN AskedIn(pos, tr, t) ELSE 0

OnSaleIn(pos, tr, t) ==
    IF tr # NoTrade /\ tr.op # "open" /\ tr.stage = "sent" /\ pos.p = t THEN tr.amount_in ELSE 0

FeeIn(st, t) == IF t # StopFee.token \/ st = NoStop THEN 0 ELSE st.amount

AllPledged(t) == SumFunction([i \in PosIds |-> PledgedIn(position[i], t)])
AllOwed(t)    == SumFunction([i \in PosIds |-> OwedIn(position[i], t)])
AllBought(t)  == SumFunction([i \in PosIds |-> BoughtIn(position[i], t)])
AllAsked(t)   == SumFunction([i \in PosIds |-> AskedIn(position[i], trade[i], t)])
AllAway(t)    == SumFunction([i \in PosIds |-> AwayIn(position[i], trade[i], t)])
AllOnSale(t)  == SumFunction([i \in PosIds |-> OnSaleIn(position[i], trade[i], t)])
AllFees(t)    == SumFunction([i \in PosIds |-> FeeIn(stop[i], t)])

\* the shares in the entries of token t of two tables
Entries(f, g, t) == SumFunction([a \in Accounts |-> f[a][t] + g[a][t]])

Held(t) == Entries(supplied, margin, t)

-----------------------------------------------------------------------------
(***************************************************************************)
(* The inductive invariant.                                                *)
(***************************************************************************)
PositionFits(i) ==
    LET pos == position[i]
    IN  /\ i \in opened
        /\ pos.account \in Traders
        /\ pos.d # pos.p /\ pos.c \in {pos.d, pos.p}
        /\ \E pair \in Pairs : pos.d = pair.d
        /\ pos.uahpi_at_open <= asset[pos.d].hp
        /\ (trade[i] # NoTrade => trade[i].op # "open") => pos.d_shares > 0

\* an opening has borrowed and bought nothing yet; what another trade was to
\* sell has been taken from the position
TradeFits(i) ==
    LET pos == position[i]
        tr  == trade[i]
    IN  IF tr.op = "open"
        THEN tr.amount_in > 0 /\ pos.d_shares = 0 /\ pos.p_amount = 0
        ELSE /\ pos.p_amount = tr.pre - Least(tr.amount_in, tr.pre)
             /\ tr.amount_in > tr.pre => pos.c = pos.p
             /\ tr.by \in Traders \cup Keepers
             /\ tr.op = "liquidate" => tr.by # pos.account

Fits(i) ==
    /\ i \in acting <=> trade[i] # NoTrade
    /\ trade[i] # NoTrade <=> position[i] # NoPosition /\ position[i].is_locking
    /\ position[i] # NoPosition => PositionFits(i)
    /\ trade[i] # NoTrade => TradeFits(i)
    /\ stop[i] # NoStop => i \in opened

AllFit == \A i \in PosIds : Fits(i)

SupplySound(ast) ==
    /\ PoolInvariant(ast.supplied)
    /\ ast.supplied.shares = 0 => ast.supplied.balance = 0

AllSound == \A t \in Tokens : SupplySound(asset[t]) /\ SoundPool(asset[t].margin_debt)

\* the asset's own part of the books
Matched(t) ==
    /\ asset[t].pending = AllAsked(t)
    /\ asset[t].margin_debt.shares = AllOwed(t)
    /\ asset[t].position = AllBought(t)

\* Nobody has a share the pool does not have.
Kept(t) == Held(t) + AllPledged(t) <= asset[t].supplied.shares

\* what is owed to the asset less what the asset owes
Worth(ast) == ast.margin_debt.balance - ast.supplied.balance - ast.reserved - ast.prot_fee
             - ast.position

Covers(t) ==
    FeeApart => cash[t] + debts[t] + Worth(asset[t]) + AllAway(t) >= AllOnSale(t) + AllFees(t)

Books == \A t \in Tokens : Matched(t) /\ Kept(t) /\ Covers(t)

Inv == TypeOK /\ AllFit /\ AllSound /\ Books

-----------------------------------------------------------------------------
(***************************************************************************)
(* Types of the entries, and the sums when one position changes.           *)
(***************************************************************************)
Records(pos, tr, st) ==
    /\ pos \in PositionType \cup {NoPosition}
    /\ tr \in TradeType \cup {NoTrade}
    /\ st \in StopType \cup {NoStop}

\* What a position adds to a total is a number.
LEMMA EntryTypes ==
  ASSUME NEW pos, NEW tr, NEW st, Records(pos, tr, st), NEW t
  PROVE  /\ PledgedIn(pos, t) \in Nat /\ OwedIn(pos, t) \in Nat /\ BoughtIn(pos, t) \in Nat
         /\ AskedIn(pos, tr, t) \in Nat /\ AwayIn(pos, tr, t) \in Nat
         /\ OnSaleIn(pos, tr, t) \in Nat /\ FeeIn(st, t) \in Nat
<1>1. pos # NoPosition => /\ pos.c_shares \in Nat /\ pos.d_shares \in Nat
                          /\ pos.p_amount \in Nat
  BY DEF Records, PositionType
<1>2. tr # NoTrade => tr.amount_in \in Nat
  BY DEF Records, TradeType
<1>3. st # NoStop => st.amount \in Nat
  BY DEF Records, StopType
<1>4. PledgedIn(pos, t) \in Nat /\ OwedIn(pos, t) \in Nat /\ BoughtIn(pos, t) \in Nat
  BY <1>1 DEF PledgedIn, OwedIn, BoughtIn
<1>5. AskedIn(pos, tr, t) \in Nat /\ OnSaleIn(pos, tr, t) \in Nat
  BY <1>2 DEF AskedIn, OnSaleIn
<1>6. AwayIn(pos, tr, t) \in Nat
  BY <1>5 DEF AwayIn
<1>7. FeeIn(st, t) \in Nat
  BY <1>3 DEF FeeIn
<1> QED BY <1>4, <1>5, <1>6, <1>7

\* The sum over the positions of what an operator yields for each, when only
\* the entry of i changes.
LEMMA PositionSum ==
  ASSUME NEW f, NEW g, NEW i \in PosIds,
         \A j \in PosIds : f[j] \in Nat /\ g[j] \in Nat,
         \A j \in PosIds \ {i} : f[j] = g[j]
  PROVE  SumFunctionOnSet(g, PosIds) = SumFunctionOnSet(f, PosIds) - f[i] + g[i]
<1>1. IsFiniteSet(PosIds)
  BY MarginAccountsAssumption
<1> QED BY <1>1, SumChange

\* the records of the positions but i are left alone
OnlyPosition(i) ==
    \A j \in PosIds \ {i} : position'[j] = position[j] /\ trade'[j] = trade[j] /\ stop'[j] = stop[j]

\* The totals change by what the one position adds to them.
LEMMA Totals ==
  ASSUME TypeOK, TypeOK', NEW i \in PosIds, OnlyPosition(i), NEW t \in Tokens
  PROVE  /\ AllPledged(t)' = AllPledged(t) - PledgedIn(position[i], t) + PledgedIn(position'[i], t)
         /\ AllOwed(t)' = AllOwed(t) - OwedIn(position[i], t) + OwedIn(position'[i], t)
         /\ AllBought(t)' = AllBought(t) - BoughtIn(position[i], t) + BoughtIn(position'[i], t)
         /\ AllAsked(t)' = AllAsked(t) - AskedIn(position[i], trade[i], t)
                                       + AskedIn(position'[i], trade'[i], t)
         /\ AllAway(t)' = AllAway(t) - AwayIn(position[i], trade[i], t)
                                     + AwayIn(position'[i], trade'[i], t)
         /\ AllOnSale(t)' = AllOnSale(t) - OnSaleIn(position[i], trade[i], t)
                                         + OnSaleIn(position'[i], trade'[i], t)
         /\ AllFees(t)' = AllFees(t) - FeeIn(stop[i], t) + FeeIn(stop'[i], t)
<1>1. \A j \in PosIds : Records(position[j], trade[j], stop[j])
  BY DEF TypeOK, Records
<1>2. \A j \in PosIds : Records(position'[j], trade'[j], stop'[j])
  BY DEF TypeOK, Records
<1>3. \A j \in PosIds \ {i} : position'[j] = position[j] /\ trade'[j] = trade[j] /\ stop'[j] = stop[j]
  BY DEF OnlyPosition
<1>4. AllPledged(t)' = AllPledged(t) - PledgedIn(position[i], t) + PledgedIn(position'[i], t)
  <2> DEFINE f == [j \in PosIds |-> PledgedIn(position[j], t)]
             g == [j \in PosIds |-> PledgedIn(position'[j], t)]
  <2>1. \A j \in PosIds : f[j] \in Nat /\ g[j] \in Nat
    BY <1>1, <1>2, EntryTypes
  <2>2. \A j \in PosIds \ {i} : f[j] = g[j]
    BY <1>3
  <2>3. f[i] = PledgedIn(position[i], t) /\ g[i] = PledgedIn(position'[i], t)
    OBVIOUS
  <2>4. AllPledged(t) = SumFunctionOnSet(f, PosIds) /\ AllPledged(t)' = SumFunctionOnSet(g, PosIds)
    BY DEF AllPledged, SumFunction
  <2> HIDE DEF f, g
  <2> QED BY <2>1, <2>2, <2>3, <2>4, PositionSum
<1>5. AllOwed(t)' = AllOwed(t) - OwedIn(position[i], t) + OwedIn(position'[i], t)
  <2> DEFINE f == [j \in PosIds |-> OwedIn(position[j], t)]
             g == [j \in PosIds |-> OwedIn(position'[j], t)]
  <2>1. \A j \in PosIds : f[j] \in Nat /\ g[j] \in Nat
    BY <1>1, <1>2, EntryTypes
  <2>2. \A j \in PosIds \ {i} : f[j] = g[j]
    BY <1>3
  <2>3. f[i] = OwedIn(position[i], t) /\ g[i] = OwedIn(position'[i], t)
    OBVIOUS
  <2>4. AllOwed(t) = SumFunctionOnSet(f, PosIds) /\ AllOwed(t)' = SumFunctionOnSet(g, PosIds)
    BY DEF AllOwed, SumFunction
  <2> HIDE DEF f, g
  <2> QED BY <2>1, <2>2, <2>3, <2>4, PositionSum
<1>6. AllBought(t)' = AllBought(t) - BoughtIn(position[i], t) + BoughtIn(position'[i], t)
  <2> DEFINE f == [j \in PosIds |-> BoughtIn(position[j], t)]
             g == [j \in PosIds |-> BoughtIn(position'[j], t)]
  <2>1. \A j \in PosIds : f[j] \in Nat /\ g[j] \in Nat
    BY <1>1, <1>2, EntryTypes
  <2>2. \A j \in PosIds \ {i} : f[j] = g[j]
    BY <1>3
  <2>3. f[i] = BoughtIn(position[i], t) /\ g[i] = BoughtIn(position'[i], t)
    OBVIOUS
  <2>4. AllBought(t) = SumFunctionOnSet(f, PosIds) /\ AllBought(t)' = SumFunctionOnSet(g, PosIds)
    BY DEF AllBought, SumFunction
  <2> HIDE DEF f, g
  <2> QED BY <2>1, <2>2, <2>3, <2>4, PositionSum
<1>7. AllAsked(t)' = AllAsked(t) - AskedIn(position[i], trade[i], t) + AskedIn(position'[i], trade'[i], t)
  <2> DEFINE f == [j \in PosIds |-> AskedIn(position[j], trade[j], t)]
             g == [j \in PosIds |-> AskedIn(position'[j], trade'[j], t)]
  <2>1. \A j \in PosIds : f[j] \in Nat /\ g[j] \in Nat
    BY <1>1, <1>2, EntryTypes
  <2>2. \A j \in PosIds \ {i} : f[j] = g[j]
    BY <1>3
  <2>3. f[i] = AskedIn(position[i], trade[i], t) /\ g[i] = AskedIn(position'[i], trade'[i], t)
    OBVIOUS
  <2>4. AllAsked(t) = SumFunctionOnSet(f, PosIds) /\ AllAsked(t)' = SumFunctionOnSet(g, PosIds)
    BY DEF AllAsked, SumFunction
  <2> HIDE DEF f, g
  <2> QED BY <2>1, <2>2, <2>3, <2>4, PositionSum
<1>8. AllAway(t)' = AllAway(t) - AwayIn(position[i], trade[i], t) + AwayIn(position'[i], trade'[i], t)
  <2> DEFINE f == [j \in PosIds |-> AwayIn(position[j], trade[j], t)]
             g == [j \in PosIds |-> AwayIn(position'[j], trade'[j], t)]
  <2>1. \A j \in PosIds : f[j] \in Nat /\ g[j] \in Nat
    BY <1>1, <1>2, EntryTypes
  <2>2. \A j \in PosIds \ {i} : f[j] = g[j]
    BY <1>3
  <2>3. f[i] = AwayIn(position[i], trade[i], t) /\ g[i] = AwayIn(position'[i], trade'[i], t)
    OBVIOUS
  <2>4. AllAway(t) = SumFunctionOnSet(f, PosIds) /\ AllAway(t)' = SumFunctionOnSet(g, PosIds)
    BY DEF AllAway, SumFunction
  <2> HIDE DEF f, g
  <2> QED BY <2>1, <2>2, <2>3, <2>4, PositionSum
<1>9. AllOnSale(t)' = AllOnSale(t) - OnSaleIn(position[i], trade[i], t) + OnSaleIn(position'[i], trade'[i], t)
  <2> DEFINE f == [j \in PosIds |-> OnSaleIn(position[j], trade[j], t)]
             g == [j \in PosIds |-> OnSaleIn(position'[j], trade'[j], t)]
  <2>1. \A j \in PosIds : f[j] \in Nat /\ g[j] \in Nat
    BY <1>1, <1>2, EntryTypes
  <2>2. \A j \in PosIds \ {i} : f[j] = g[j]
    BY <1>3
  <2>3. f[i] = OnSaleIn(position[i], trade[i], t) /\ g[i] = OnSaleIn(position'[i], trade'[i], t)
    OBVIOUS
  <2>4. AllOnSale(t) = SumFunctionOnSet(f, PosIds) /\ AllOnSale(t)' = SumFunctionOnSet(g, PosIds)
    BY DEF AllOnSale, SumFunction
  <2> HIDE DEF f, g
  <2> QED BY <2>1, <2>2, <2>3, <2>4, PositionSum
<1>10. AllFees(t)' = AllFees(t) - FeeIn(stop[i], t) + FeeIn(stop'[i], t)
  <2> DEFINE f == [j \in PosIds |-> FeeIn(stop[j], t)]
             g == [j \in PosIds |-> FeeIn(stop'[j], t)]
  <2>1. \A j \in PosIds : f[j] \in Nat /\ g[j] \in Nat
    BY <1>1, <1>2, EntryTypes
  <2>2. \A j \in PosIds \ {i} : f[j] = g[j]
    BY <1>3
  <2>3. f[i] = FeeIn(stop[i], t) /\ g[i] = FeeIn(stop'[i], t)
    OBVIOUS
  <2>4. AllFees(t) = SumFunctionOnSet(f, PosIds) /\ AllFees(t)' = SumFunctionOnSet(g, PosIds)
    BY DEF AllFees, SumFunction
  <2> HIDE DEF f, g
  <2> QED BY <2>1, <2>2, <2>3, <2>4, PositionSum
<1> QED BY <1>4, <1>5, <1>6, <1>7, <1>8, <1>9, <1>10

\* A total is a number, and no position adds more to it than it is.
LEMMA TotalBounds ==
  ASSUME TypeOK, NEW t \in Tokens
  PROVE  /\ AllPledged(t) \in Nat /\ AllOwed(t) \in Nat /\ AllBought(t) \in Nat
         /\ AllAsked(t) \in Nat /\ AllAway(t) \in Nat /\ AllOnSale(t) \in Nat
         /\ AllFees(t) \in Nat
         /\ \A i \in PosIds : /\ PledgedIn(position[i], t) <= AllPledged(t)
                              /\ OwedIn(position[i], t) <= AllOwed(t)
                              /\ BoughtIn(position[i], t) <= AllBought(t)
                              /\ AskedIn(position[i], trade[i], t) <= AllAsked(t)
<1>1. \A j \in PosIds : Records(position[j], trade[j], stop[j])
  BY DEF TypeOK, Records
<1>2. IsFiniteSet(PosIds)
  BY MarginAccountsAssumption
<1>3. AllPledged(t) \in Nat /\ \A i \in PosIds : PledgedIn(position[i], t) <= AllPledged(t)
  <2> DEFINE f == [j \in PosIds |-> PledgedIn(position[j], t)]
  <2>1. \A j \in PosIds : f[j] \in Nat /\ f[j] = PledgedIn(position[j], t)
    BY <1>1, EntryTypes
  <2>2. AllPledged(t) = SumFunctionOnSet(f, PosIds)
    BY DEF AllPledged, SumFunction
  <2> HIDE DEF f
  <2> QED BY <1>2, <2>1, <2>2, SumType, SumBound
<1>4. AllOwed(t) \in Nat /\ \A i \in PosIds : OwedIn(position[i], t) <= AllOwed(t)
  <2> DEFINE f == [j \in PosIds |-> OwedIn(position[j], t)]
  <2>1. \A j \in PosIds : f[j] \in Nat /\ f[j] = OwedIn(position[j], t)
    BY <1>1, EntryTypes
  <2>2. AllOwed(t) = SumFunctionOnSet(f, PosIds)
    BY DEF AllOwed, SumFunction
  <2> HIDE DEF f
  <2> QED BY <1>2, <2>1, <2>2, SumType, SumBound
<1>5. AllBought(t) \in Nat /\ \A i \in PosIds : BoughtIn(position[i], t) <= AllBought(t)
  <2> DEFINE f == [j \in PosIds |-> BoughtIn(position[j], t)]
  <2>1. \A j \in PosIds : f[j] \in Nat /\ f[j] = BoughtIn(position[j], t)
    BY <1>1, EntryTypes
  <2>2. AllBought(t) = SumFunctionOnSet(f, PosIds)
    BY DEF AllBought, SumFunction
  <2> HIDE DEF f
  <2> QED BY <1>2, <2>1, <2>2, SumType, SumBound
<1>6. AllAsked(t) \in Nat /\ \A i \in PosIds : AskedIn(position[i], trade[i], t) <= AllAsked(t)
  <2> DEFINE f == [j \in PosIds |-> AskedIn(position[j], trade[j], t)]
  <2>1. \A j \in PosIds : f[j] \in Nat /\ f[j] = AskedIn(position[j], trade[j], t)
    BY <1>1, EntryTypes
  <2>2. AllAsked(t) = SumFunctionOnSet(f, PosIds)
    BY DEF AllAsked, SumFunction
  <2> HIDE DEF f
  <2> QED BY <1>2, <2>1, <2>2, SumType, SumBound
<1>7. AllAway(t) \in Nat
  <2> DEFINE f == [j \in PosIds |-> AwayIn(position[j], trade[j], t)]
  <2>1. \A j \in PosIds : f[j] \in Nat /\ f[j] = AwayIn(position[j], trade[j], t)
    BY <1>1, EntryTypes
  <2>2. AllAway(t) = SumFunctionOnSet(f, PosIds)
    BY DEF AllAway, SumFunction
  <2> HIDE DEF f
  <2> QED BY <1>2, <2>1, <2>2, SumType
<1>8. AllOnSale(t) \in Nat
  <2> DEFINE f == [j \in PosIds |-> OnSaleIn(position[j], trade[j], t)]
  <2>1. \A j \in PosIds : f[j] \in Nat /\ f[j] = OnSaleIn(position[j], trade[j], t)
    BY <1>1, EntryTypes
  <2>2. AllOnSale(t) = SumFunctionOnSet(f, PosIds)
    BY DEF AllOnSale, SumFunction
  <2> HIDE DEF f
  <2> QED BY <1>2, <2>1, <2>2, SumType
<1>9. AllFees(t) \in Nat
  <2> DEFINE f == [j \in PosIds |-> FeeIn(stop[j], t)]
  <2>1. \A j \in PosIds : f[j] \in Nat /\ f[j] = FeeIn(stop[j], t)
    BY <1>1, EntryTypes
  <2>2. AllFees(t) = SumFunctionOnSet(f, PosIds)
    BY DEF AllFees, SumFunction
  <2> HIDE DEF f
  <2> QED BY <1>2, <2>1, <2>2, SumType
<1> QED BY <1>3, <1>4, <1>5, <1>6, <1>7, <1>8, <1>9

-----------------------------------------------------------------------------
(***************************************************************************)
(* A step that touches one position, or none, keeps the invariant if what  *)
(* it changes in each asset is what it changes in the entries.             *)
(***************************************************************************)
Touches(i) ==
    /\ OnlyPosition(i)
    /\ acting' \ {i} = acting \ {i}
    /\ opened \subseteq opened'
    /\ \A t \in Tokens : asset[t].hp <= asset'[t].hp

Balanced(i, t) ==
    /\ asset'[t].pending - asset[t].pending
          = AskedIn(position'[i], trade'[i], t) - AskedIn(position[i], trade[i], t)
    /\ asset'[t].margin_debt.shares - asset[t].margin_debt.shares
          = OwedIn(position'[i], t) - OwedIn(position[i], t)
    /\ asset'[t].position - asset[t].position
          = BoughtIn(position'[i], t) - BoughtIn(position[i], t)

\* shares that the entries gain, and those the supply gains
Gained(t) == Entries(supplied', margin', t) - Entries(supplied, margin, t)
NewShares(t) == asset'[t].supplied.shares - asset[t].supplied.shares

\* tokens that come to the contract, and claims it can make
Came(t) == cash'[t] - cash[t] + debts'[t] - debts[t] + Worth(asset'[t]) - Worth(asset[t])

SharesStay(i, t) ==
    LET pledged == PledgedIn(position'[i], t) - PledgedIn(position[i], t)
    IN  /\ Gained(t) + pledged <= NewShares(t)
        /\ FeeApart /\ ~OwnerMeetsItself => Gained(t) + pledged = NewShares(t)

TokensStay(i, t) ==
    FeeApart =>
        Came(t) + AwayIn(position'[i], trade'[i], t) - AwayIn(position[i], trade[i], t)
        >= OnSaleIn(position'[i], trade'[i], t) - OnSaleIn(position[i], trade[i], t)
           + FeeIn(stop'[i], t) - FeeIn(stop[i], t)

\* no supplied share is worth less than before
SuppliersKept == \A t \in Tokens : PriceNotLower(asset[t].supplied, asset'[t].supplied)

\* What a step does to the shares in nobody's name.
Spare(t) == asset[t].supplied.shares - Held(t) - AllPledged(t)

SharesMove ==
    FeeApart => \A t \in Tokens : \/ Spare(t)' = Spare(t)
                                  \/ OwnerMeetsItself /\ Spare(t)' > Spare(t)

\* What every step does.
Stepped == Inv' /\ SharesMove

\* The entries of a table of shares are numbers, and so is their sum.
LEMMA EntriesType ==
  ASSUME NEW f \in [Accounts -> [Tokens -> Nat]], NEW g \in [Accounts -> [Tokens -> Nat]],
         NEW t \in Tokens
  PROVE  /\ Entries(f, g, t) \in Nat
         /\ \A a \in Accounts : f[a][t] + g[a][t] <= Entries(f, g, t)
<1> DEFINE h == [a \in Accounts |-> f[a][t] + g[a][t]]
<1>1. \A a \in Accounts : h[a] \in Nat /\ h[a] = f[a][t] + g[a][t]
  OBVIOUS
<1>2. Entries(f, g, t) = SumFunctionOnSet(h, Accounts)
  BY DEF Entries, SumFunction
<1>3. IsFiniteSet(Accounts)
  BY MarginAccountsAssumption
<1> HIDE DEF h
<1> QED BY <1>1, <1>2, <1>3, SumType, SumBound

\* The numbers of an asset, as the arithmetic needs them.
LEMMA AssetNumbers ==
  ASSUME NEW ast \in AssetType
  PROVE  /\ ast.supplied \in PoolType /\ ast.supplied.shares \in Nat /\ ast.supplied.balance \in Nat
         /\ ast.margin_debt \in PoolType /\ ast.margin_debt.shares \in Nat
         /\ ast.margin_debt.balance \in Nat
         /\ ast.reserved \in Nat /\ ast.prot_fee \in Nat /\ ast.pending \in Nat
         /\ ast.position \in Nat /\ ast.hp \in Nat /\ Worth(ast) \in Int
<1>1. /\ ast.supplied \in PoolType /\ ast.margin_debt \in PoolType
      /\ ast.reserved \in Nat /\ ast.prot_fee \in Nat /\ ast.pending \in Nat
      /\ ast.position \in Nat /\ ast.hp \in Nat
  BY DEF AssetType
<1>2. /\ ast.supplied.shares \in Nat /\ ast.supplied.balance \in Nat
      /\ ast.margin_debt.shares \in Nat /\ ast.margin_debt.balance \in Nat
  BY <1>1 DEF PoolType
<1> QED BY <1>1, <1>2 DEF Worth

\* What a record fits depends on itself, the ids used and the holding rates.
LEMMA OthersFit ==
  ASSUME TypeOK, TypeOK', AllFit, NEW i \in PosIds, Touches(i), NEW j \in PosIds, j # i
  PROVE  Fits(j)'
<1>1. position'[j] = position[j] /\ trade'[j] = trade[j] /\ stop'[j] = stop[j]
  BY DEF Touches, OnlyPosition
<1>2. j \in acting' <=> j \in acting
  BY DEF Touches
<1>3. Fits(j)
  BY DEF AllFit
<1>4. position[j] # NoPosition => PositionFits(j)'
  <2> SUFFICES ASSUME position[j] # NoPosition PROVE PositionFits(j)'
    OBVIOUS
  <2>1. PositionFits(j)
    BY <1>3 DEF Fits
  <2>2. position[j] \in PositionType
    BY DEF TypeOK
  <2>3. position[j].d \in Tokens /\ position[j].uahpi_at_open \in Nat
    BY <2>2 DEF PositionType
  <2>4. /\ asset[position[j].d].hp \in Nat /\ asset'[position[j].d].hp \in Nat
        /\ asset[position[j].d].hp <= asset'[position[j].d].hp
    BY <2>3 DEF Touches, TypeOK, AssetType
  <2>5. position[j].uahpi_at_open <= asset'[position[j].d].hp
    BY <2>1, <2>3, <2>4 DEF PositionFits
  <2>6. j \in opened'
    BY <2>1 DEF PositionFits, Touches
  <2> QED BY <1>1, <2>1, <2>5, <2>6 DEF PositionFits
<1>5. trade[j] # NoTrade => TradeFits(j)'
  BY <1>1, <1>3 DEF Fits, TradeFits
<1>6. stop[j] # NoStop => j \in opened'
  BY <1>3 DEF Fits, Touches
<1> QED BY <1>1, <1>2, <1>3, <1>4, <1>5, <1>6 DEF Fits

\* A step of the one position i.
LEMMA StepInv ==
  ASSUME Inv, TypeOK', NEW i \in PosIds, Touches(i), Fits(i)', AllSound',
         \A t \in Tokens : Balanced(i, t) /\ SharesStay(i, t) /\ TokensStay(i, t)
  PROVE  Stepped
<1>1. TypeOK /\ AllFit /\ Books
  BY DEF Inv
<1>2. AllFit'
  BY <1>1, OthersFit DEF AllFit
<1>3. ASSUME NEW t \in Tokens
      PROVE  /\ Matched(t)' /\ Kept(t)' /\ Covers(t)'
             /\ FeeApart => \/ Spare(t)' = Spare(t)
                            \/ OwnerMeetsItself /\ Spare(t)' > Spare(t)
  <2>0. OnlyPosition(i)
    BY DEF Touches
  <2>1. /\ Matched(t) /\ Kept(t) /\ Covers(t)
        /\ Balanced(i, t) /\ SharesStay(i, t) /\ TokensStay(i, t)
    BY <1>1 DEF Books
  <2>2. /\ AllPledged(t) \in Nat /\ AllOwed(t) \in Nat /\ AllBought(t) \in Nat
        /\ AllAsked(t) \in Nat /\ AllAway(t) \in Nat /\ AllOnSale(t) \in Nat
        /\ AllFees(t) \in Nat
    BY <1>1, TotalBounds
  <2>3. /\ AllPledged(t)' = AllPledged(t) - PledgedIn(position[i], t) + PledgedIn(position'[i], t)
        /\ AllOwed(t)' = AllOwed(t) - OwedIn(position[i], t) + OwedIn(position'[i], t)
        /\ AllBought(t)' = AllBought(t) - BoughtIn(position[i], t) + BoughtIn(position'[i], t)
        /\ AllAsked(t)' = AllAsked(t) - AskedIn(position[i], trade[i], t)
                                      + AskedIn(position'[i], trade'[i], t)
        /\ AllAway(t)' = AllAway(t) - AwayIn(position[i], trade[i], t)
                                    + AwayIn(position'[i], trade'[i], t)
        /\ AllOnSale(t)' = AllOnSale(t) - OnSaleIn(position[i], trade[i], t)
                                        + OnSaleIn(position'[i], trade'[i], t)
        /\ AllFees(t)' = AllFees(t) - FeeIn(stop[i], t) + FeeIn(stop'[i], t)
    BY <1>1, <2>0, Totals
  <2>4. /\ Records(position[i], trade[i], stop[i])
        /\ Records(position'[i], trade'[i], stop'[i])
    BY <1>1 DEF TypeOK, Records
  <2>5. /\ PledgedIn(position[i], t) \in Nat /\ OwedIn(position[i], t) \in Nat
        /\ BoughtIn(position[i], t) \in Nat /\ AskedIn(position[i], trade[i], t) \in Nat
        /\ AwayIn(position[i], trade[i], t) \in Nat /\ OnSaleIn(position[i], trade[i], t) \in Nat
        /\ FeeIn(stop[i], t) \in Nat
        /\ PledgedIn(position'[i], t) \in Nat /\ OwedIn(position'[i], t) \in Nat
        /\ BoughtIn(position'[i], t) \in Nat /\ AskedIn(position'[i], trade'[i], t) \in Nat
        /\ AwayIn(position'[i], trade'[i], t) \in Nat
        /\ OnSaleIn(position'[i], trade'[i], t) \in Nat
        /\ FeeIn(stop'[i], t) \in Nat
    BY <2>4, EntryTypes
  <2>6. asset[t] \in AssetType /\ asset'[t] \in AssetType
    BY <1>1 DEF TypeOK
  <2>7. /\ asset[t].supplied.shares \in Nat /\ asset'[t].supplied.shares \in Nat
        /\ asset[t].margin_debt.shares \in Nat /\ asset'[t].margin_debt.shares \in Nat
        /\ asset[t].pending \in Nat /\ asset'[t].pending \in Nat
        /\ asset[t].position \in Nat /\ asset'[t].position \in Nat
        /\ Worth(asset[t]) \in Int /\ Worth(asset'[t]) \in Int
    BY <2>6, AssetNumbers
  <2>8. Entries(supplied, margin, t) \in Nat /\ Entries(supplied', margin', t) \in Nat
    BY <1>1, EntriesType DEF TypeOK
  <2>9. Matched(t)'
    BY <2>1, <2>2, <2>3, <2>5, <2>7 DEF Matched, Balanced
  <2>10. Kept(t)'
    BY <2>1, <2>2, <2>3, <2>5, <2>7, <2>8 DEF Kept, Held, SharesStay, Gained, NewShares
  <2>11. cash[t] \in Nat /\ cash'[t] \in Nat /\ debts[t] \in Nat /\ debts'[t] \in Nat
    BY <1>1 DEF TypeOK
  <2>12. Covers(t)'
    BY <2>1, <2>2, <2>3, <2>5, <2>7, <2>11 DEF Covers, TokensStay, Came
  <2>13. /\ Spare(t)' >= Spare(t)
         /\ FeeApart /\ ~OwnerMeetsItself => Spare(t)' = Spare(t)
         /\ Spare(t) \in Int /\ Spare(t)' \in Int
    BY <2>1, <2>2, <2>3, <2>5, <2>7, <2>8 DEF Spare, Held, SharesStay, Gained, NewShares
  <2> QED BY <2>9, <2>10, <2>12, <2>13
<1>4. Inv'
  BY <1>2, <1>3 DEF Inv, Books
<1>5. SharesMove
  BY <1>3 DEF SharesMove
<1> QED BY <1>4, <1>5 DEF Stepped

\* A step that leaves the positions, their trades and their stops alone.
LEMMA StillInv ==
  ASSUME Inv, TypeOK', AllSound',
         UNCHANGED <<position, trade, stop, acting, opened>>,
         \A t \in Tokens :
            /\ asset[t].hp <= asset'[t].hp
            /\ asset'[t].pending = asset[t].pending
            /\ asset'[t].margin_debt.shares = asset[t].margin_debt.shares
            /\ asset'[t].position = asset[t].position
            /\ Gained(t) = NewShares(t)
            /\ Came(t) >= 0
  PROVE  Stepped
<1>1. TypeOK /\ AllFit /\ Books
  BY DEF Inv
<1>2. AllFit'
  <2> SUFFICES ASSUME NEW j \in PosIds PROVE Fits(j)'
    BY DEF AllFit
  <2>1. Fits(j)
    BY <1>1 DEF AllFit
  <2>2. ASSUME position[j] # NoPosition PROVE PositionFits(j)'
    <3>1. PositionFits(j)
      BY <2>1, <2>2 DEF Fits
    <3>2. position[j].d \in Tokens /\ position[j].uahpi_at_open \in Nat
      BY <1>1, <2>2 DEF TypeOK, PositionType
    <3>3. /\ asset[position[j].d].hp \in Nat /\ asset'[position[j].d].hp \in Nat
          /\ asset[position[j].d].hp <= asset'[position[j].d].hp
      BY <1>1, <3>2 DEF TypeOK, AssetType
    <3>4. position[j].uahpi_at_open <= asset'[position[j].d].hp
      BY <3>1, <3>2, <3>3 DEF PositionFits
    <3> QED BY <3>1, <3>4 DEF PositionFits
  <2>3. trade[j] # NoTrade => TradeFits(j)'
    BY <2>1 DEF Fits, TradeFits
  <2> QED BY <2>1, <2>2, <2>3 DEF Fits
<1>3. ASSUME NEW t \in Tokens
      PROVE  Matched(t)' /\ Kept(t)' /\ Covers(t)' /\ Spare(t)' = Spare(t)
  <2>1. Matched(t) /\ Kept(t) /\ Covers(t)
    BY <1>1 DEF Books
  <2>2. /\ AllPledged(t) \in Nat /\ AllAway(t) \in Nat /\ AllOnSale(t) \in Nat
        /\ AllFees(t) \in Nat
    BY <1>1, TotalBounds
  <2>3. /\ AllPledged(t)' = AllPledged(t) /\ AllOwed(t)' = AllOwed(t)
        /\ AllBought(t)' = AllBought(t) /\ AllAsked(t)' = AllAsked(t)
        /\ AllAway(t)' = AllAway(t) /\ AllOnSale(t)' = AllOnSale(t)
        /\ AllFees(t)' = AllFees(t)
    BY DEF AllPledged, AllOwed, AllBought, AllAsked, AllAway, AllOnSale, AllFees
  <2>4. asset[t] \in AssetType /\ asset'[t] \in AssetType
    BY <1>1 DEF TypeOK
  <2>5. /\ asset[t].supplied.shares \in Nat /\ asset'[t].supplied.shares \in Nat
        /\ Worth(asset[t]) \in Int /\ Worth(asset'[t]) \in Int
    BY <2>4, AssetNumbers
  <2>6. Entries(supplied, margin, t) \in Nat /\ Entries(supplied', margin', t) \in Nat
    BY <1>1, EntriesType DEF TypeOK
  <2>7. Matched(t)'
    BY <2>1, <2>3 DEF Matched
  <2>8. Kept(t)'
    BY <2>1, <2>2, <2>3, <2>5, <2>6 DEF Kept, Held, Gained, NewShares
  <2>9. cash[t] \in Nat /\ cash'[t] \in Nat /\ debts[t] \in Nat /\ debts'[t] \in Nat
    BY <1>1 DEF TypeOK
  <2>10. Covers(t)'
    BY <2>1, <2>2, <2>3, <2>5, <2>9 DEF Covers, Came
  <2>11. Spare(t)' = Spare(t)
    BY <2>2, <2>3, <2>5, <2>6 DEF Spare, Held, Gained, NewShares
  <2> QED BY <2>7, <2>8, <2>10, <2>11
<1>4. Inv'
  BY <1>2, <1>3 DEF Inv, Books
<1>5. SharesMove
  BY <1>3 DEF SharesMove
<1> QED BY <1>4, <1>5 DEF Stepped

-----------------------------------------------------------------------------
(***************************************************************************)
(* What the operations on an asset change in it.                           *)
(***************************************************************************)
\* what the positions and their debt are about
SameDebt(ast, as2) ==
    /\ as2.pending = ast.pending /\ as2.margin_debt = ast.margin_debt
    /\ as2.position = ast.position /\ as2.hp = ast.hp

\* as2 is as with n more shares and w more of Worth
SupplyChange(ast, as2, n, w) ==
    /\ as2 \in AssetType /\ SupplySound(as2) /\ SameDebt(ast, as2)
    /\ as2.supplied.shares = ast.supplied.shares + n
    /\ Worth(as2) = Worth(ast) + w
    /\ PriceNotLower(ast.supplied, as2.supplied)

\* Saving an asset whose supply has no shares left moves what is in it to the
\* reserve (internal_set_asset).
LEMMA NormalizedAsset ==
  ASSUME NEW ast \in AssetType
  PROVE  LET saved == Normalized(ast)
         IN  /\ saved \in AssetType
             /\ SameDebt(ast, saved)
             /\ saved.supplied.shares = ast.supplied.shares
             /\ Worth(saved) = Worth(ast)
             /\ PoolInvariant(saved.supplied) => SupplySound(saved)
             /\ ast.supplied.shares # 0 => saved.supplied = ast.supplied
             /\ ast.supplied.shares = 0 => saved.supplied = EmptyPool
<1>1. CASE ast.supplied.shares # 0
  <2>1. Normalized(ast) = ast
    BY <1>1 DEF Normalized
  <2> QED BY <1>1, <2>1 DEF SameDebt, SupplySound
<1>2. CASE ast.supplied.shares = 0
  <2> DEFINE saved == [ast EXCEPT !.reserved = @ + ast.supplied.balance, !.supplied = EmptyPool]
  <2>1. Normalized(ast) = saved
    BY <1>2 DEF Normalized
  <2>2. /\ ast.supplied.balance \in Nat /\ ast.reserved \in Nat
        /\ ast.prot_fee \in Nat /\ ast.position \in Nat /\ ast.margin_debt.balance \in Nat
    BY AssetNumbers
  <2>3. EmptyPool \in PoolType /\ EmptyPool.shares = 0 /\ EmptyPool.balance = 0
    BY DEF EmptyPool, PoolType
  <2>4. saved \in AssetType
    <3>1. ast.reserved + ast.supplied.balance \in Nat
      BY <2>2
    <3> QED BY <2>3, <3>1 DEF AssetType
  <2>5. /\ saved.supplied = EmptyPool /\ saved.reserved = ast.reserved + ast.supplied.balance
        /\ saved.prot_fee = ast.prot_fee /\ saved.margin_debt = ast.margin_debt
        /\ saved.pending = ast.pending /\ saved.position = ast.position /\ saved.hp = ast.hp
    BY DEF AssetType
  <2> HIDE DEF saved
  <2>6. Worth(saved) = Worth(ast)
    BY <2>2, <2>3, <2>5 DEF Worth
  <2> QED BY <1>2, <2>1, <2>3, <2>4, <2>5, <2>6 DEF SameDebt, SupplySound
<1> QED BY <1>1, <1>2

\* A price is no lower than itself.
LEMMA SamePrice ==
  ASSUME NEW ast \in AssetType, NEW pool, pool = ast.supplied
  PROVE  PriceNotLower(ast.supplied, pool)
<1>1. ast.supplied.shares \in Nat /\ ast.supplied.balance \in Nat
  BY AssetNumbers
<1>2. ast.supplied.balance * ast.supplied.shares \in Nat
  BY <1>1, ProductType
<1> QED BY <1>2 DEF PriceNotLower

\* Saving changes nothing in a supply that is sound.
LEMMA NormalizedSupply ==
  ASSUME NEW ast \in AssetType, SupplySound(ast), NEW a2 \in AssetType,
         a2.supplied = ast.supplied
  PROVE  Normalized(a2).supplied = ast.supplied
<1>1. ast.supplied \in PoolType
  BY AssetNumbers
<1>2. CASE ast.supplied.shares # 0
  BY <1>2, NormalizedAsset
<1>3. CASE ast.supplied.shares = 0
  <2>1. ast.supplied = EmptyPool
    BY <1>1, <1>3 DEF SupplySound, EmptyPool, PoolType
  <2>2. Normalized(a2).supplied = EmptyPool
    BY <1>3, NormalizedAsset
  <2> QED BY <2>1, <2>2
<1> QED BY <1>2, <1>3

\* Of two changes of a supply one after the other, the first of which takes no
\* shares, neither lowers the price.
LEMMA PriceSteps ==
  ASSUME NEW x \in AssetType, SupplySound(x), NEW y \in AssetType, NEW z \in AssetType,
         PriceNotLower(x.supplied, y.supplied), PriceNotLower(y.supplied, z.supplied),
         x.supplied.shares <= y.supplied.shares
  PROVE  PriceNotLower(x.supplied, z.supplied)
<1>1. /\ x.supplied \in PoolType /\ y.supplied \in PoolType /\ z.supplied \in PoolType
      /\ x.supplied.shares \in Nat /\ y.supplied.shares \in Nat
      /\ z.supplied.shares \in Nat /\ z.supplied.balance \in Nat
  BY AssetNumbers
<1>2. CASE y.supplied.shares > 0
  BY <1>1, <1>2, PriceTransitive
<1>3. CASE ~(y.supplied.shares > 0)
  <2>1. x.supplied.shares = 0
    BY <1>1, <1>3
  <2>2. x.supplied.balance = 0
    BY <2>1 DEF SupplySound
  <2>3. x.supplied.balance * z.supplied.shares = 0 /\ z.supplied.balance * x.supplied.shares = 0
    BY <1>1, <2>1, <2>2
  <2> QED BY <2>3 DEF PriceNotLower
<1> QED BY <1>2, <1>3

\* The price of an emptied pool is no lower than any.
LEMMA NormalizedPrice ==
  ASSUME NEW ast \in AssetType, NEW pool \in PoolType, PriceNotLower(pool, ast.supplied)
  PROVE  PriceNotLower(pool, Normalized(ast).supplied)
<1>1. CASE ast.supplied.shares # 0
  BY <1>1, NormalizedAsset
<1>2. CASE ast.supplied.shares = 0
  <2>1. Normalized(ast).supplied = EmptyPool
    BY <1>2, NormalizedAsset
  <2>2. pool.shares \in Nat /\ pool.balance \in Nat
    BY DEF PoolType
  <2>3. 0 * pool.shares = 0 /\ pool.balance * 0 = 0
    BY <2>2
  <2> QED BY <2>1, <2>3 DEF PriceNotLower, EmptyPool
<1> QED BY <1>1, <1>2

\* Shares and tokens added to the supply.
LEMMA SupplyAdded ==
  ASSUME NEW ast \in AssetType, NEW s \in Nat, NEW n \in Nat
  PROVE  LET after == Supplied(ast, s, n)
         IN  /\ after \in AssetType /\ SameDebt(ast, after)
             /\ after.supplied = PoolDeposit(ast.supplied, s, n)
             /\ after.supplied.shares = ast.supplied.shares + s
             /\ after.reserved = ast.reserved /\ after.prot_fee = ast.prot_fee
             /\ Worth(after) = Worth(ast) - n
<1> DEFINE after == Supplied(ast, s, n)
<1>1. /\ ast.supplied \in PoolType /\ ast.supplied.balance \in Nat /\ ast.reserved \in Nat
      /\ ast.prot_fee \in Nat /\ ast.position \in Nat /\ ast.margin_debt.balance \in Nat
  BY AssetNumbers
<1>2. PoolDeposit(ast.supplied, s, n) \in PoolType
  BY <1>1, PoolOperations
<1>3. /\ after \in AssetType
      /\ after.supplied = PoolDeposit(ast.supplied, s, n)
      /\ after.reserved = ast.reserved
      /\ after.prot_fee = ast.prot_fee /\ after.margin_debt = ast.margin_debt
      /\ after.pending = ast.pending /\ after.position = ast.position /\ after.hp = ast.hp
  BY <1>2 DEF AssetType, Supplied
<1>4. /\ after.supplied.shares = ast.supplied.shares + s
      /\ after.supplied.balance = ast.supplied.balance + n
  BY <1>3 DEF PoolDeposit
<1> HIDE DEF after
<1>5. Worth(after) = Worth(ast) - n
  BY <1>1, <1>3, <1>4 DEF Worth
<1> QED BY <1>3, <1>4, <1>5 DEF SameDebt, after

\* Shares and tokens taken from it.
LEMMA SupplyTaken ==
  ASSUME NEW ast \in AssetType, NEW s \in Nat, NEW n \in Nat,
         CanWithdraw(ast.supplied, s, n)
  PROVE  LET after == Unsupplied(ast, s, n)
         IN  /\ after \in AssetType /\ SameDebt(ast, after)
             /\ after.supplied = PoolWithdraw(ast.supplied, s, n)
             /\ after.supplied.shares = ast.supplied.shares - s
             /\ after.reserved = ast.reserved /\ after.prot_fee = ast.prot_fee
             /\ Worth(after) = Worth(ast) + n
<1> DEFINE after == Unsupplied(ast, s, n)
<1>1. /\ ast.supplied \in PoolType /\ ast.supplied.balance \in Nat /\ ast.reserved \in Nat
      /\ ast.prot_fee \in Nat /\ ast.position \in Nat /\ ast.margin_debt.balance \in Nat
  BY AssetNumbers
<1>2. PoolWithdraw(ast.supplied, s, n) \in PoolType
  BY <1>1, PoolOperations
<1>3. /\ after \in AssetType
      /\ after.supplied = PoolWithdraw(ast.supplied, s, n)
      /\ after.reserved = ast.reserved
      /\ after.prot_fee = ast.prot_fee /\ after.margin_debt = ast.margin_debt
      /\ after.pending = ast.pending /\ after.position = ast.position /\ after.hp = ast.hp
  BY <1>2 DEF AssetType, Unsupplied
<1>4. /\ after.supplied.shares = ast.supplied.shares - s
      /\ after.supplied.balance = ast.supplied.balance - n
  BY <1>3 DEF PoolWithdraw
<1> HIDE DEF after
<1>5. Worth(after) = Worth(ast) + n
  BY <1>1, <1>3, <1>4 DEF Worth
<1> QED BY <1>3, <1>4, <1>5 DEF SameDebt, after

\* Two changes that each leave the debt alone leave it alone together.
LEMMA SameDebtTransitive ==
  ASSUME NEW x, NEW y, NEW z, SameDebt(x, y), SameDebt(y, z)
  PROVE  SameDebt(x, z)
BY DEF SameDebt

\* internal_margin_deposit saved: shares at the price of the pool.
LEMMA DepositChange ==
  ASSUME NEW ast \in AssetType, SupplySound(ast), NEW n \in Nat
  PROVE  LET s == AmountToShares(ast.supplied, n, FALSE)
         IN  /\ s \in Nat
             /\ Deposited(ast, n) \in AssetType
             /\ PoolInvariant(Normalized(Deposited(ast, n)).supplied)
             /\ SupplyChange(ast, Normalized(Deposited(ast, n)), s, 0 - n)
             /\ ast.supplied.shares = 0 /\ n > 0 => s > 0
<1> DEFINE s == AmountToShares(ast.supplied, n, FALSE)
           x == Deposited(ast, n)
<1>1. ast.supplied \in PoolType /\ PoolInvariant(ast.supplied) /\ Worth(ast) \in Int
  BY AssetNumbers DEF SupplySound
<1>2. s \in Nat
  BY <1>1, SharesDown
<1>3. /\ x \in AssetType /\ SameDebt(ast, x)
      /\ x.supplied = PoolDeposit(ast.supplied, s, n)
      /\ x.supplied.shares = ast.supplied.shares + s
      /\ Worth(x) = Worth(ast) - n
  BY <1>2, SupplyAdded DEF Deposited
<1>4. PoolInvariant(x.supplied) /\ PriceNotLower(ast.supplied, x.supplied)
  BY <1>1, <1>3, DepositKeepsPrice
<1>5. ast.supplied.shares = 0 /\ n > 0 => s > 0
  BY DEF SupplySound, AmountToShares
<1> HIDE DEF x, s
<1>6. /\ Normalized(x) \in AssetType /\ SameDebt(x, Normalized(x))
      /\ Normalized(x).supplied.shares = x.supplied.shares
      /\ Worth(Normalized(x)) = Worth(x)
  BY <1>3, NormalizedAsset
<1>7. PoolInvariant(Normalized(x).supplied)
  <2>1. PoolInvariant(EmptyPool)
    BY DEF PoolInvariant, EmptyPool
  <2> QED BY <1>3, <1>4, <2>1, NormalizedAsset
<1>8. SupplySound(Normalized(x))
  BY <1>3, <1>7, NormalizedAsset
<1>9. PriceNotLower(ast.supplied, Normalized(x).supplied)
  BY <1>1, <1>3, <1>4, NormalizedPrice
<1>10. SameDebt(ast, Normalized(x))
  BY <1>3, <1>6, SameDebtTransitive
<1>11. SupplyChange(ast, Normalized(x), s, 0 - n)
  BY <1>1, <1>2, <1>3, <1>6, <1>8, <1>9, <1>10 DEF SupplyChange
<1> QED BY <1>2, <1>3, <1>5, <1>7, <1>11 DEF x, s

\* internal_margin_withdraw_supply saved.
LEMMA BurnChange ==
  ASSUME NEW ast \in AssetType, SupplySound(ast), NEW n \in Nat, NEW held \in Nat,
         CanBurn(ast, held, n)
  PROVE  LET s == AmountToShares(ast.supplied, n, TRUE)
         IN  /\ s \in Nat /\ s <= held
             /\ SupplyChange(ast, Normalized(Burnt(ast, n)), 0 - s, n)
<1> DEFINE s == AmountToShares(ast.supplied, n, TRUE)
           x == Burnt(ast, n)
<1>1. /\ ast.supplied \in PoolType /\ PoolInvariant(ast.supplied) /\ Worth(ast) \in Int
      /\ ast.supplied.shares \in Nat
  BY AssetNumbers DEF SupplySound
<1>2. s \in Nat
  BY <1>1, SharesUp
<1>3. s <= held /\ CanWithdraw(ast.supplied, s, n) /\ PoolInvariant(Normalized(x).supplied)
  BY DEF CanBurn, CanSave
<1>4. /\ x \in AssetType /\ SameDebt(ast, x)
      /\ x.supplied = PoolWithdraw(ast.supplied, s, n)
      /\ x.supplied.shares = ast.supplied.shares - s
      /\ Worth(x) = Worth(ast) + n
  BY <1>2, <1>3, SupplyTaken DEF Burnt
<1>5. PriceNotLower(ast.supplied, x.supplied)
  BY <1>1, <1>3, <1>4, PaymentKeepsPrice
<1> HIDE DEF x, s
<1>6. /\ Normalized(x) \in AssetType /\ SameDebt(x, Normalized(x))
      /\ Normalized(x).supplied.shares = x.supplied.shares
      /\ Worth(Normalized(x)) = Worth(x)
      /\ SupplySound(Normalized(x))
  BY <1>3, <1>4, NormalizedAsset
<1>7. PriceNotLower(ast.supplied, Normalized(x).supplied)
  BY <1>1, <1>4, <1>5, NormalizedPrice
<1>8. SameDebt(ast, Normalized(x))
  BY <1>4, <1>6, SameDebtTransitive
<1>9. SupplyChange(ast, Normalized(x), 0 - s, n)
  BY <1>1, <1>2, <1>4, <1>6, <1>7, <1>8 DEF SupplyChange
<1> QED BY <1>2, <1>3, <1>9 DEF x, s

-----------------------------------------------------------------------------
(***************************************************************************)
(* What the operations on a table of shares change in its entries.         *)
(***************************************************************************)
SharesTable == [Accounts -> [Tokens -> Nat]]

\* The entries of token t when only account a's may change, in the second
\* table or in the first.
LEMMA EntriesChange ==
  ASSUME NEW f \in SharesTable, NEW g \in SharesTable, NEW h \in SharesTable,
         NEW t \in Tokens, NEW a \in Accounts,
         \A b \in Accounts \ {a} : h[b][t] = g[b][t]
  PROVE  /\ Entries(f, h, t) = Entries(f, g, t) - g[a][t] + h[a][t]
         /\ Entries(h, f, t) = Entries(g, f, t) - g[a][t] + h[a][t]
<1>0. IsFiniteSet(Accounts)
  BY MarginAccountsAssumption
<1>1. \A b \in Accounts : f[b][t] \in Nat /\ g[b][t] \in Nat /\ h[b][t] \in Nat
  BY DEF SharesTable
<1>2. Entries(f, h, t) = Entries(f, g, t) - g[a][t] + h[a][t]
  <2> DEFINE x == [b \in Accounts |-> f[b][t] + g[b][t]]
             y == [b \in Accounts |-> f[b][t] + h[b][t]]
  <2>1. \A b \in Accounts : x[b] \in Nat /\ y[b] \in Nat
    BY <1>1
  <2>2. \A b \in Accounts \ {a} : x[b] = y[b]
    BY <1>1
  <2>3. x[a] = f[a][t] + g[a][t] /\ y[a] = f[a][t] + h[a][t]
    OBVIOUS
  <2>4. /\ Entries(f, g, t) = SumFunctionOnSet(x, Accounts)
        /\ Entries(f, h, t) = SumFunctionOnSet(y, Accounts)
    BY DEF Entries, SumFunction
  <2> HIDE DEF x, y
  <2>5. SumFunctionOnSet(y, Accounts) = SumFunctionOnSet(x, Accounts) - x[a] + y[a]
    BY <1>0, <2>1, <2>2, SumChange
  <2>6. SumFunctionOnSet(x, Accounts) \in Nat
    BY <1>0, <2>1, SumType
  <2> QED BY <1>1, <2>3, <2>4, <2>5, <2>6
<1>3. Entries(h, f, t) = Entries(g, f, t) - g[a][t] + h[a][t]
  <2> DEFINE x == [b \in Accounts |-> g[b][t] + f[b][t]]
             y == [b \in Accounts |-> h[b][t] + f[b][t]]
  <2>1. \A b \in Accounts : x[b] \in Nat /\ y[b] \in Nat
    BY <1>1
  <2>2. \A b \in Accounts \ {a} : x[b] = y[b]
    BY <1>1
  <2>3. x[a] = g[a][t] + f[a][t] /\ y[a] = h[a][t] + f[a][t]
    OBVIOUS
  <2>4. /\ Entries(g, f, t) = SumFunctionOnSet(x, Accounts)
        /\ Entries(h, f, t) = SumFunctionOnSet(y, Accounts)
    BY DEF Entries, SumFunction
  <2> HIDE DEF x, y
  <2>5. SumFunctionOnSet(y, Accounts) = SumFunctionOnSet(x, Accounts) - x[a] + y[a]
    BY <1>0, <2>1, <2>2, SumChange
  <2>6. SumFunctionOnSet(x, Accounts) \in Nat
    BY <1>0, <2>1, SumType
  <2> QED BY <1>1, <2>3, <2>4, <2>5, <2>6
<1> QED BY <1>2, <1>3

\* One entry set to another number.
LEMMA EntrySet ==
  ASSUME NEW f \in SharesTable, NEW g \in SharesTable, NEW a \in Accounts,
         NEW t \in Tokens, NEW n \in Nat, NEW u \in Tokens
  PROVE  LET h == [g EXCEPT ![a][t] = n]
             d == IF u = t THEN n - g[a][t] ELSE 0
         IN  /\ h \in SharesTable
             /\ Entries(f, h, u) = Entries(f, g, u) + d
             /\ Entries(h, f, u) = Entries(g, f, u) + d
<1> DEFINE h == [g EXCEPT ![a][t] = n]
<1>1. h \in SharesTable
  BY DEF SharesTable
<1>2. /\ \A b \in Accounts \ {a} : h[b][u] = g[b][u]
      /\ h[a][u] = IF u = t THEN n ELSE g[a][u]
      /\ g[a][u] \in Nat
  BY DEF SharesTable
<1>3. Entries(f, g, u) \in Nat /\ Entries(g, f, u) \in Nat
  BY EntriesType DEF SharesTable
<1> HIDE DEF h
<1>4. /\ Entries(f, h, u) = Entries(f, g, u) - g[a][u] + h[a][u]
      /\ Entries(h, f, u) = Entries(g, f, u) - g[a][u] + h[a][u]
  BY <1>1, <1>2, EntriesChange
<1>5. /\ Entries(f, h, u) = Entries(f, g, u) + (IF u = t THEN n - g[a][t] ELSE 0)
      /\ Entries(h, f, u) = Entries(g, f, u) + (IF u = t THEN n - g[a][t] ELSE 0)
  BY <1>2, <1>3, <1>4
<1> QED BY <1>1, <1>5 DEF h

\* Shares added to an entry, and shares taken from it.
LEMMA EntryAdded ==
  ASSUME NEW f \in SharesTable, NEW g \in SharesTable, NEW a \in Accounts,
         NEW t \in Tokens, NEW n \in Nat, NEW u \in Tokens
  PROVE  /\ Add(g, a, t, n) \in SharesTable
         /\ Entries(f, Add(g, a, t, n), u) = Entries(f, g, u) + (IF u = t THEN n ELSE 0)
         /\ Entries(Add(g, a, t, n), f, u) = Entries(g, f, u) + (IF u = t THEN n ELSE 0)
<1>1. g[a][t] \in Nat
  BY DEF SharesTable
<1>2. g[a][t] + n \in Nat /\ (g[a][t] + n) - g[a][t] = n
  BY <1>1
<1>3. Add(g, a, t, n) = [g EXCEPT ![a][t] = g[a][t] + n]
  BY DEF Add, SharesTable
<1>4. /\ [g EXCEPT ![a][t] = g[a][t] + n] \in SharesTable
      /\ Entries(f, [g EXCEPT ![a][t] = g[a][t] + n], u)
            = Entries(f, g, u) + (IF u = t THEN (g[a][t] + n) - g[a][t] ELSE 0)
      /\ Entries([g EXCEPT ![a][t] = g[a][t] + n], f, u)
            = Entries(g, f, u) + (IF u = t THEN (g[a][t] + n) - g[a][t] ELSE 0)
  BY <1>2, EntrySet
<1> QED BY <1>2, <1>3, <1>4

\* An entry is lowered by no more than it holds.
LEMMA EntryTaken ==
  ASSUME NEW f \in SharesTable, NEW g \in SharesTable, NEW a \in Accounts,
         NEW t \in Tokens, NEW n \in Nat, n <= g[a][t], NEW u \in Tokens
  PROVE  /\ Sub(g, a, t, n) \in SharesTable
         /\ Entries(f, Sub(g, a, t, n), u) = Entries(f, g, u) - (IF u = t THEN n ELSE 0)
         /\ Entries(Sub(g, a, t, n), f, u) = Entries(g, f, u) - (IF u = t THEN n ELSE 0)
<1>1. g[a][t] \in Nat
  BY DEF SharesTable
<1>2. g[a][t] - n \in Nat /\ (g[a][t] - n) - g[a][t] = 0 - n
  BY <1>1
<1>3. Sub(g, a, t, n) = [g EXCEPT ![a][t] = g[a][t] - n]
  BY DEF Sub, SharesTable
<1>4. Entries(f, g, u) \in Nat /\ Entries(g, f, u) \in Nat
  BY EntriesType DEF SharesTable
<1>5. /\ [g EXCEPT ![a][t] = g[a][t] - n] \in SharesTable
      /\ Entries(f, [g EXCEPT ![a][t] = g[a][t] - n], u)
            = Entries(f, g, u) + (IF u = t THEN (g[a][t] - n) - g[a][t] ELSE 0)
      /\ Entries([g EXCEPT ![a][t] = g[a][t] - n], f, u)
            = Entries(g, f, u) + (IF u = t THEN (g[a][t] - n) - g[a][t] ELSE 0)
  BY <1>2, EntrySet
<1> QED BY <1>2, <1>3, <1>4, <1>5

-----------------------------------------------------------------------------
(***************************************************************************)
(* The calls that touch no position.                                       *)
(***************************************************************************)
\* The stop fee is a number of tokens.
LEMMA StopFeeType == StopFee.token \in Tokens /\ StopFee.amount \in Nat
BY MarginNumbersAssumption

\* The price of a supply is no lower if only one asset changes and its is not.
LEMMA OneAssetKept ==
  ASSUME Inv, NEW t \in Tokens, NEW after,
         PriceNotLower(asset[t].supplied, after.supplied),
         asset' = [asset EXCEPT ![t] = after]
  PROVE  SuppliersKept
<1> SUFFICES ASSUME NEW u \in Tokens
             PROVE  PriceNotLower(asset[u].supplied, asset'[u].supplied)
  BY DEF SuppliersKept
<1>1. asset \in [Tokens -> AssetType] /\ asset[u] \in AssetType
  BY DEF Inv, TypeOK
<1>2. CASE u = t
  BY <1>1, <1>2
<1>3. CASE u # t
  <2>1. asset'[u].supplied = asset[u].supplied
    BY <1>1, <1>3
  <2> QED BY <1>1, <2>1, SamePrice
<1> QED BY <1>2, <1>3

\* No price falls if no asset changes.
LEMMA AssetsKept ==
  ASSUME Inv, asset' = asset
  PROVE  SuppliersKept
<1>1. \A t \in Tokens : asset[t] \in AssetType
  BY DEF Inv, TypeOK
<1> QED BY <1>1, SamePrice DEF SuppliersKept

\* A step that changes the supply of one asset, the entries of as many shares
\* and the tokens that are there.
LEMMA SupplyStep ==
  ASSUME Inv, NEW t \in Tokens, NEW after, NEW n \in Int, NEW m \in Int,
         SupplyChange(asset[t], after, n, 0 - m),
         asset' = [asset EXCEPT ![t] = after],
         supplied' \in SharesTable, margin' \in SharesTable,
         \A u \in Tokens : Gained(u) = IF u = t THEN n ELSE 0,
         cash' = [cash EXCEPT ![t] = @ + m], cash[t] + m >= 0,
         UNCHANGED <<position, opened, stop, acting, trade, debts, price>>
  PROVE  Stepped /\ SuppliersKept
<1>1. TypeOK /\ AllSound
  BY DEF Inv
<1>2. cash[t] \in Nat
  BY <1>1 DEF TypeOK
<1>3. cash[t] + m \in Nat
  BY <1>2
<1>4. cash' \in [Tokens -> Nat]
  BY <1>1, <1>3 DEF TypeOK
<1>5. after \in AssetType /\ SupplySound(after) /\ SameDebt(asset[t], after)
  BY DEF SupplyChange
<1>6. TypeOK'
  BY <1>1, <1>4, <1>5 DEF TypeOK, SharesTable
<1>7. /\ asset'[t] = after
      /\ \A u \in Tokens \ {t} : asset'[u] = asset[u]
      /\ cash'[t] = cash[t] + m
      /\ \A u \in Tokens \ {t} : cash'[u] = cash[u]
      /\ \A u \in Tokens : debts'[u] = debts[u]
  BY <1>1 DEF TypeOK
<1>8. AllSound'
  BY <1>1, <1>5, <1>7 DEF AllSound, SameDebt
<1>9. \A u \in Tokens : asset[u] \in AssetType /\ debts[u] \in Nat /\ cash[u] \in Nat
  BY <1>1 DEF TypeOK
<1>10. ASSUME NEW u \in Tokens
       PROVE  /\ asset[u].hp <= asset'[u].hp
              /\ asset'[u].pending = asset[u].pending
              /\ asset'[u].margin_debt.shares = asset[u].margin_debt.shares
              /\ asset'[u].position = asset[u].position
              /\ Gained(u) = NewShares(u)
              /\ Came(u) >= 0
  <2>1. asset[u].hp \in Nat /\ asset[u].supplied.shares \in Nat /\ Worth(asset[u]) \in Int
    BY <1>9, AssetNumbers
  <2>2. CASE u = t
    <3>1. /\ asset'[u].supplied.shares = asset[u].supplied.shares + n
          /\ Worth(asset'[u]) = Worth(asset[u]) + (0 - m)
      BY <1>7, <2>2 DEF SupplyChange
    <3>2. Gained(u) = NewShares(u)
      BY <2>1, <2>2, <3>1 DEF NewShares
    <3>3. Came(u) >= 0
      BY <1>7, <1>9, <2>1, <2>2, <3>1 DEF Came
    <3> QED BY <1>5, <1>7, <2>1, <2>2, <3>2, <3>3 DEF SameDebt
  <2>3. CASE u # t
    BY <1>7, <1>9, <2>1, <2>3 DEF NewShares, Came
  <2> QED BY <2>2, <2>3
<1>11. SuppliersKept
  <2>1. PriceNotLower(asset[t].supplied, after.supplied)
    BY DEF SupplyChange
  <2> QED BY ONLY <2>1, Inv, t \in Tokens, asset' = [asset EXCEPT ![t] = after], OneAssetKept
<1> QED BY <1>6, <1>8, <1>10, <1>11, StillInv

\* internal_margin_deposit keeps the invariant and the price of shares.
LEMMA DepositToMarginInv ==
  ASSUME Inv, NEW a \in Accounts, NEW t \in Tokens, NEW n \in Nat, DepositToMargin(a, t, n)
  PROVE  Stepped /\ SuppliersKept
<1> DEFINE s == AmountToShares(asset[t].supplied, n, FALSE)
           after == Normalized(Deposited(asset[t], n))
<1>1. /\ asset[t] \in AssetType /\ SupplySound(asset[t]) /\ cash[t] \in Nat
      /\ supplied \in SharesTable /\ margin \in SharesTable
      /\ asset \in [Tokens -> AssetType]
  BY DEF Inv, TypeOK, AllSound, SharesTable
<1>2. s \in Nat /\ SupplyChange(asset[t], after, s, 0 - n)
  BY <1>1, DepositChange
<1>3. /\ asset' = [asset EXCEPT ![t] = after]
      /\ margin' = Add(margin, a, t, s) /\ supplied' = supplied
      /\ cash' = [cash EXCEPT ![t] = @ + n]
      /\ UNCHANGED <<position, opened, stop, acting, trade, debts, price>>
  BY <1>1 DEF DepositToMargin
<1> HIDE DEF s, after
<1>4. margin' \in SharesTable
  BY <1>1, <1>2, <1>3, EntryAdded
<1>5. ASSUME NEW u \in Tokens PROVE Gained(u) = IF u = t THEN s ELSE 0
  <2>1. Entries(supplied, margin, u) \in Nat
    BY <1>1, EntriesType DEF SharesTable
  <2>2. Entries(supplied, margin', u) = Entries(supplied, margin, u) + (IF u = t THEN s ELSE 0)
    BY <1>1, <1>2, <1>3, EntryAdded
  <2> QED BY <1>2, <1>3, <2>1, <2>2 DEF Gained
<1>6. s \in Int /\ n \in Int /\ cash[t] + n >= 0
  BY <1>1, <1>2
<1> QED BY <1>1, <1>2, <1>3, <1>4, <1>5, <1>6, SupplyStep

\* internal_margin_withdraw_supply and its payment keep them.
LEMMA WithdrawInv ==
  ASSUME Inv, NEW a \in Accounts, NEW t \in Tokens, NEW n \in Nat, Withdraw(a, t, n)
  PROVE  Stepped /\ SuppliersKept
<1> DEFINE s == AmountToShares(asset[t].supplied, n, TRUE)
           after == Normalized(Burnt(asset[t], n))
<1>1. /\ asset[t] \in AssetType /\ SupplySound(asset[t]) /\ cash[t] \in Nat
      /\ supplied \in SharesTable /\ margin \in SharesTable /\ margin[a][t] \in Nat
      /\ asset \in [Tokens -> AssetType]
  BY DEF Inv, TypeOK, AllSound, SharesTable
<1>2. /\ s \in Nat /\ s <= margin[a][t]
      /\ SupplyChange(asset[t], after, 0 - s, n)
  BY <1>1, BurnChange DEF Withdraw
<1>3. /\ asset' = [asset EXCEPT ![t] = after]
      /\ margin' = Sub(margin, a, t, s) /\ supplied' = supplied
      /\ cash[t] >= n
      /\ cash' = [cash EXCEPT ![t] = @ - n]
      /\ UNCHANGED <<position, opened, stop, acting, trade, debts, price>>
  BY <1>1 DEF Withdraw
<1> HIDE DEF s, after
<1>4. margin' \in SharesTable
  BY <1>1, <1>2, <1>3, EntryTaken
<1>5. ASSUME NEW u \in Tokens PROVE Gained(u) = IF u = t THEN 0 - s ELSE 0
  <2>1. Entries(supplied, margin, u) \in Nat
    BY <1>1, EntriesType DEF SharesTable
  <2>2. Entries(supplied, margin', u) = Entries(supplied, margin, u) - (IF u = t THEN s ELSE 0)
    BY <1>1, <1>2, <1>3, EntryTaken
  <2> QED BY <1>2, <1>3, <2>1, <2>2 DEF Gained
<1>6. /\ 0 - s \in Int /\ 0 - n \in Int /\ 0 - (0 - n) = n
      /\ cash[t] - n = cash[t] + (0 - n) /\ cash[t] + (0 - n) >= 0
  BY <1>1, <1>2, <1>3
<1>7. cash' = [cash EXCEPT ![t] = @ + (0 - n)]
  BY <1>3, <1>6
<1> QED BY <1>1, <1>2, <1>3, <1>4, <1>5, <1>6, <1>7, SupplyStep, ZenonT(30)

\* A withdrawal of all the shares, for what they are worth, keeps them.
LEMMA WithdrawAllInv ==
  ASSUME Inv, NEW a \in Accounts, NEW t \in Tokens, WithdrawAll(a, t)
  PROVE  Stepped /\ SuppliersKept
<1> DEFINE s == margin[a][t]
           n == SharesToAmount(asset[t].supplied, s, FALSE)
           x == Unsupplied(asset[t], s, n)
           after == Normalized(x)
<1>1. /\ asset[t] \in AssetType /\ SupplySound(asset[t]) /\ cash[t] \in Nat
      /\ supplied \in SharesTable /\ margin \in SharesTable /\ s \in Nat
      /\ asset \in [Tokens -> AssetType]
  BY DEF Inv, TypeOK, AllSound, SharesTable
<1>2. /\ asset[t].supplied \in PoolType /\ PoolInvariant(asset[t].supplied)
      /\ Worth(asset[t]) \in Int /\ asset[t].supplied.shares \in Nat
  BY <1>1, AssetNumbers DEF SupplySound
<1>3. s <= asset[t].supplied.shares /\ n \in Nat
  <2>1. s <= asset[t].supplied.shares
    BY <1>1 DEF WithdrawAll, CanWithdraw
  <2> QED BY <1>1, <1>2, <2>1, AmountDown
<1>4. /\ CanWithdraw(asset[t].supplied, s, n) /\ CanSave(x, TRUE) /\ cash[t] >= n
      /\ asset' = [asset EXCEPT ![t] = after]
      /\ margin' = Sub(margin, a, t, s) /\ supplied' = supplied
      /\ cash' = [cash EXCEPT ![t] = @ - n]
      /\ UNCHANGED <<position, opened, stop, acting, trade, debts, price>>
  BY <1>1 DEF WithdrawAll
<1>5. PoolInvariant(after.supplied)
  BY <1>4 DEF CanSave
<1>6. /\ x \in AssetType /\ SameDebt(asset[t], x)
      /\ x.supplied = PoolWithdraw(asset[t].supplied, s, n)
      /\ x.supplied.shares = asset[t].supplied.shares - s
      /\ Worth(x) = Worth(asset[t]) + n
  BY <1>1, <1>3, <1>4, SupplyTaken
<1>7. PriceNotLower(asset[t].supplied, x.supplied)
  BY <1>1, <1>2, <1>3, <1>6, BurningKeepsPrice
<1> HIDE DEF x, n
<1>8. /\ after \in AssetType /\ SameDebt(x, after)
      /\ after.supplied.shares = x.supplied.shares
      /\ Worth(after) = Worth(x)
      /\ SupplySound(after)
  BY <1>5, <1>6, NormalizedAsset
<1>9. PriceNotLower(asset[t].supplied, after.supplied)
  BY <1>2, <1>6, <1>7, NormalizedPrice
<1>10. SameDebt(asset[t], after)
  BY <1>6, <1>8, SameDebtTransitive
<1>11. SupplyChange(asset[t], after, 0 - s, n)
  BY <1>1, <1>2, <1>3, <1>6, <1>8, <1>9, <1>10 DEF SupplyChange
<1> HIDE DEF after
<1>12. s <= margin[a][t]
  BY <1>1
<1> HIDE DEF s
<1>13. margin' \in SharesTable
  BY <1>1, <1>4, <1>12, EntryTaken
<1>14. ASSUME NEW u \in Tokens PROVE Gained(u) = IF u = t THEN 0 - s ELSE 0
  <2>1. Entries(supplied, margin, u) \in Nat
    BY <1>1, EntriesType DEF SharesTable
  <2>2. Entries(supplied, margin', u) = Entries(supplied, margin, u) - (IF u = t THEN s ELSE 0)
    BY <1>1, <1>4, <1>12, EntryTaken
  <2> QED BY <1>1, <1>4, <2>1, <2>2 DEF Gained
<1>15. /\ 0 - s \in Int /\ 0 - n \in Int /\ 0 - (0 - n) = n
       /\ cash[t] - n = cash[t] + (0 - n) /\ cash[t] + (0 - n) >= 0
  BY <1>1, <1>3, <1>4
<1>16. cash' = [cash EXCEPT ![t] = @ + (0 - n)]
  BY <1>4, <1>15
<1> QED BY <1>1, <1>4, <1>11, <1>13, <1>14, <1>15, <1>16, SupplyStep, ZenonT(30)

\* internal_withdraw of a regular account and its payment keep them.
LEMMA WithdrawRegularInv ==
  ASSUME Inv, NEW a \in Accounts, NEW t \in Tokens, NEW n \in Nat, WithdrawRegular(a, t, n)
  PROVE  Stepped /\ SuppliersKept
<1> DEFINE s == AmountToShares(asset[t].supplied, n, TRUE)
           after == Normalized(Burnt(asset[t], n))
<1>1. /\ asset[t] \in AssetType /\ SupplySound(asset[t]) /\ cash[t] \in Nat
      /\ supplied \in SharesTable /\ margin \in SharesTable /\ supplied[a][t] \in Nat
      /\ asset \in [Tokens -> AssetType]
  BY DEF Inv, TypeOK, AllSound, SharesTable
<1>2. /\ s \in Nat /\ s <= supplied[a][t]
      /\ SupplyChange(asset[t], after, 0 - s, n)
  BY <1>1, BurnChange DEF WithdrawRegular
<1>3. /\ asset' = [asset EXCEPT ![t] = after]
      /\ supplied' = Sub(supplied, a, t, s) /\ margin' = margin
      /\ cash[t] >= n
      /\ cash' = [cash EXCEPT ![t] = @ - n]
      /\ UNCHANGED <<position, opened, stop, acting, trade, debts, price>>
  BY <1>1 DEF WithdrawRegular
<1> HIDE DEF s, after
<1>4. supplied' \in SharesTable
  BY <1>1, <1>2, <1>3, EntryTaken
<1>5. ASSUME NEW u \in Tokens PROVE Gained(u) = IF u = t THEN 0 - s ELSE 0
  <2>1. Entries(supplied, margin, u) \in Nat
    BY <1>1, EntriesType DEF SharesTable
  <2>2. Entries(supplied', margin, u) = Entries(supplied, margin, u) - (IF u = t THEN s ELSE 0)
    BY <1>1, <1>2, <1>3, EntryTaken
  <2> QED BY <1>2, <1>3, <2>1, <2>2 DEF Gained
<1>6. /\ 0 - s \in Int /\ 0 - n \in Int /\ 0 - (0 - n) = n
      /\ cash[t] - n = cash[t] + (0 - n) /\ cash[t] + (0 - n) >= 0
  BY <1>1, <1>2, <1>3
<1>7. cash' = [cash EXCEPT ![t] = @ + (0 - n)]
  BY <1>3, <1>6
<1> QED BY <1>1, <1>2, <1>3, <1>4, <1>5, <1>6, <1>7, SupplyStep, ZenonT(30)

\* A step that changes one asset but not its shares.
LEMMA AssetStep ==
  ASSUME Inv, NEW t \in Tokens, NEW after \in AssetType,
         SupplySound(after), SoundPool(after.margin_debt),
         asset[t].hp <= after.hp, after.pending = asset[t].pending,
         after.margin_debt.shares = asset[t].margin_debt.shares,
         after.position = asset[t].position,
         after.supplied.shares = asset[t].supplied.shares,
         PriceNotLower(asset[t].supplied, after.supplied),
         asset' = [asset EXCEPT ![t] = after],
         cash' \in [Tokens -> Nat], debts' \in [Tokens -> Nat], price' \in [Tokens -> Nat],
         \A u \in Tokens \ {t} : cash'[u] = cash[u] /\ debts'[u] = debts[u],
         cash'[t] + debts'[t] + Worth(after) >= cash[t] + debts[t] + Worth(asset[t]),
         UNCHANGED <<supplied, margin, position, opened, stop, acting, trade>>
  PROVE  Stepped /\ SuppliersKept
<1>1. TypeOK /\ AllSound
  BY DEF Inv
<1>2. TypeOK'
  BY <1>1 DEF TypeOK
<1>3. asset'[t] = after /\ \A u \in Tokens \ {t} : asset'[u] = asset[u]
  BY <1>1 DEF TypeOK
<1>4. AllSound'
  BY <1>1, <1>3 DEF AllSound
<1>5. ASSUME NEW u \in Tokens
      PROVE  /\ asset[u].hp <= asset'[u].hp
             /\ asset'[u].pending = asset[u].pending
             /\ asset'[u].margin_debt.shares = asset[u].margin_debt.shares
             /\ asset'[u].position = asset[u].position
             /\ Gained(u) = NewShares(u)
             /\ Came(u) >= 0
  <2>1. /\ asset[u] \in AssetType /\ debts[u] \in Nat /\ cash[u] \in Nat
        /\ supplied \in SharesTable /\ margin \in SharesTable
    BY <1>1 DEF TypeOK, SharesTable
  <2>2. /\ asset[u].hp \in Nat /\ asset[u].supplied.shares \in Nat /\ Worth(asset[u]) \in Int
        /\ Worth(after) \in Int
    BY <2>1, AssetNumbers
  <2>3. Gained(u) = 0
    <3>1. Entries(supplied, margin, u) \in Nat
      BY <2>1, EntriesType DEF SharesTable
    <3> QED BY <3>1 DEF Gained
  <2>4. NewShares(u) = 0
    BY <1>3, <2>2 DEF NewShares
  <2>5. cash'[u] \in Nat /\ debts'[u] \in Nat
    OBVIOUS
  <2>6. CASE u = t
    BY <1>3, <2>1, <2>2, <2>3, <2>4, <2>5, <2>6 DEF Came
  <2>7. CASE u # t
    BY <1>3, <2>1, <2>2, <2>3, <2>4, <2>7 DEF Came
  <2> QED BY <2>6, <2>7
<1>6. SuppliersKept
  BY OneAssetKept
<1> QED BY <1>2, <1>4, <1>5, <1>6, StillInv

\* A part of an amount, at a rate of at most MAX_RATIO.
LEMMA PartBound ==
  ASSUME NEW amount \in Nat, NEW rate \in 0 .. MaxRatio
  PROVE  Part(amount, rate) \in Nat /\ Part(amount, rate) <= amount
<1>1. rate \in Nat /\ MaxRatio \in Nat \ {0} /\ MaxRatio \in Nat /\ rate <= MaxRatio
  BY MarginRatioAssumption
<1>2. rate * amount <= MaxRatio * amount
  BY <1>1, ProductMonotone
<1>3. amount * rate = rate * amount /\ amount * MaxRatio = MaxRatio * amount
  BY <1>1
<1>4. amount * rate \in Nat
  BY <1>1, ProductType
<1>5. amount * rate <= amount * MaxRatio
  BY <1>2, <1>3
<1> QED BY <1>1, <1>4, <1>5, Quotient, QuotientBound DEF Part

\* A deposit to the reserve, which pays the protocol's debt first, keeps them.
LEMMA DepositToReserveInv ==
  ASSUME Inv, NEW t \in Tokens, NEW n \in Nat, DepositToReserve(t, n)
  PROVE  Stepped /\ SuppliersKept
<1> DEFINE more  == [asset[t] EXCEPT !.reserved = @ + ToReserve(t, n)]
           after == Normalized(more)
           least == Least(n, debts[t])
<1>1. /\ asset[t] \in AssetType /\ SupplySound(asset[t]) /\ SoundPool(asset[t].margin_debt)
      /\ cash[t] \in Nat /\ debts[t] \in Nat /\ asset \in [Tokens -> AssetType]
      /\ cash \in [Tokens -> Nat] /\ debts \in [Tokens -> Nat] /\ price \in [Tokens -> Nat]
  BY DEF Inv, TypeOK, AllSound
<1>2. /\ CanSave(more, TRUE)
      /\ asset' = [asset EXCEPT ![t] = after]
      /\ debts' = [debts EXCEPT ![t] = debts[t] - least]
      /\ cash' = [cash EXCEPT ![t] = cash[t] + n]
      /\ UNCHANGED <<supplied, margin, position, opened, stop, acting, trade, price>>
  BY <1>1 DEF DepositToReserve
<1>3. least \in Nat /\ least <= n /\ least <= debts[t]
  BY <1>1, LeastBound
<1>4. ToReserve(t, n) = n - least
  BY DEF ToReserve
<1> HIDE DEF least
<1>5. /\ asset[t].reserved \in Nat /\ asset[t].prot_fee \in Nat /\ asset[t].position \in Nat
      /\ asset[t].supplied.balance \in Nat /\ asset[t].margin_debt.balance \in Nat
      /\ asset[t].hp \in Nat /\ Worth(asset[t]) \in Int
  BY <1>1, AssetNumbers
<1>6. asset[t].reserved + (n - least) \in Nat
  BY <1>3, <1>5
<1>7. /\ more \in AssetType
      /\ more.reserved = asset[t].reserved + (n - least)
      /\ more.supplied = asset[t].supplied /\ more.prot_fee = asset[t].prot_fee
      /\ SameDebt(asset[t], more)
  BY <1>1, <1>4, <1>6 DEF AssetType, SameDebt
<1>8. Worth(more) = Worth(asset[t]) - (n - least)
  BY <1>3, <1>5, <1>7 DEF Worth, SameDebt
<1> HIDE DEF more
<1>9. /\ after \in AssetType /\ SameDebt(asset[t], after)
      /\ after.supplied.shares = asset[t].supplied.shares
      /\ Worth(after) = Worth(asset[t]) - (n - least)
      /\ SupplySound(after)
  BY <1>2, <1>7, <1>8, NormalizedAsset, SameDebtTransitive DEF CanSave
<1>14. PriceNotLower(asset[t].supplied, after.supplied)
  <2>1. PriceNotLower(asset[t].supplied, more.supplied)
    BY <1>1, <1>7, SamePrice
  <2> QED BY <1>1, <1>7, <2>1, AssetNumbers, NormalizedPrice
<1> HIDE DEF after
<1>10. cash[t] + n \in Nat /\ debts[t] - least \in Nat
  BY <1>1, <1>3
<1>11. /\ cash' \in [Tokens -> Nat] /\ cash'[t] = cash[t] + n
       /\ debts' \in [Tokens -> Nat] /\ debts'[t] = debts[t] - least
       /\ \A u \in Tokens \ {t} : cash'[u] = cash[u] /\ debts'[u] = debts[u]
  BY <1>1, <1>2, <1>10
<1>12. cash'[t] + debts'[t] + Worth(after) >= cash[t] + debts[t] + Worth(asset[t])
  BY <1>1, <1>3, <1>5, <1>9, <1>11
<1>13. asset[t].hp <= after.hp /\ SoundPool(after.margin_debt)
  BY <1>1, <1>5, <1>9 DEF SameDebt
<1> QED BY <1>1, <1>2, <1>9, <1>11, <1>12, <1>13, <1>14, AssetStep DEF SameDebt

\* Interest on margin debt keeps them.
LEMMA AccrueInv ==
  ASSUME Inv, NEW t \in Tokens, NEW n \in Nat, Accrue(t, n)
  PROVE  Stepped /\ SuppliersKept
<1> DEFINE after == Compounded(asset[t], n)
           kept  == Part(n, ReserveRatio)
<1>1. /\ asset[t] \in AssetType /\ SupplySound(asset[t]) /\ SoundPool(asset[t].margin_debt)
      /\ cash[t] \in Nat /\ debts[t] \in Nat /\ asset \in [Tokens -> AssetType]
      /\ cash \in [Tokens -> Nat] /\ debts \in [Tokens -> Nat] /\ price \in [Tokens -> Nat]
  BY DEF Inv, TypeOK, AllSound
<1>2. /\ asset[t].margin_debt.balance > 0
      /\ asset' = [asset EXCEPT ![t] = after]
      /\ UNCHANGED <<supplied, margin, position, opened, stop, acting, trade, debts, price, cash>>
  BY <1>1 DEF Accrue
<1>3. kept \in Nat /\ kept <= n
  <2>1. ReserveRatio \in 0 .. MaxRatio
    BY MarginRatioAssumption
  <2> QED BY <2>1, PartBound
<1>4. /\ asset[t].reserved \in Nat /\ asset[t].prot_fee \in Nat /\ asset[t].position \in Nat
      /\ asset[t].supplied.balance \in Nat /\ asset[t].margin_debt.balance \in Nat
      /\ asset[t].supplied.shares \in Nat /\ asset[t].margin_debt.shares \in Nat
      /\ asset[t].supplied \in PoolType /\ asset[t].margin_debt \in PoolType
      /\ asset[t].hp \in Nat /\ Worth(asset[t]) \in Int
  BY <1>1, AssetNumbers
<1>5. after = IF asset[t].supplied.shares > 0
              THEN [asset[t] EXCEPT !.supplied.balance = @ + n - kept,
                                    !.reserved = @ + kept,
                                    !.margin_debt.balance = @ + n]
              ELSE [asset[t] EXCEPT !.reserved = @ + n, !.margin_debt.balance = @ + n]
  BY DEF Compounded
<1> HIDE DEF after, kept
<1> DEFINE toSupply  == IF asset[t].supplied.shares > 0 THEN n - kept ELSE 0
           toReserve == IF asset[t].supplied.shares > 0 THEN kept ELSE n
<1>6. toSupply \in Nat /\ toReserve \in Nat /\ toSupply + toReserve = n
  BY <1>3, <1>4
<1>7. /\ asset[t].supplied.balance + n - kept = asset[t].supplied.balance + (n - kept)
      /\ asset[t].supplied.balance + n - kept \in Nat
      /\ asset[t].reserved + kept \in Nat /\ asset[t].reserved + n \in Nat
      /\ asset[t].margin_debt.balance + n \in Nat
      /\ asset[t].supplied.balance + 0 = asset[t].supplied.balance
  BY <1>3, <1>4
<1>8. /\ after \in AssetType
      /\ after.supplied.shares = asset[t].supplied.shares
      /\ after.supplied.balance = asset[t].supplied.balance + toSupply
      /\ after.reserved = asset[t].reserved + toReserve
      /\ after.margin_debt.shares = asset[t].margin_debt.shares
      /\ after.margin_debt.balance = asset[t].margin_debt.balance + n
      /\ after.prot_fee = asset[t].prot_fee /\ after.pending = asset[t].pending
      /\ after.position = asset[t].position /\ after.hp = asset[t].hp
  <2>1. CASE asset[t].supplied.shares > 0
    BY <1>1, <1>4, <1>5, <1>7, <2>1 DEF AssetType, PoolType
  <2>2. CASE ~(asset[t].supplied.shares > 0)
    BY <1>1, <1>4, <1>5, <1>7, <2>2 DEF AssetType, PoolType
  <2> QED BY <2>1, <2>2
<1>9. SupplySound(after)
  <2>1. asset[t].supplied.shares = 0 => toSupply = 0
    BY <1>4
  <2> HIDE DEF toSupply
  <2> QED BY <1>1, <1>4, <1>6, <1>8, <2>1 DEF SupplySound, PoolInvariant
<1> HIDE DEF toSupply, toReserve
<1>14. PriceNotLower(asset[t].supplied, after.supplied)
  <2>1. asset[t].supplied.balance <= after.supplied.balance /\ after.supplied.balance \in Nat
    BY <1>4, <1>6, <1>8
  <2>2. asset[t].supplied.balance * asset[t].supplied.shares
           <= after.supplied.balance * asset[t].supplied.shares
    BY <1>4, <2>1, ProductMonotone
  <2> QED BY <1>8, <2>2 DEF PriceNotLower
<1>10. SoundPool(after.margin_debt)
  BY <1>1, <1>2, <1>4, <1>8 DEF SoundPool, PoolInvariant
<1>11. Worth(after) = Worth(asset[t])
  BY <1>4, <1>6, <1>8 DEF Worth
<1>12. cash'[t] + debts'[t] + Worth(after) >= cash[t] + debts[t] + Worth(asset[t])
  BY <1>1, <1>2, <1>4, <1>11
<1>13. asset[t].hp <= after.hp
  BY <1>4, <1>8
<1> QED BY <1>1, <1>2, <1>8, <1>9, <1>10, <1>12, <1>13, <1>14, AssetStep

\* The growth of unit_acc_hp_interest keeps them.
LEMMA HoldingFeeGrowsInv ==
  ASSUME Inv, NEW t \in Tokens, NEW n \in Nat, HoldingFeeGrows(t, n)
  PROVE  Stepped /\ SuppliersKept
<1> DEFINE after == [asset[t] EXCEPT !.hp = @ + n]
<1>1. /\ asset[t] \in AssetType /\ SupplySound(asset[t]) /\ SoundPool(asset[t].margin_debt)
      /\ cash[t] \in Nat /\ debts[t] \in Nat /\ asset \in [Tokens -> AssetType]
      /\ cash \in [Tokens -> Nat] /\ debts \in [Tokens -> Nat] /\ price \in [Tokens -> Nat]
  BY DEF Inv, TypeOK, AllSound
<1>2. /\ asset' = [asset EXCEPT ![t] = after]
      /\ UNCHANGED <<supplied, margin, position, opened, stop, acting, trade, debts, price, cash>>
  BY <1>1 DEF HoldingFeeGrows
<1>3. asset[t].hp \in Nat /\ Worth(asset[t]) \in Int
  BY <1>1, AssetNumbers
<1>4. asset[t].hp + n \in Nat
  BY <1>3
<1>5. /\ after \in AssetType /\ after.hp = asset[t].hp + n
      /\ after.supplied = asset[t].supplied /\ after.margin_debt = asset[t].margin_debt
      /\ after.reserved = asset[t].reserved /\ after.prot_fee = asset[t].prot_fee
      /\ after.pending = asset[t].pending /\ after.position = asset[t].position
  BY <1>1, <1>4 DEF AssetType
<1> HIDE DEF after
<1>6. Worth(after) = Worth(asset[t]) /\ SupplySound(after) /\ SoundPool(after.margin_debt)
  BY <1>1, <1>5 DEF Worth, SupplySound
<1>9. PriceNotLower(asset[t].supplied, after.supplied)
  BY <1>1, <1>5, SamePrice
<1>7. cash'[t] + debts'[t] + Worth(after) >= cash[t] + debts[t] + Worth(asset[t])
  BY <1>1, <1>2, <1>3, <1>6
<1>8. asset[t].hp <= after.hp
  BY <1>3, <1>5
<1> QED BY <1>1, <1>2, <1>5, <1>6, <1>7, <1>8, <1>9, AssetStep

\* New prices keep them.
LEMMA UpdatePriceInv ==
  ASSUME Inv, NEW t \in Tokens, NEW p \in Nat, UpdatePrice(t, p)
  PROVE  Stepped /\ SuppliersKept
<1>1. /\ asset[t] \in AssetType /\ SupplySound(asset[t]) /\ SoundPool(asset[t].margin_debt)
      /\ cash[t] \in Nat /\ debts[t] \in Nat /\ asset \in [Tokens -> AssetType]
      /\ cash \in [Tokens -> Nat] /\ debts \in [Tokens -> Nat] /\ price \in [Tokens -> Nat]
  BY DEF Inv, TypeOK, AllSound
<1>2. /\ price' = [price EXCEPT ![t] = p]
      /\ UNCHANGED <<asset, supplied, margin, position, opened, stop, acting, trade, debts, cash>>
  BY DEF UpdatePrice
<1>3. asset' = [asset EXCEPT ![t] = asset[t]] /\ price' \in [Tokens -> Nat]
  BY <1>1, <1>2
<1>4. asset[t].hp \in Nat /\ Worth(asset[t]) \in Int
  BY <1>1, AssetNumbers
<1>5. /\ cash'[t] + debts'[t] + Worth(asset[t]) >= cash[t] + debts[t] + Worth(asset[t])
      /\ asset[t].hp <= asset[t].hp
  BY <1>1, <1>2, <1>4
<1>6. PriceNotLower(asset[t].supplied, asset[t].supplied)
  BY <1>1, SamePrice
<1> QED BY <1>1, <1>2, <1>3, <1>5, <1>6, AssetStep

-----------------------------------------------------------------------------
(***************************************************************************)
(* Collateral and stops.                                                   *)
(***************************************************************************)
\* The records of a position, as the steps need them.
LEMMA PositionFields ==
  ASSUME Inv, NEW i \in PosIds, position[i] # NoPosition
  PROVE  /\ position[i] \in PositionType
         /\ position[i].account \in Accounts /\ position[i].account \in Traders
         /\ position[i].c \in Tokens /\ position[i].d \in Tokens /\ position[i].p \in Tokens
         /\ position[i].d # position[i].p
         /\ position[i].c = position[i].d \/ position[i].c = position[i].p
         /\ position[i].c_shares \in Nat /\ position[i].d_shares \in Nat
         /\ position[i].p_amount \in Nat /\ position[i].debt_cap \in Nat
         /\ position[i].uahpi_at_open \in Nat
         /\ position[i].uahpi_at_open <= asset[position[i].d].hp
         /\ position[i].is_locking \in BOOLEAN
         /\ Fits(i) /\ PositionFits(i)
<1>1. position[i] \in PositionType
  BY DEF Inv, TypeOK
<1>2. Fits(i) /\ PositionFits(i)
  BY DEF Inv, AllFit, Fits
<1>3. /\ position[i].account \in Traders /\ position[i].d # position[i].p
      /\ position[i].c = position[i].d \/ position[i].c = position[i].p
      /\ position[i].uahpi_at_open <= asset[position[i].d].hp
  BY <1>2 DEF PositionFits
<1>4. /\ position[i].account \in Accounts
      /\ position[i].c \in Tokens /\ position[i].d \in Tokens /\ position[i].p \in Tokens
      /\ position[i].c_shares \in Nat /\ position[i].d_shares \in Nat
      /\ position[i].p_amount \in Nat /\ position[i].debt_cap \in Nat
      /\ position[i].uahpi_at_open \in Nat /\ position[i].is_locking \in BOOLEAN
  BY <1>1 DEF PositionType
<1> QED BY <1>1, <1>2, <1>3, <1>4

\* Of any asset and of the tables of shares.
LEMMA InvFields ==
  ASSUME Inv
  PROVE  /\ asset \in [Tokens -> AssetType]
         /\ supplied \in SharesTable /\ margin \in SharesTable
         /\ cash \in [Tokens -> Nat] /\ debts \in [Tokens -> Nat] /\ price \in [Tokens -> Nat]
         /\ \A t \in Tokens : /\ asset[t] \in AssetType /\ SupplySound(asset[t])
                              /\ SoundPool(asset[t].margin_debt)
                              /\ Worth(asset[t]) \in Int
                              /\ cash[t] \in Nat /\ debts[t] \in Nat
                              /\ Entries(supplied, margin, t) \in Nat
<1>1. /\ asset \in [Tokens -> AssetType]
      /\ supplied \in SharesTable /\ margin \in SharesTable
      /\ cash \in [Tokens -> Nat] /\ debts \in [Tokens -> Nat] /\ price \in [Tokens -> Nat]
  BY DEF Inv, TypeOK, SharesTable
<1>2. \A t \in Tokens : Entries(supplied, margin, t) \in Nat
  BY <1>1, EntriesType DEF SharesTable
<1>3. \A t \in Tokens : SupplySound(asset[t]) /\ SoundPool(asset[t].margin_debt)
  BY DEF Inv, AllSound
<1>4. \A t \in Tokens : asset[t] \in AssetType /\ cash[t] \in Nat /\ debts[t] \in Nat
  BY <1>1
<1>5. \A t \in Tokens : Worth(asset[t]) \in Int
  BY <1>4, AssetNumbers
<1> QED BY <1>1, <1>2, <1>3, <1>4, <1>5

\* Shares move between an account and its position.
LEMMA CollateralStep ==
  ASSUME Inv, NEW i \in PosIds, position[i] # NoPosition, NEW k \in Nat,
         position' = [position EXCEPT ![i].c_shares = k], margin' \in SharesTable,
         \A t \in Tokens :
            Gained(t) = IF t = position[i].c THEN position[i].c_shares - k ELSE 0,
         UNCHANGED <<asset, supplied, opened, stop, acting, trade, debts, price, cash>>
  PROVE  Stepped /\ SuppliersKept
<1>1. TypeOK /\ AllSound
  BY DEF Inv
<1> DEFINE pos == position[i]
           new == [pos EXCEPT !.c_shares = k]
<1>2. /\ pos \in PositionType /\ pos.c_shares \in Nat /\ Fits(i) /\ PositionFits(i)
  BY PositionFields
<1>3. /\ new \in PositionType
      /\ new.account = pos.account /\ new.c = pos.c /\ new.d = pos.d /\ new.p = pos.p
      /\ new.c_shares = k /\ new.d_shares = pos.d_shares /\ new.p_amount = pos.p_amount
      /\ new.uahpi_at_open = pos.uahpi_at_open /\ new.is_locking = pos.is_locking
  BY <1>2 DEF PositionType
<1>4. new # NoPosition
  BY <1>3, NoRecordsAssumption
<1>5. position'[i] = new /\ \A j \in PosIds \ {i} : position'[j] = position[j]
  BY <1>1 DEF TypeOK
<1>6. position' \in [PosIds -> PositionType \cup {NoPosition}]
  BY <1>1, <1>3 DEF TypeOK
<1> HIDE DEF new
<1>7. TypeOK'
  BY <1>1, <1>6 DEF TypeOK, SharesTable
<1>8. \A t \in Tokens : asset[t] \in AssetType /\ asset[t].hp \in Nat
  BY InvFields, AssetNumbers
<1>9. Touches(i)
  BY <1>5, <1>8 DEF Touches, OnlyPosition
<1>10. Fits(i)'
  BY <1>2, <1>3, <1>4, <1>5 DEF Fits, PositionFits, TradeFits
<1>11. AllSound'
  BY <1>1 DEF AllSound
<1>12. ASSUME NEW t \in Tokens
       PROVE  Balanced(i, t) /\ SharesStay(i, t) /\ TokensStay(i, t)
  <2>1. /\ asset[t].pending \in Nat /\ asset[t].margin_debt.shares \in Nat
        /\ asset[t].position \in Nat /\ asset[t].supplied.shares \in Nat
        /\ Worth(asset[t]) \in Int /\ cash[t] \in Nat /\ debts[t] \in Nat
    BY <1>8, InvFields, AssetNumbers
  <2>2. /\ OwedIn(position'[i], t) = OwedIn(pos, t) /\ BoughtIn(position'[i], t) = BoughtIn(pos, t)
        /\ AskedIn(position'[i], trade'[i], t) = AskedIn(pos, trade[i], t)
        /\ OnSaleIn(position'[i], trade'[i], t) = OnSaleIn(pos, trade[i], t)
        /\ FeeIn(stop'[i], t) = FeeIn(stop[i], t)
    BY <1>3, <1>4, <1>5 DEF OwedIn, BoughtIn, AskedIn, OnSaleIn, FeeIn
  <2>3. AwayIn(position'[i], trade'[i], t) = AwayIn(pos, trade[i], t)
    BY <2>2 DEF AwayIn
  <2>4. /\ PledgedIn(pos, t) = (IF t = pos.c THEN pos.c_shares ELSE 0)
        /\ PledgedIn(position'[i], t) = (IF t = pos.c THEN k ELSE 0)
    BY <1>3, <1>4, <1>5 DEF PledgedIn
  <2>5. Records(pos, trade[i], stop[i])
    BY <1>1 DEF TypeOK, Records
  <2>6. /\ OwedIn(pos, t) \in Nat /\ BoughtIn(pos, t) \in Nat /\ AskedIn(pos, trade[i], t) \in Nat
        /\ AwayIn(pos, trade[i], t) \in Nat /\ OnSaleIn(pos, trade[i], t) \in Nat
        /\ FeeIn(stop[i], t) \in Nat
    BY <2>5, EntryTypes
  <2>7. Balanced(i, t)
    BY <2>1, <2>2, <2>6 DEF Balanced
  <2>8. SharesStay(i, t)
    BY <1>2, <2>1, <2>4 DEF SharesStay, NewShares
  <2>9. Came(t) = 0
    BY <2>1 DEF Came
  <2>10. TokensStay(i, t)
    BY <2>2, <2>3, <2>6, <2>9 DEF TokensStay
  <2> QED BY <2>7, <2>8, <2>10
<1>13. SuppliersKept
  BY AssetsKept
<1> QED BY <1>7, <1>9, <1>10, <1>11, <1>12, <1>13, StepInv

\* More collateral for a position keeps them, even while it is traded.
LEMMA IncreaseCollateralInv ==
  ASSUME Inv, NEW i \in PosIds, NEW n \in Nat, IncreaseCollateral(i, n)
  PROVE  Stepped /\ SuppliersKept
<1> DEFINE pos == position[i]
           s   == AmountToShares(asset[pos.c].supplied, n, FALSE)
           a   == pos.account
<1>1. /\ pos # NoPosition /\ 0 < s /\ s <= margin[a][pos.c]
      /\ margin' = Sub(margin, a, pos.c, s)
      /\ position' = [position EXCEPT ![i].c_shares = @ + s]
      /\ UNCHANGED <<asset, supplied, opened, stop, acting, trade, debts, price, cash>>
  BY DEF IncreaseCollateral
<1>2. pos \in PositionType /\ pos.c \in Tokens /\ a \in Accounts /\ pos.c_shares \in Nat
  BY <1>1, PositionFields
<1>3. s \in Nat
  <2>1. asset[pos.c].supplied \in PoolType /\ PoolInvariant(asset[pos.c].supplied)
    BY <1>2, InvFields, AssetNumbers DEF SupplySound
  <2> QED BY <2>1, SharesDown
<1> HIDE DEF s
<1>4. /\ position' = [position EXCEPT ![i].c_shares = pos.c_shares + s]
      /\ pos.c_shares + s \in Nat /\ pos.c_shares - (pos.c_shares + s) = 0 - s
  BY <1>1, <1>2, <1>3
<1>5. margin' \in SharesTable
  BY <1>1, <1>2, <1>3, InvFields, EntryTaken
<1>6. ASSUME NEW t \in Tokens PROVE Gained(t) = IF t = pos.c THEN 0 - s ELSE 0
  <2>1. /\ Entries(supplied, margin, t) \in Nat
        /\ Entries(supplied, margin', t)
              = Entries(supplied, margin, t) - (IF t = pos.c THEN s ELSE 0)
    BY <1>1, <1>2, <1>3, InvFields, EntryTaken
  <2> QED BY <1>1, <1>3, <2>1 DEF Gained
<1> QED BY <1>1, <1>4, <1>5, <1>6, CollateralStep

\* Less collateral keeps them.
LEMMA DecreaseCollateralInv ==
  ASSUME Inv, NEW i \in PosIds, NEW n \in Nat, DecreaseCollateral(i, n)
  PROVE  Stepped /\ SuppliersKept
<1> DEFINE pos == position[i]
           s   == AmountToShares(asset[pos.c].supplied, n, TRUE)
           a   == pos.account
<1>1. /\ pos # NoPosition /\ 0 < s /\ s < pos.c_shares
      /\ margin' = Add(margin, a, pos.c, s)
      /\ position' = [position EXCEPT ![i] = [pos EXCEPT !.c_shares = @ - s]]
      /\ UNCHANGED <<asset, supplied, opened, stop, acting, trade, debts, price, cash>>
  BY DEF DecreaseCollateral
<1>2. pos \in PositionType /\ pos.c \in Tokens /\ a \in Accounts /\ pos.c_shares \in Nat
  BY <1>1, PositionFields
<1>3. s \in Nat
  <2>1. asset[pos.c].supplied \in PoolType /\ PoolInvariant(asset[pos.c].supplied)
    BY <1>2, InvFields, AssetNumbers DEF SupplySound
  <2> QED BY <2>1, SharesUp
<1> HIDE DEF s
<1>4. /\ position' = [position EXCEPT ![i].c_shares = pos.c_shares - s]
      /\ pos.c_shares - s \in Nat /\ pos.c_shares - (pos.c_shares - s) = s
  BY <1>1, <1>2, <1>3
<1>5. margin' \in SharesTable
  BY <1>1, <1>2, <1>3, InvFields, EntryAdded
<1>6. ASSUME NEW t \in Tokens PROVE Gained(t) = IF t = pos.c THEN s ELSE 0
  <2>1. /\ Entries(supplied, margin, t) \in Nat
        /\ Entries(supplied, margin', t)
              = Entries(supplied, margin, t) + (IF t = pos.c THEN s ELSE 0)
    BY <1>1, <1>2, <1>3, InvFields, EntryAdded
  <2> QED BY <1>1, <1>3, <2>1 DEF Gained
<1> QED BY <1>1, <1>4, <1>5, <1>6, CollateralStep

\* The stops a trader may set are stops.
LEMMA StopChoiceType ==
  ASSUME NEW s \in StopChoices
  PROVE  /\ s \in StopType \cup {NoStop}
         /\ s # NoStop => s.amount = StopFee.amount
<1>1. CASE s = NoStop
  BY <1>1
<1>2. ASSUME NEW q \in Stops,
             s = [loss |-> q.loss, profit |-> q.profit, amount |-> StopFee.amount]
      PROVE  s \in StopType /\ s.amount = StopFee.amount
  BY <1>2, StopFeeType, MarginNumbersAssumption DEF StopType
<1> QED BY <1>1, <1>2 DEF StopChoices

\* Nothing is changed by nothing.
LEMMA NoSupplyChange ==
  ASSUME NEW ast \in AssetType, SupplySound(ast)
  PROVE  SupplyChange(ast, ast, 0, 0)
<1>1. /\ ast.supplied.shares \in Nat /\ ast.supplied.balance \in Nat /\ Worth(ast) \in Int
  BY AssetNumbers
<1>2. ast.supplied.balance * ast.supplied.shares \in Nat
  BY <1>1, ProductType
<1> QED BY <1>1, <1>2 DEF SupplyChange, SameDebt, PriceNotLower

\* process_set_stop keeps them: the old fee comes back, the new one is taken.
LEMMA SetStopInv ==
  ASSUME Inv, NEW i \in PosIds, NEW s \in StopChoices, SetStop(i, s)
  PROVE  Stepped /\ SuppliersKept
<1> DEFINE pos      == position[i]
           a        == pos.account
           f        == StopFee.token
           refund   == IF stop[i] = NoStop THEN 0 ELSE stop[i].amount
           refunded == IF refund = 0 THEN asset[f] ELSE Normalized(Deposited(asset[f], refund))
           back     == AmountToShares(asset[f].supplied, refund, FALSE)
           held     == margin[a][f] + back
           fee      == AmountToShares(refunded.supplied, StopFee.amount, TRUE)
           taken    == IF s = NoStop THEN 0 ELSE StopFee.amount
           burnt    == IF s = NoStop THEN 0 ELSE fee
           after    == IF s = NoStop THEN refunded ELSE Normalized(Burnt(refunded, StopFee.amount))
<1>1. /\ pos # NoPosition /\ ~pos.is_locking
      /\ stop' = [stop EXCEPT ![i] = s]
      /\ s # NoStop => CanBurn(refunded, held, StopFee.amount)
      /\ asset' = [asset EXCEPT ![f] = after]
      /\ UNCHANGED <<supplied, position, opened, acting, trade, debts, price, cash>>
  BY DEF SetStop
<1>2. margin' = [margin EXCEPT ![a][f] = IF s = NoStop THEN held ELSE held - fee]
  BY DEF SetStop
<1>3. /\ f \in Tokens /\ StopFee.amount \in Nat
      /\ s \in StopType \cup {NoStop} /\ (s # NoStop => s.amount = StopFee.amount)
  BY StopFeeType, StopChoiceType
<1>4. /\ a \in Accounts /\ Fits(i) /\ PositionFits(i)
  BY <1>1, PositionFields
<1>5. TypeOK /\ AllSound
  BY DEF Inv
<1>6. refund \in Nat
  <2>1. stop[i] \in StopType \cup {NoStop}
    BY <1>5 DEF TypeOK
  <2> QED BY <2>1 DEF StopType
<1>7. /\ asset[f] \in AssetType /\ SupplySound(asset[f]) /\ Worth(asset[f]) \in Int
      /\ asset[f].supplied \in PoolType /\ PoolInvariant(asset[f].supplied)
      /\ asset[f].supplied.shares \in Nat /\ margin[a][f] \in Nat
  BY <1>3, <1>4, InvFields, AssetNumbers DEF SupplySound, SharesTable
<1>a. /\ back = AmountToShares(asset[f].supplied, refund, FALSE)
      /\ refund = 0 => refunded = asset[f]
      /\ refund # 0 => refunded = Normalized(Deposited(asset[f], refund))
  OBVIOUS
<1>b. held = margin[a][f] + back
  OBVIOUS
<1>c. /\ s = NoStop => taken = 0
      /\ s # NoStop => taken = StopFee.amount
  OBVIOUS
<1>d. /\ s = NoStop => burnt = 0 /\ after = refunded
      /\ s # NoStop => burnt = AmountToShares(refunded.supplied, StopFee.amount, TRUE)
      /\ s # NoStop => after = Normalized(Burnt(refunded, StopFee.amount))
  OBVIOUS
<1>e. margin' = [margin EXCEPT ![a][f] = IF s = NoStop THEN held ELSE held - burnt]
  BY <1>2
<1>f. refund = FeeIn(stop[i], f) /\ taken = FeeIn(s, f)
  BY <1>3 DEF FeeIn
<1> HIDE DEF refund, refunded, back, held, fee, taken, burnt, after
<1>9. back \in Nat /\ SupplyChange(asset[f], refunded, back, 0 - refund)
  <2>1. CASE refund = 0
    <3>1. back \in Nat /\ back <= refund
      BY <1>6, <1>7, <1>a, SharesDown
    <3>2. back = 0 /\ 0 - refund = 0
      BY <2>1, <3>1
    <3>3. SupplyChange(asset[f], asset[f], 0, 0)
      BY <1>7, NoSupplyChange
    <3>4. refunded = asset[f]
      BY <1>a, <2>1
    <3> QED BY <3>2, <3>3, <3>4
  <2>2. CASE refund # 0
    BY <1>6, <1>7, <1>a, <2>2, DepositChange
  <2> QED BY <2>1, <2>2
<1>10. /\ refunded \in AssetType /\ SupplySound(refunded) /\ SameDebt(asset[f], refunded)
       /\ refunded.supplied.shares = asset[f].supplied.shares + back
       /\ Worth(refunded) = Worth(asset[f]) + (0 - refund)
       /\ held \in Nat
  BY <1>7, <1>9, <1>b DEF SupplyChange
<1>11. burnt \in Nat /\ burnt <= held /\ SupplyChange(refunded, after, 0 - burnt, taken)
  <2>1. CASE s = NoStop
    <3>1. SupplyChange(refunded, refunded, 0, 0)
      BY <1>10, NoSupplyChange
    <3> QED BY <1>10, <1>c, <1>d, <2>1, <3>1
  <2>2. CASE s # NoStop
    <3>1. CanBurn(refunded, held, StopFee.amount)
      BY <1>1, <2>2
    <3> QED BY <1>3, <1>10, <1>c, <1>d, <2>2, <3>1, BurnChange
  <2> QED BY <2>1, <2>2
<1>12. /\ after \in AssetType /\ SupplySound(after) /\ SameDebt(refunded, after)
       /\ after.supplied.shares = refunded.supplied.shares + (0 - burnt)
       /\ Worth(after) = Worth(refunded) + taken
  BY <1>11 DEF SupplyChange
<1>13. margin' = [margin EXCEPT ![a][f] = held - burnt]
  <2>1. s = NoStop => held - burnt = held
    BY <1>10, <1>d
  <2> QED BY <1>e, <2>1
<1>14. taken \in Nat
  BY <1>3, <1>c
<1>15. held - burnt \in Nat /\ (held - burnt) - margin[a][f] = back - burnt
  BY <1>7, <1>9, <1>10, <1>11, <1>b
<1>16. /\ margin' \in SharesTable
       /\ \A t \in Tokens : Gained(t) = IF t = f THEN back - burnt ELSE 0
  <2>1. margin' \in SharesTable
    <3> DEFINE k == held - burnt
    <3>1. margin' = [margin EXCEPT ![a][f] = k] /\ k \in Nat
      BY <1>13, <1>15
    <3> HIDE DEF k
    <3> QED BY <1>3, <1>4, <3>1, InvFields, EntrySet
  <2>2. ASSUME NEW t \in Tokens PROVE Gained(t) = IF t = f THEN back - burnt ELSE 0
    <3>1. /\ Entries(supplied, margin, t) \in Nat
          /\ Entries(supplied, margin', t) = Entries(supplied, margin, t)
                + (IF t = f THEN (held - burnt) - margin[a][f] ELSE 0)
      <4> DEFINE k == held - burnt
      <4>1. margin' = [margin EXCEPT ![a][f] = k] /\ k \in Nat
        BY <1>13, <1>15
      <4>2. k = held - burnt
        OBVIOUS
      <4> HIDE DEF k, pos, a, f
      <4>3. supplied \in SharesTable /\ margin \in SharesTable
            /\ Entries(supplied, margin, t) \in Nat
        BY InvFields
      <4>4. a \in Accounts /\ f \in Tokens /\ k \in Nat
        BY <1>3, <1>4, <4>1
      <4>5. Entries(supplied, [margin EXCEPT ![a][f] = k], t)
               = Entries(supplied, margin, t) + (IF t = f THEN k - margin[a][f] ELSE 0)
        BY <4>3, <4>4, EntrySet
      <4> QED BY <4>1, <4>2, <4>3, <4>5
    <3> QED BY <1>1, <1>9, <1>11, <1>15, <3>1 DEF Gained
  <2> QED BY <2>1, <2>2
<1>17. SameDebt(asset[f], after)
  BY <1>10, <1>12, SameDebtTransitive
<1>18. /\ asset'[f] = after /\ \A t \in Tokens \ {f} : asset'[t] = asset[t]
       /\ stop'[i] = s /\ \A j \in PosIds \ {i} : stop'[j] = stop[j]
  BY <1>1, <1>3, <1>5 DEF TypeOK
<1>19. TypeOK'
  <2>1. asset' \in [Tokens -> AssetType]
    BY <1>1, <1>5, <1>12 DEF TypeOK
  <2>2. stop' \in [PosIds -> StopType \cup {NoStop}]
    BY <1>1, <1>3, <1>5 DEF TypeOK
  <2> QED BY <1>1, <1>5, <1>16, <2>1, <2>2 DEF TypeOK, SharesTable
<1>20. AllSound'
  BY <1>5, <1>12, <1>17, <1>18 DEF AllSound, SameDebt
<1>21. \A t \in Tokens : asset[t] \in AssetType /\ asset[t].hp \in Nat
  BY InvFields, AssetNumbers
<1>22. Touches(i)
  BY <1>1, <1>17, <1>18, <1>21 DEF Touches, OnlyPosition, SameDebt
<1>23. Fits(i)'
  <2>1. asset'[pos.d].hp = asset[pos.d].hp
    BY <1>17, <1>18, <1>1, PositionFields DEF SameDebt
  <2> QED BY <1>1, <1>4, <2>1 DEF Fits, PositionFits, TradeFits
<1>24. ASSUME NEW t \in Tokens
       PROVE  Balanced(i, t) /\ SharesStay(i, t) /\ TokensStay(i, t)
  <2>1. /\ asset[t].pending \in Nat /\ asset[t].margin_debt.shares \in Nat
        /\ asset[t].position \in Nat /\ asset[t].supplied.shares \in Nat
        /\ Worth(asset[t]) \in Int /\ cash[t] \in Nat /\ debts[t] \in Nat
    BY <1>21, InvFields, AssetNumbers
  <2>2. /\ asset'[t].pending = asset[t].pending /\ asset'[t].margin_debt = asset[t].margin_debt
        /\ asset'[t].position = asset[t].position
    BY <1>17, <1>18 DEF SameDebt
  <2>3. Records(pos, trade[i], stop[i]) /\ Records(pos, trade[i], s)
    BY <1>3, <1>5 DEF TypeOK, Records
  <2>4. /\ OwedIn(pos, t) \in Nat /\ BoughtIn(pos, t) \in Nat /\ AskedIn(pos, trade[i], t) \in Nat
        /\ AwayIn(pos, trade[i], t) \in Nat /\ OnSaleIn(pos, trade[i], t) \in Nat
        /\ PledgedIn(pos, t) \in Nat /\ FeeIn(stop[i], t) \in Nat /\ FeeIn(s, t) \in Nat
    BY <2>3, EntryTypes
  <2>5. Balanced(i, t)
    BY <1>1, <2>1, <2>2, <2>4 DEF Balanced
  <2>6. NewShares(t) = IF t = f THEN back - burnt ELSE 0
    BY <1>7, <1>9, <1>10, <1>11, <1>12, <1>18, <2>1 DEF NewShares
  <2>7. SharesStay(i, t)
    BY <1>1, <1>9, <1>11, <1>16, <2>4, <2>6 DEF SharesStay
  <2>8. Came(t) = IF t = f THEN taken - refund ELSE 0
    BY <1>1, <1>6, <1>7, <1>10, <1>12, <1>14, <1>18, <2>1 DEF Came
  <2>9. t # f => FeeIn(s, t) = 0 /\ FeeIn(stop[i], t) = 0
    BY DEF FeeIn
  <2>10. TokensStay(i, t)
    BY <1>1, <1>6, <1>14, <1>18, <1>f, <2>4, <2>8, <2>9 DEF TokensStay
  <2> QED BY <2>5, <2>7, <2>10
<1>25. SuppliersKept
  <2>1. PriceNotLower(asset[f].supplied, refunded.supplied)
    BY <1>9 DEF SupplyChange
  <2>2. PriceNotLower(refunded.supplied, after.supplied)
    BY <1>11 DEF SupplyChange
  <2>3. asset[f].supplied.shares <= refunded.supplied.shares
    BY <1>7, <1>9, <1>10
  <2>4. PriceNotLower(asset[f].supplied, after.supplied)
    BY <1>7, <1>10, <1>12, <2>1, <2>2, <2>3, PriceSteps
  <2> QED BY ONLY <1>1, <1>3, <2>4, Inv, OneAssetKept
<1> QED BY <1>19, <1>20, <1>22, <1>23, <1>24, <1>25, StepInv

-----------------------------------------------------------------------------
(***************************************************************************)
(* Asking the exchange.                                                    *)
(***************************************************************************)
\* An id that is not used yet has no records.
LEMMA UnusedId ==
  ASSUME Inv, NEW i \in PosIds, i \notin opened
  PROVE  /\ position[i] = NoPosition /\ trade[i] = NoTrade /\ stop[i] = NoStop
<1>1. Fits(i)
  BY DEF Inv, AllFit
<1>2. position[i] = NoPosition
  BY <1>1 DEF Fits, PositionFits
<1> QED BY <1>1, <1>2 DEF Fits

\* increase_margin_pending_debt saved.
LEMMA LentAsset ==
  ASSUME NEW ast \in AssetType, SupplySound(ast), NEW n \in Nat, CanSave(Lent(ast, n), TRUE)
  PROVE  LET saved == Normalized(Lent(ast, n))
         IN  /\ saved \in AssetType /\ SupplySound(saved)
             /\ saved.supplied.shares = ast.supplied.shares
             /\ saved.pending = ast.pending + n
             /\ saved.margin_debt = ast.margin_debt /\ saved.position = ast.position
             /\ saved.hp = ast.hp
             /\ Worth(saved) = Worth(ast)
             /\ saved.supplied = ast.supplied
<1> DEFINE lent == Lent(ast, n)
<1>1. ast.pending \in Nat /\ Worth(ast) \in Int
  BY AssetNumbers
<1>2. ast.pending + n \in Nat
  BY <1>1
<1>3. /\ lent \in AssetType /\ lent.pending = ast.pending + n
      /\ lent.supplied = ast.supplied /\ lent.margin_debt = ast.margin_debt
      /\ lent.reserved = ast.reserved /\ lent.prot_fee = ast.prot_fee
      /\ lent.position = ast.position /\ lent.hp = ast.hp
  BY <1>2 DEF Lent, AssetType
<1>4. PoolInvariant(Normalized(lent).supplied)
  BY DEF CanSave
<1> HIDE DEF lent
<1>5. Worth(lent) = Worth(ast)
  BY <1>3 DEF Worth
<1>6. /\ Normalized(lent) \in AssetType /\ SameDebt(lent, Normalized(lent))
      /\ Normalized(lent).supplied.shares = lent.supplied.shares
      /\ Worth(Normalized(lent)) = Worth(lent)
      /\ SupplySound(Normalized(lent))
  BY <1>3, <1>4, NormalizedAsset
<1>7. Normalized(lent).supplied = ast.supplied
  BY <1>3, NormalizedSupply
<1> QED BY <1>3, <1>5, <1>6, <1>7 DEF SameDebt, lent

\* process_open_position keeps them, with or without a stop.
LEMMA OpenInv ==
  ASSUME Inv, NEW a \in Traders, NEW i \in PosIds, NEW pair \in Pairs,
         NEW pledged \in Nat, NEW borrowed \in Nat, NEW bought \in Nat,
         NEW s \in StopChoices, Open(a, i, pair, pledged, borrowed, bought, s)
  PROVE  Stepped /\ SuppliersKept
<1> DEFINE c == pair.c
           d == pair.d
           f == StopFee.token
           n == AmountToShares(asset[c].supplied, pledged, FALSE)
           fee == AmountToShares(asset[f].supplied, StopFee.amount, TRUE)
           charged == Normalized(Burnt(asset[f], StopFee.amount))
           lent == Normalized(Lent(asset[d], borrowed))
           assets == IF s = NoStop THEN asset ELSE [asset EXCEPT ![f] = charged]
           shares == IF s = NoStop THEN margin ELSE Sub(margin, a, f, fee)
           new == [account |-> a, c |-> pair.c, d |-> pair.d, p |-> pair.p,
                   c_shares |-> n, d_shares |-> 0, p_amount |-> 0,
                   debt_cap |-> 0, uahpi_at_open |-> 0, is_locking |-> TRUE]
           tr == [op |-> "open", by |-> a, amount_in |-> borrowed, pre |-> 0,
                  out |-> bought, stage |-> "sent"]
<1>1. /\ i \notin opened /\ SafeToOpen(pair, pledged, borrowed, bought)
      /\ s # NoStop => CanBurn(asset[f], margin[a][f], StopFee.amount)
      /\ n <= shares[a][c]
      /\ CanSave(Lent(asset[d], borrowed), TRUE)
  BY DEF Open, CanCharge, ChargedMargin, CanLend
<1>2. /\ asset' = [assets EXCEPT ![d] = lent]
      /\ margin' = Sub(shares, a, c, n)
      /\ position' = [position EXCEPT ![i] = new]
      /\ opened' = opened \cup {i}
      /\ stop' = [stop EXCEPT ![i] = s]
      /\ acting' = acting \cup {i}
      /\ trade' = [trade EXCEPT ![i] = tr]
      /\ UNCHANGED <<supplied, debts, price, cash>>
  BY DEF Open, OpenAssets, ChargedAssets, ChargedMargin
<1>3. /\ a \in Accounts /\ c \in Tokens /\ d \in Tokens /\ pair.p \in Tokens
      /\ d # pair.p /\ c \in {d, pair.p}
  BY MarginAccountsAssumption, PairsAssumption
<1>4. /\ f \in Tokens /\ StopFee.amount \in Nat
      /\ s \in StopType \cup {NoStop} /\ (s # NoStop => s.amount = StopFee.amount)
  BY StopFeeType, StopChoiceType
<1>5. TypeOK /\ AllSound /\ asset \in [Tokens -> AssetType]
  BY DEF Inv, TypeOK
<1>6. position[i] = NoPosition /\ trade[i] = NoTrade /\ stop[i] = NoStop
  BY <1>1, UnusedId
<1>7. borrowed > 0
  BY <1>1 DEF SafeToOpen
<1>8. n \in Nat
  <2>1. asset[c].supplied \in PoolType /\ PoolInvariant(asset[c].supplied)
    BY <1>3, InvFields, AssetNumbers DEF SupplySound
  <2> QED BY <2>1, SharesDown
<1>9. s # NoStop => /\ fee \in Nat /\ fee <= margin[a][f]
                    /\ SupplyChange(asset[f], charged, 0 - fee, StopFee.amount)
  <2> SUFFICES ASSUME s # NoStop
               PROVE  /\ fee \in Nat /\ fee <= margin[a][f]
                      /\ SupplyChange(asset[f], charged, 0 - fee, StopFee.amount)
    OBVIOUS
  <2>1. /\ asset[f] \in AssetType /\ SupplySound(asset[f]) /\ margin[a][f] \in Nat
    BY <1>3, <1>4, InvFields DEF SharesTable
  <2> QED BY <1>1, <1>4, <2>1, BurnChange
<1>10. /\ lent \in AssetType /\ SupplySound(lent)
       /\ lent.supplied.shares = asset[d].supplied.shares
       /\ lent.pending = asset[d].pending + borrowed
       /\ lent.margin_debt = asset[d].margin_debt /\ lent.position = asset[d].position
       /\ lent.hp = asset[d].hp
       /\ Worth(lent) = Worth(asset[d])
       /\ lent.supplied = asset[d].supplied
  BY <1>1, <1>3, InvFields, LentAsset
<1>11. /\ new \in PositionType /\ tr \in TradeType
  BY <1>3, <1>8 DEF PositionType, TradeType, Ops
<1>12. /\ new # NoPosition /\ tr # NoTrade
       /\ new.account = a /\ new.c = c /\ new.d = d /\ new.p = pair.p /\ new.c_shares = n
       /\ new.d_shares = 0 /\ new.p_amount = 0 /\ new.uahpi_at_open = 0 /\ new.is_locking
       /\ tr.op = "open" /\ tr.amount_in = borrowed /\ tr.stage = "sent"
  BY <1>11, NoRecordsAssumption
<1> DEFINE paid == IF s = NoStop THEN 0 ELSE fee
           took == IF s = NoStop THEN 0 ELSE StopFee.amount
<1>13. /\ asset'[d] = lent
       /\ f # d => /\ s = NoStop => asset'[f] = asset[f]
                   /\ s # NoStop => asset'[f] = charged
       /\ \A t \in Tokens \ {d, f} : asset'[t] = asset[t]
  BY <1>2, <1>3, <1>4, <1>5
<1>14. /\ position'[i] = new /\ trade'[i] = tr /\ stop'[i] = s
       /\ OnlyPosition(i)
  BY <1>2, <1>5 DEF TypeOK, OnlyPosition
<1>15. /\ paid \in Nat /\ took \in Nat
       /\ s # NoStop => /\ charged \in AssetType /\ SupplySound(charged)
                        /\ SameDebt(asset[f], charged)
       /\ f # d => /\ asset'[f] \in AssetType /\ SupplySound(asset'[f])
                   /\ SameDebt(asset[f], asset'[f])
                   /\ asset'[f].supplied.shares = asset[f].supplied.shares - paid
                   /\ Worth(asset'[f]) = Worth(asset[f]) + took
                   /\ PriceNotLower(asset[f].supplied, asset'[f].supplied)
  <2>1. /\ asset[f] \in AssetType /\ SupplySound(asset[f]) /\ SameDebt(asset[f], asset[f])
        /\ asset[f].supplied.shares \in Nat /\ Worth(asset[f]) \in Int
        /\ PriceNotLower(asset[f].supplied, asset[f].supplied)
    BY <1>4, InvFields, AssetNumbers, SamePrice DEF SameDebt
  <2>2. CASE s = NoStop
    BY <1>13, <2>1, <2>2
  <2>3. CASE s # NoStop
    <3>1. /\ fee \in Nat /\ charged \in AssetType /\ SupplySound(charged)
          /\ SameDebt(asset[f], charged)
          /\ charged.supplied.shares = asset[f].supplied.shares + (0 - fee)
          /\ Worth(charged) = Worth(asset[f]) + StopFee.amount
          /\ PriceNotLower(asset[f].supplied, charged.supplied)
      BY <1>9, <2>3 DEF SupplyChange
    <3> HIDE DEF fee, charged
    <3> QED BY <1>4, <1>13, <2>1, <2>3, <3>1
  <2> QED BY <2>2, <2>3
<1>16. /\ margin' \in SharesTable
       /\ \A t \in Tokens : Gained(t) = (IF t = f THEN 0 - paid ELSE 0) - (IF t = c THEN n ELSE 0)
  <2>1. /\ shares \in SharesTable
        /\ \A t \in Tokens : Entries(supplied, shares, t)
                                = Entries(supplied, margin, t) - (IF t = f THEN paid ELSE 0)
    <3>1. \A t \in Tokens : Entries(supplied, margin, t) \in Nat
      BY InvFields
    <3>2. CASE s = NoStop
      BY <3>1, <3>2, InvFields
    <3>3. CASE s # NoStop
      <4> HIDE DEF fee
      <4>1. shares = Sub(margin, a, f, fee) /\ paid = fee
        BY <3>3
      <4> HIDE DEF shares, paid, f
      <4> QED BY <1>3, <1>4, <1>9, <3>3, <4>1, InvFields, EntryTaken
    <3> QED BY <3>2, <3>3
  <2> HIDE DEF shares, paid, n, f, c
  <2>2. margin' \in SharesTable
    BY <1>1, <1>2, <1>3, <1>8, <2>1, InvFields, EntryTaken
  <2>3. ASSUME NEW t \in Tokens
        PROVE  Gained(t) = (IF t = f THEN 0 - paid ELSE 0) - (IF t = c THEN n ELSE 0)
    <3>1. /\ Entries(supplied, margin, t) \in Nat
          /\ Entries(supplied, shares, t)
                = Entries(supplied, margin, t) - (IF t = f THEN paid ELSE 0)
          /\ Entries(supplied, margin', t)
                = Entries(supplied, shares, t) - (IF t = c THEN n ELSE 0)
      BY <1>1, <1>2, <1>3, <1>8, <2>1, InvFields, EntryTaken
    <3>2. supplied' = supplied
      BY <1>2
    <3> QED BY <1>8, <1>15, <3>1, <3>2 DEF Gained
  <2> QED BY <2>2, <2>3
<1> HIDE DEF n, fee, charged, lent, assets, shares, new, tr
<1>17. TypeOK'
  <2>1. asset' \in [Tokens -> AssetType]
    <3>1. assets \in [Tokens -> AssetType]
      BY <1>4, <1>5, <1>15 DEF assets
    <3> QED BY <1>2, <1>3, <1>10, <3>1
  <2>2. /\ position' \in [PosIds -> PositionType \cup {NoPosition}]
        /\ trade' \in [PosIds -> TradeType \cup {NoTrade}]
        /\ stop' \in [PosIds -> StopType \cup {NoStop}]
    BY <1>2, <1>4, <1>5, <1>11 DEF TypeOK
  <2>3. opened' \subseteq PosIds /\ acting' \subseteq PosIds
    BY <1>2, <1>5 DEF TypeOK
  <2> QED BY <1>2, <1>5, <1>16, <2>1, <2>2, <2>3 DEF TypeOK, SharesTable
<1>18. \A t \in Tokens : /\ SupplySound(asset'[t])
                         /\ asset'[t].margin_debt = asset[t].margin_debt
                         /\ asset'[t].position = asset[t].position
                         /\ asset'[t].hp = asset[t].hp
                         /\ t # d => asset'[t].pending = asset[t].pending
  <2> TAKE t \in Tokens
  <2>1. CASE t = d
    BY <1>10, <1>13, <2>1
  <2>2. CASE t # d /\ t = f
    BY <1>13, <1>15, <2>2 DEF SameDebt
  <2>3. CASE t # d /\ t # f
    BY <1>5, <1>13, <2>3 DEF AllSound
  <2> QED BY <2>1, <2>2, <2>3
<1>19. AllSound'
  BY <1>5, <1>18 DEF AllSound
<1>20. \A t \in Tokens : asset[t] \in AssetType /\ asset[t].hp \in Nat
  BY InvFields, AssetNumbers
<1>21. Touches(i)
  BY <1>2, <1>14, <1>18, <1>20 DEF Touches
<1>22. Fits(i)'
  <2>1. i \in acting' /\ i \in opened'
    BY <1>2
  <2>2. PositionFits(i)'
    BY <1>3, <1>12, <1>14, <1>18, <1>20, <2>1 DEF PositionFits
  <2>3. TradeFits(i)'
    BY <1>7, <1>12, <1>14 DEF TradeFits
  <2> QED BY <1>12, <1>14, <2>1, <2>2, <2>3 DEF Fits
<1>23. ASSUME NEW t \in Tokens
       PROVE  Balanced(i, t) /\ SharesStay(i, t) /\ TokensStay(i, t)
  <2>1. /\ asset[t].pending \in Nat /\ asset[t].margin_debt.shares \in Nat
        /\ asset[t].position \in Nat /\ asset[t].supplied.shares \in Nat
        /\ Worth(asset[t]) \in Int /\ cash[t] \in Nat /\ debts[t] \in Nat
    BY <1>20, InvFields, AssetNumbers
  <2>2. /\ PledgedIn(position[i], t) = 0 /\ OwedIn(position[i], t) = 0
        /\ BoughtIn(position[i], t) = 0 /\ AskedIn(position[i], trade[i], t) = 0
        /\ AwayIn(position[i], trade[i], t) = 0 /\ OnSaleIn(position[i], trade[i], t) = 0
        /\ FeeIn(stop[i], t) = 0
    BY <1>6 DEF PledgedIn, OwedIn, BoughtIn, AskedIn, AwayIn, OnSaleIn, FeeIn
  <2>3. /\ PledgedIn(new, t) = (IF t = c THEN n ELSE 0)
        /\ OwedIn(new, t) = 0 /\ BoughtIn(new, t) = 0
        /\ AskedIn(new, tr, t) = (IF t = d THEN borrowed ELSE 0)
        /\ AwayIn(new, tr, t) = 0 /\ OnSaleIn(new, tr, t) = 0
        /\ FeeIn(s, t) = (IF t = f THEN took ELSE 0)
    BY <1>4, <1>12 DEF PledgedIn, OwedIn, BoughtIn, AskedIn, AwayIn, OnSaleIn, FeeIn
  <2>4. Balanced(i, t)
    <3>1. CASE t = d
      BY <1>10, <1>13, <1>14, <1>18, <2>1, <2>2, <2>3, <3>1 DEF Balanced
    <3>2. CASE t # d
      BY <1>14, <1>18, <2>1, <2>2, <2>3, <3>2 DEF Balanced
    <3> QED BY <3>1, <3>2
  <2> HIDE DEF paid, took, f, d, c
  <2>5. NewShares(t) = IF t = f /\ t # d THEN 0 - paid ELSE 0
    <3>1. CASE t = d
      BY <1>10, <1>13, <2>1, <3>1 DEF NewShares
    <3>2. CASE t # d /\ t = f
      BY <1>15, <2>1, <3>2 DEF NewShares
    <3>3. CASE t # d /\ t # f
      BY <1>13, <2>1, <3>3 DEF NewShares
    <3> QED BY <3>1, <3>2, <3>3
  <2>6. FeeApart => d # f
    BY DEF FeeApart, d, f
  <2>7. SharesStay(i, t)
    BY <1>8, <1>14, <1>15, <1>16, <2>2, <2>3, <2>5, <2>6 DEF SharesStay
  <2>8. FeeApart => Came(t) = IF t = f THEN took ELSE 0
    <3>1. cash' = cash /\ debts' = debts
      BY <1>2
    <3>2. CASE t = d
      BY <1>10, <1>13, <2>1, <2>6, <3>1, <3>2 DEF Came
    <3>3. CASE t # d /\ t = f
      BY <1>15, <2>1, <3>1, <3>3 DEF Came
    <3>4. CASE t # d /\ t # f
      BY <1>13, <2>1, <3>1, <3>4 DEF Came
    <3> QED BY <3>2, <3>3, <3>4
  <2>9. TokensStay(i, t)
    BY <1>14, <1>15, <2>2, <2>3, <2>8 DEF TokensStay
  <2> QED BY <2>4, <2>7, <2>9
<1>24. ASSUME NEW t \in Tokens PROVE PriceNotLower(asset[t].supplied, asset'[t].supplied)
  <2>1. CASE t = d
    BY <1>10, <1>13, <1>20, <2>1, SamePrice
  <2>2. CASE t # d /\ t = f
    BY <1>15, <2>2
  <2>3. CASE t # d /\ t # f
    BY <1>13, <1>20, <2>3, SamePrice
  <2> QED BY <2>1, <2>2, <2>3
<1>25. SuppliersKept
  BY <1>24 DEF SuppliersKept
<1> QED BY <1>17, <1>19, <1>21, <1>22, <1>23, <1>25, StepInv

\* process_decrease_margin_position keeps them: what is sold leaves the books.
LEMMA DecreaseInv ==
  ASSUME Inv, NEW b \in Traders \cup Keepers, NEW i \in PosIds,
         NEW op \in FullClose \cup {"decrease"}, NEW amount \in Nat, NEW minOut \in Nat,
         Decrease(b, i, op, amount, minOut)
  PROVE  Stepped /\ SuppliersKept
<1> DEFINE pos  == position[i]
           p    == pos.p
           gap  == IF amount > pos.p_amount THEN amount - pos.p_amount ELSE 0
           n    == IF gap = 0 THEN 0 ELSE AmountToShares(asset[p].supplied, gap, TRUE)
           sold == Least(amount, pos.p_amount)
           un   == Unsupplied(asset[p], n, gap)
           as1  == [un EXCEPT !.position = @ - sold]
           after == Normalized(as1)
           new  == [pos EXCEPT !.c_shares = pos.c_shares - n, !.p_amount = pos.p_amount - sold,
                               !.is_locking = TRUE]
           tr   == [op |-> op, by |-> b, amount_in |-> amount, pre |-> pos.p_amount,
                    out |-> minOut, stage |-> "sent"]
<1>1. /\ pos # NoPosition /\ ~pos.is_locking
      /\ MayAsk(op, b, i)
      /\ gap > 0 => pos.c = pos.p
      /\ n <= pos.c_shares
      /\ CanWithdraw(asset[p].supplied, n, gap)
      /\ CanSave(as1, TRUE)
      /\ asset' = [asset EXCEPT ![p] = after]
      /\ acting' = acting \cup {i}
      /\ trade' = [trade EXCEPT ![i] = tr]
      /\ UNCHANGED <<supplied, margin, opened, stop, debts, price, cash>>
  BY DEF Decrease
<1>2. position' = [position EXCEPT ![i].c_shares = @ - n, ![i].p_amount = @ - sold,
                                   ![i].is_locking = TRUE]
  BY DEF Decrease
<1>3. /\ pos \in PositionType /\ p \in Tokens /\ pos.c \in Tokens /\ pos.d \in Tokens
      /\ pos.c_shares \in Nat /\ pos.p_amount \in Nat /\ Fits(i) /\ PositionFits(i)
  BY <1>1, PositionFields
<1>4. TypeOK /\ AllSound /\ asset \in [Tokens -> AssetType]
  BY DEF Inv, TypeOK
<1>5. trade[i] = NoTrade
  BY <1>1, <1>3 DEF Fits
<1>6. position' = [position EXCEPT ![i] = new]
  BY <1>2, <1>3, <1>4 DEF TypeOK, PositionType
<1>7. /\ gap \in Nat /\ sold \in Nat /\ sold <= pos.p_amount /\ sold + gap = amount
      /\ amount > pos.p_amount => gap > 0
      /\ sold = Least(amount, pos.p_amount)
  BY <1>3 DEF Least
<1>8. /\ asset[p] \in AssetType /\ SupplySound(asset[p])
      /\ asset[p].supplied \in PoolType /\ PoolInvariant(asset[p].supplied)
      /\ asset[p].supplied.shares \in Nat /\ asset[p].position \in Nat /\ Worth(asset[p]) \in Int
  BY <1>3, InvFields, AssetNumbers DEF SupplySound
<1> HIDE DEF gap, sold
<1>9. n \in Nat /\ (n > 0 => pos.c = p) /\ PriceNotLower(asset[p].supplied, un.supplied)
  <2>1. AmountToShares(asset[p].supplied, gap, TRUE) \in Nat
    BY <1>7, <1>8, SharesUp
  <2>2. gap > 0 => pos.c = p
    BY <1>1
  <2>5. un.supplied = PoolWithdraw(asset[p].supplied, n, gap)
    BY <1>8 DEF Unsupplied, AssetType
  <2> HIDE DEF un
  <2>3. CASE gap = 0
    <3>1. n = 0
      BY <2>3
    <3>2. /\ asset[p].supplied.shares - 0 = asset[p].supplied.shares
          /\ asset[p].supplied.balance - 0 = asset[p].supplied.balance
      BY <1>8, AssetNumbers
    <3>3. un.supplied = asset[p].supplied
      BY <1>8, <2>3, <2>5, <3>1, <3>2 DEF PoolWithdraw, PoolType
    <3>4. PriceNotLower(asset[p].supplied, un.supplied)
      BY ONLY <1>8, <3>3, SamePrice
    <3> HIDE DEF n
    <3> QED BY <3>1, <3>4
  <2>4. CASE gap # 0
    <3>1. gap > 0 /\ n = AmountToShares(asset[p].supplied, gap, TRUE)
      BY <1>7, <2>4
    <3>2. PriceNotLower(asset[p].supplied, un.supplied)
      BY <1>1, <1>7, <1>8, <2>5, <3>1, PaymentKeepsPrice
    <3> QED BY <2>1, <2>2, <3>1, <3>2
  <2> QED BY <2>3, <2>4
<1> HIDE DEF n
<1>10. /\ un \in AssetType /\ SameDebt(asset[p], un)
       /\ un.supplied.shares = asset[p].supplied.shares - n
       /\ Worth(un) = Worth(asset[p]) + gap
  BY <1>1, <1>7, <1>8, <1>9, SupplyTaken, ZenonT(30)
<1> HIDE DEF un
<1>11. sold <= asset[p].position
  <2>1. /\ BoughtIn(pos, p) <= AllBought(p) /\ AllBought(p) \in Nat
        /\ asset[p].position = AllBought(p)
    BY <1>3, <1>4, TotalBounds DEF Inv, Books, Matched
  <2>2. BoughtIn(pos, p) = pos.p_amount
    BY <1>1 DEF BoughtIn
  <2> QED BY <1>3, <1>7, <2>1, <2>2
<1>12. /\ as1 \in AssetType /\ as1.supplied = un.supplied
       /\ as1.position = asset[p].position - sold
       /\ as1.pending = asset[p].pending /\ as1.margin_debt = asset[p].margin_debt
       /\ as1.hp = asset[p].hp
       /\ Worth(as1) = Worth(asset[p]) + gap + sold
  <2>1. un.position = asset[p].position
    BY <1>10 DEF SameDebt
  <2>2. asset[p].position - sold \in Nat
    BY <1>7, <1>8, <1>11
  <2>3. /\ as1 \in AssetType /\ as1.supplied = un.supplied
        /\ as1.position = asset[p].position - sold
        /\ as1.pending = un.pending /\ as1.margin_debt = un.margin_debt
        /\ as1.reserved = un.reserved /\ as1.prot_fee = un.prot_fee /\ as1.hp = un.hp
    BY <1>10, <2>1, <2>2 DEF AssetType
  <2> HIDE DEF as1
  <2>4. /\ un.supplied.balance \in Nat /\ un.reserved \in Nat /\ un.prot_fee \in Nat
        /\ un.margin_debt.balance \in Nat
    BY <1>10, AssetNumbers
  <2>5. Worth(as1) = Worth(un) + sold
    BY <1>7, <1>8, <2>1, <2>3, <2>4 DEF Worth
  <2> QED BY <1>7, <1>8, <1>10, <2>3, <2>5 DEF SameDebt
<1> HIDE DEF as1
<1>26. PriceNotLower(asset[p].supplied, after.supplied)
  BY <1>8, <1>9, <1>12, NormalizedPrice
<1>13. /\ after \in AssetType /\ SupplySound(after)
       /\ after.supplied.shares = asset[p].supplied.shares - n
       /\ after.position = asset[p].position - sold
       /\ after.pending = asset[p].pending /\ after.margin_debt = asset[p].margin_debt
       /\ after.hp = asset[p].hp
       /\ Worth(after) = Worth(asset[p]) + amount
  <2>1. PoolInvariant(after.supplied)
    BY <1>1 DEF CanSave
  <2>2. /\ after \in AssetType /\ SameDebt(as1, after)
        /\ after.supplied.shares = as1.supplied.shares
        /\ Worth(after) = Worth(as1)
        /\ SupplySound(after)
    BY <1>12, <2>1, NormalizedAsset
  <2> QED BY <1>7, <1>8, <1>10, <1>12, <2>2 DEF SameDebt
<1> HIDE DEF after
<1>14. pos.c_shares - n \in Nat /\ pos.p_amount - sold \in Nat
  BY <1>1, <1>3, <1>7, <1>9
<1>15. /\ new \in PositionType
       /\ new.account = pos.account /\ new.c = pos.c /\ new.d = pos.d /\ new.p = p
       /\ new.c_shares = pos.c_shares - n /\ new.d_shares = pos.d_shares
       /\ new.p_amount = pos.p_amount - sold
       /\ new.uahpi_at_open = pos.uahpi_at_open /\ new.is_locking
  BY <1>3, <1>14 DEF PositionType
<1>16. /\ tr \in TradeType
       /\ tr.op = op /\ tr.by = b /\ tr.amount_in = amount /\ tr.pre = pos.p_amount
       /\ tr.stage = "sent" /\ op # "open"
  <2>1. b \in Accounts
    BY MarginAccountsAssumption
  <2> QED BY <1>3, <2>1 DEF TradeType, Ops, FullClose
<1>17. new # NoPosition /\ tr # NoTrade
  BY <1>15, <1>16, NoRecordsAssumption
<1> HIDE DEF new, tr
<1>18. /\ asset'[p] = after /\ \A t \in Tokens \ {p} : asset'[t] = asset[t]
       /\ position'[i] = new /\ trade'[i] = tr /\ stop'[i] = stop[i]
       /\ OnlyPosition(i)
  BY <1>1, <1>3, <1>4, <1>6 DEF TypeOK, OnlyPosition
<1>19. TypeOK'
  <2>1. asset' \in [Tokens -> AssetType] /\ acting' \subseteq PosIds
    BY <1>1, <1>4, <1>13 DEF TypeOK
  <2>2. /\ position' \in [PosIds -> PositionType \cup {NoPosition}]
        /\ trade' \in [PosIds -> TradeType \cup {NoTrade}]
    BY <1>1, <1>4, <1>6, <1>15, <1>16 DEF TypeOK
  <2> QED BY <1>1, <1>4, <2>1, <2>2 DEF TypeOK
<1>20. AllSound'
  BY <1>4, <1>13, <1>18 DEF AllSound
<1>21. \A t \in Tokens : asset[t] \in AssetType /\ asset[t].hp \in Nat
  BY InvFields, AssetNumbers
<1>22. \A t \in Tokens : asset'[t].hp = asset[t].hp
  BY <1>13, <1>18
<1>23. Touches(i)
  BY <1>1, <1>18, <1>21, <1>22 DEF Touches
<1>24. Fits(i)'
  <2>1. i \in acting' /\ i \in opened'
    BY <1>1, <1>3 DEF PositionFits
  <2>2. PositionFits(i)'
    BY <1>3, <1>5, <1>15, <1>18, <1>22, <2>1 DEF PositionFits
  <2>3. op = "liquidate" => b # pos.account
    BY <1>1 DEF MayAsk
  <2>4. TradeFits(i)'
    BY <1>1, <1>3, <1>7, <1>15, <1>16, <1>18, <2>3 DEF TradeFits
  <2> QED BY <1>15, <1>17, <1>18, <2>1, <2>2, <2>4 DEF Fits
<1>25. ASSUME NEW t \in Tokens
       PROVE  Balanced(i, t) /\ SharesStay(i, t) /\ TokensStay(i, t)
  <2>1. /\ asset[t].pending \in Nat /\ asset[t].margin_debt.shares \in Nat
        /\ asset[t].position \in Nat /\ asset[t].supplied.shares \in Nat
        /\ Worth(asset[t]) \in Int /\ cash[t] \in Nat /\ debts[t] \in Nat
        /\ Entries(supplied, margin, t) \in Nat
    BY <1>21, InvFields, AssetNumbers
  <2>2. /\ AskedIn(pos, trade[i], t) = 0 /\ AwayIn(pos, trade[i], t) = 0
        /\ OnSaleIn(pos, trade[i], t) = 0
        /\ AskedIn(new, tr, t) = 0 /\ AwayIn(new, tr, t) = 0
        /\ OnSaleIn(new, tr, t) = (IF t = p THEN amount ELSE 0)
    BY <1>5, <1>15, <1>16, <1>17 DEF AskedIn, AwayIn, OnSaleIn
  <2>3. /\ OwedIn(new, t) = OwedIn(pos, t)
        /\ PledgedIn(pos, t) = (IF t = pos.c THEN pos.c_shares ELSE 0)
        /\ PledgedIn(new, t) = (IF t = pos.c THEN pos.c_shares - n ELSE 0)
        /\ BoughtIn(pos, t) = (IF t = p THEN pos.p_amount ELSE 0)
        /\ BoughtIn(new, t) = (IF t = p THEN pos.p_amount - sold ELSE 0)
    BY <1>1, <1>15, <1>17 DEF OwedIn, PledgedIn, BoughtIn
  <2>4. Records(pos, trade[i], stop[i])
    BY <1>4 DEF TypeOK, Records
  <2>5. OwedIn(pos, t) \in Nat /\ FeeIn(stop[i], t) \in Nat
    BY <2>4, EntryTypes
  <2>6. Balanced(i, t)
    <3>1. CASE t = p
      BY <1>3, <1>7, <1>13, <1>18, <2>1, <2>2, <2>3, <2>5, <3>1 DEF Balanced
    <3>2. CASE t # p
      BY <1>18, <2>1, <2>2, <2>3, <2>5, <3>2 DEF Balanced
    <3> QED BY <3>1, <3>2
  <2>7. NewShares(t) = IF t = p THEN 0 - n ELSE 0
    BY <1>9, <1>13, <1>18, <2>1 DEF NewShares
  <2>8. Gained(t) = 0
    BY <1>1, <2>1 DEF Gained
  <2>9. SharesStay(i, t)
    BY <1>3, <1>9, <1>18, <2>3, <2>7, <2>8 DEF SharesStay
  <2>10. Came(t) = IF t = p THEN amount ELSE 0
    BY <1>1, <1>8, <1>13, <1>18, <2>1 DEF Came
  <2>11. TokensStay(i, t)
    BY <1>18, <2>2, <2>5, <2>10 DEF TokensStay
  <2> QED BY <2>6, <2>9, <2>11
<1>27. SuppliersKept
  BY ONLY <1>1, <1>3, <1>26, Inv, OneAssetKept
<1> QED BY <1>19, <1>20, <1>23, <1>24, <1>25, <1>27, StepInv

-----------------------------------------------------------------------------
(***************************************************************************)
(* The exchange.                                                           *)
(***************************************************************************)
\* The trade of a position, and the position it is about.
LEMMA TradeFields ==
  ASSUME Inv, NEW i \in PosIds, trade[i] # NoTrade
  PROVE  /\ trade[i] \in TradeType /\ trade[i].amount_in \in Nat /\ trade[i].pre \in Nat
         /\ trade[i].out \in Nat /\ trade[i].op \in Ops /\ trade[i].by \in Accounts
         /\ trade[i].stage \in {"sent", "swapped", "blocked", "unreverted"}
         /\ position[i] # NoPosition /\ position[i].is_locking
         /\ i \in acting /\ i \in opened
         /\ TradeFits(i)
<1>1. Fits(i) /\ trade[i] \in TradeType
  BY DEF Inv, AllFit, TypeOK
<1>2. position[i] # NoPosition /\ position[i].is_locking /\ i \in acting /\ TradeFits(i)
  BY <1>1 DEF Fits
<1>3. i \in opened
  BY <1>1, <1>2 DEF Fits, PositionFits
<1> QED BY <1>1, <1>2, <1>3 DEF TradeType

\* A step that changes only the stage of a trade, what the exchange pays, and
\* the tokens the exchange takes.
LEMMA StageStep ==
  ASSUME Inv, NEW i \in PosIds, trade[i] # NoTrade, NEW stage, NEW out \in Nat, NEW gone \in Nat,
         stage \in {"swapped", "blocked", "unreverted"},
         trade' = [trade EXCEPT ![i].stage = stage, ![i].out = out],
         cash' = [cash EXCEPT ![TokenIn(i)] = @ - gone], gone <= cash[TokenIn(i)],
         stage = "unreverted" => trade[i].stage = "sent" /\ gone = 0,
         stage = "blocked" => trade[i].stage = "swapped" /\ gone = 0,
         stage = "swapped" => trade[i].stage = "sent" /\ gone <= trade[i].amount_in,
         UNCHANGED <<asset, supplied, margin, position, opened, stop, acting, debts, price>>
  PROVE  Stepped /\ SuppliersKept
<1> DEFINE pos == position[i]
           tr  == trade[i]
           new == [tr EXCEPT !.stage = stage, !.out = out]
           k   == TokenIn(i)
<1>1. /\ tr \in TradeType /\ tr.amount_in \in Nat /\ pos # NoPosition /\ TradeFits(i)
  BY TradeFields
<1>2. pos.d \in Tokens /\ pos.p \in Tokens /\ Fits(i)
  BY <1>1, PositionFields
<1>3. TypeOK /\ AllSound
  BY DEF Inv
<1>4. /\ new \in TradeType /\ new.stage = stage /\ new.op = tr.op /\ new.by = tr.by
      /\ new.amount_in = tr.amount_in /\ new.pre = tr.pre
  BY <1>1 DEF TradeType
<1>5. trade' = [trade EXCEPT ![i] = new]
  BY <1>1, <1>3 DEF TypeOK, TradeType
<1>6. new # NoTrade
  BY <1>4, NoRecordsAssumption
<1> HIDE DEF new
<1>7. trade'[i] = new /\ OnlyPosition(i) /\ trade' \in [PosIds -> TradeType \cup {NoTrade}]
  BY <1>3, <1>4, <1>5, ZenonT(30) DEF TypeOK, OnlyPosition
<1>8. k \in Tokens /\ k = (IF tr.op = "open" THEN pos.d ELSE pos.p)
  BY <1>2 DEF TokenIn
<1>9. /\ cash' \in [Tokens -> Nat] /\ cash'[k] = cash[k] - gone
      /\ \A t \in Tokens \ {k} : cash'[t] = cash[t]
  <2>1. cash \in [Tokens -> Nat] /\ cash[k] \in Nat /\ cash[k] - gone \in Nat
    BY <1>8, InvFields
  <2> HIDE DEF k
  <2>2. cash' = [cash EXCEPT ![k] = cash[k] - gone]
    BY DEF k
  <2> QED BY <1>8, <2>1, <2>2, ZenonT(30)
<1> HIDE DEF k
<1>10. TypeOK'
  BY <1>3, <1>7, <1>9 DEF TypeOK
<1>11. \A t \in Tokens : asset[t] \in AssetType /\ asset[t].hp \in Nat
  BY InvFields, AssetNumbers
<1>12. Touches(i) /\ AllSound'
  BY <1>3, <1>7, <1>11 DEF Touches, AllSound
<1>13. Fits(i)'
  BY <1>1, <1>2, <1>4, <1>6, <1>7 DEF Fits, PositionFits, TradeFits
<1>14. ASSUME NEW t \in Tokens
       PROVE  Balanced(i, t) /\ SharesStay(i, t) /\ TokensStay(i, t)
  <2>1. /\ asset[t].pending \in Nat /\ asset[t].margin_debt.shares \in Nat
        /\ asset[t].position \in Nat /\ asset[t].supplied.shares \in Nat
        /\ Worth(asset[t]) \in Int /\ cash[t] \in Nat /\ debts[t] \in Nat
        /\ Entries(supplied, margin, t) \in Nat
    BY <1>11, InvFields, AssetNumbers
  <2>2. Records(pos, tr, stop[i]) /\ Records(pos, new, stop[i])
    BY <1>3, <1>4 DEF TypeOK, Records
  <2>3. /\ OwedIn(pos, t) \in Nat /\ BoughtIn(pos, t) \in Nat /\ AskedIn(pos, tr, t) \in Nat
        /\ PledgedIn(pos, t) \in Nat /\ FeeIn(stop[i], t) \in Nat
    BY <2>2, EntryTypes
  <2>4. AskedIn(pos, new, t) = AskedIn(pos, tr, t)
    BY <1>1, <1>4, <1>6 DEF AskedIn
  <2>5. Balanced(i, t)
    BY <1>7, <2>1, <2>3, <2>4 DEF Balanced
  <2>6. SharesStay(i, t)
    BY <2>1, <2>3 DEF SharesStay, Gained, NewShares
  <2>7. Came(t) = IF t = k THEN 0 - gone ELSE 0
    BY <1>9, <2>1 DEF Came
  <2>8. CASE tr.op = "open"
    <3>1. /\ OnSaleIn(pos, tr, t) = 0 /\ OnSaleIn(pos, new, t) = 0
          /\ AskedIn(pos, tr, t) = (IF t = k THEN tr.amount_in ELSE 0)
      BY <1>1, <1>4, <1>6, <1>8, <2>8 DEF OnSaleIn, AskedIn
    <3>2. /\ stage \in {"swapped", "blocked"} => AwayIn(pos, new, t) = AskedIn(pos, tr, t)
          /\ stage = "unreverted" => AwayIn(pos, new, t) = 0
          /\ tr.stage = "sent" => AwayIn(pos, tr, t) = 0
          /\ tr.stage = "swapped" => AwayIn(pos, tr, t) = AskedIn(pos, tr, t)
      BY <1>1, <1>4, <1>6, <2>4 DEF AwayIn
    <3>3. Came(t) + AwayIn(pos, new, t) - AwayIn(pos, tr, t) >= 0
      <4>1. CASE stage = "swapped"
        BY <1>1, <2>3, <2>7, <3>1, <3>2, <4>1
      <4>2. CASE stage = "blocked"
        BY <1>1, <2>3, <2>7, <3>1, <3>2, <4>2
      <4>3. CASE stage = "unreverted"
        BY <1>1, <2>3, <2>7, <3>1, <3>2, <4>3
      <4> QED BY <4>1, <4>2, <4>3
    <3>4. AwayIn(pos, new, t) \in Nat /\ AwayIn(pos, tr, t) \in Nat /\ Came(t) \in Int
      BY <2>2, <2>7, EntryTypes
    <3>5. position'[i] = pos /\ stop'[i] = stop[i]
      OBVIOUS
    <3> QED BY <1>7, <2>3, <2>5, <2>6, <3>1, <3>3, <3>4, <3>5 DEF TokensStay
  <2>9. CASE tr.op # "open"
    <3>1. /\ AskedIn(pos, tr, t) = 0 /\ AwayIn(pos, tr, t) = 0 /\ AwayIn(pos, new, t) = 0
      BY <1>4, <2>4, <2>9 DEF AskedIn, AwayIn
    <3>2. /\ OnSaleIn(pos, new, t) = 0
          /\ tr.stage = "sent" => OnSaleIn(pos, tr, t) = (IF t = k THEN tr.amount_in ELSE 0)
          /\ tr.stage # "sent" => OnSaleIn(pos, tr, t) = 0
      BY <1>1, <1>4, <1>8, <2>9 DEF OnSaleIn
    <3>3. Came(t) >= OnSaleIn(pos, new, t) - OnSaleIn(pos, tr, t)
      <4>1. CASE stage = "swapped"
        BY <1>1, <2>7, <3>2, <4>1
      <4>2. CASE stage = "blocked"
        BY <1>1, <2>7, <3>2, <4>2
      <4>3. CASE stage = "unreverted"
        <5>1. OnSaleIn(pos, tr, t) \in Nat
          BY <1>1, <2>9, <3>2, <2>2, EntryTypes
        <5> QED BY <2>7, <3>2, <4>3, <5>1
      <4> QED BY <4>1, <4>2, <4>3
    <3>4. Came(t) \in Int /\ OnSaleIn(pos, tr, t) \in Nat
      BY <2>2, <2>7, EntryTypes
    <3>5. position'[i] = pos /\ stop'[i] = stop[i]
      OBVIOUS
    <3> QED BY <1>7, <2>3, <2>5, <2>6, <3>1, <3>2, <3>3, <3>4, <3>5 DEF TokensStay
  <2> QED BY <2>8, <2>9
<1>15. SuppliersKept
  BY AssetsKept
<1> QED BY <1>10, <1>12, <1>13, <1>14, <1>15, StepInv

\* The exchange takes what it was sent: the invariant is kept.
LEMMA TradeSwappedInv ==
  ASSUME Inv, NEW i \in PosIds, NEW used \in Nat, NEW out \in Nat, TradeSwapped(i, used, out)
  PROVE  Stepped /\ SuppliersKept
<1>1. /\ trade[i] # NoTrade /\ trade[i].stage = "sent"
      /\ cash[TokenIn(i)] >= trade[i].amount_in
      /\ used <= trade[i].amount_in
      /\ cash' = [cash EXCEPT ![TokenIn(i)] = @ - used]
      /\ trade' = [trade EXCEPT ![i].stage = "swapped", ![i].out = out]
      /\ UNCHANGED <<asset, supplied, margin, position, opened, stop, acting, debts, price>>
  BY DEF TradeSwapped, At
<1>2. trade[i].amount_in \in Nat
  BY <1>1, TradeFields
<1>3. TokenIn(i) \in Tokens
  BY <1>1, TradeFields, PositionFields DEF TokenIn
<1>4. used <= cash[TokenIn(i)]
  BY <1>1, <1>2, <1>3, InvFields
<1> QED BY <1>1, <1>2, <1>4, StageStep

\* A trade whose answer aborts or is lost, and an opening that is not undone.
LEMMA StageOnlyInv ==
  ASSUME Inv, NEW i \in PosIds, NEW to, trade[i] # NoTrade,
         to \in {"blocked", "unreverted"},
         to = "unreverted" => trade[i].stage = "sent",
         to = "blocked" => trade[i].stage = "swapped",
         trade' = [trade EXCEPT ![i].stage = to],
         UNCHANGED <<asset, supplied, margin, position, opened, stop, acting, debts, price, cash>>
  PROVE  Stepped /\ SuppliersKept
<1>2. trade[i] \in TradeType /\ trade[i].out \in Nat
  BY TradeFields
<1>3. trade' = [trade EXCEPT ![i].stage = to, ![i].out = trade[i].out]
  BY <1>2 DEF Inv, TypeOK, TradeType
<1>4. TokenIn(i) \in Tokens
  BY TradeFields, PositionFields DEF TokenIn
<1>5. cash[TokenIn(i)] \in Nat /\ cash \in [Tokens -> Nat]
  BY <1>4, InvFields
<1>6. cash' = [cash EXCEPT ![TokenIn(i)] = @ - 0] /\ 0 <= cash[TokenIn(i)]
  BY <1>5
<1> QED BY <1>2, <1>3, <1>6, StageStep

-----------------------------------------------------------------------------
(***************************************************************************)
(* The callback of a trade that failed.                                    *)
(***************************************************************************)
\* the fee of a stop, or of none, given back to account a
FeeBackAssets(assets, st) ==
    IF st = NoStop THEN assets
    ELSE [assets EXCEPT ![StopFee.token] = Normalized(Deposited(@, st.amount))]

FeeBackShares(assets, shares, a, st) ==
    IF st = NoStop THEN shares
    ELSE Add(shares, a, StopFee.token,
             AmountToShares(assets[StopFee.token].supplied, st.amount, FALSE))

\* As many shares are added to the supply as to the entries of the account.
LEMMA FeeBack ==
  ASSUME NEW assets \in [Tokens -> AssetType], \A t \in Tokens : SupplySound(assets[t]),
         NEW g \in SharesTable, NEW shares \in SharesTable, NEW a \in Accounts,
         NEW st \in StopType \cup {NoStop}
  PROVE  LET assets2 == FeeBackAssets(assets, st)
             shares2 == FeeBackShares(assets, shares, a, st)
         IN  /\ assets2 \in [Tokens -> AssetType]
             /\ shares2 \in SharesTable
             /\ \A t \in Tokens :
                   /\ SupplySound(assets2[t]) /\ SameDebt(assets[t], assets2[t])
                   /\ assets2[t].supplied.shares - assets[t].supplied.shares
                         = Entries(g, shares2, t) - Entries(g, shares, t)
                   /\ Worth(assets2[t]) = Worth(assets[t]) - FeeIn(st, t)
                   /\ t # StopFee.token => assets2[t] = assets[t]
                   /\ PriceNotLower(assets[t].supplied, assets2[t].supplied)
<1> DEFINE f == StopFee.token
           assets2 == FeeBackAssets(assets, st)
           shares2 == FeeBackShares(assets, shares, a, st)
<1>1. \A t \in Tokens : /\ assets[t] \in AssetType /\ SupplySound(assets[t])
                        /\ assets[t].supplied.shares \in Nat /\ Worth(assets[t]) \in Int
                        /\ SupplyChange(assets[t], assets[t], 0, 0)
                        /\ Entries(g, shares, t) \in Nat
  BY AssetNumbers, NoSupplyChange, EntriesType DEF SharesTable
<1>2. CASE st = NoStop
  <2>1. assets2 = assets /\ shares2 = shares
    BY <1>2 DEF FeeBackAssets, FeeBackShares
  <2>2. \A t \in Tokens : FeeIn(st, t) = 0
    BY <1>2 DEF FeeIn
  <2> HIDE DEF assets2, shares2
  <2>3. \A t \in Tokens : /\ SameDebt(assets[t], assets[t])
                          /\ PriceNotLower(assets[t].supplied, assets[t].supplied)
                          /\ Worth(assets[t]) = Worth(assets[t]) - 0
                          /\ assets[t].supplied.shares - assets[t].supplied.shares
                                = Entries(g, shares, t) - Entries(g, shares, t)
    BY <1>1 DEF SupplyChange
  <2> QED BY <1>1, <2>1, <2>2, <2>3 DEF assets2, shares2
<1>3. CASE st # NoStop
  <2> DEFINE n == st.amount
             after == Normalized(Deposited(assets[f], n))
             k == AmountToShares(assets[f].supplied, n, FALSE)
  <2>1. n \in Nat /\ f \in Tokens
    BY <1>3, StopFeeType DEF StopType
  <2>2. k \in Nat /\ SupplyChange(assets[f], after, k, 0 - n)
    BY <1>1, <2>1, DepositChange
  <2>3. assets2 = [assets EXCEPT ![f] = after] /\ shares2 = Add(shares, a, f, k)
    BY <1>3, <2>1 DEF FeeBackAssets, FeeBackShares
  <2>4. \A t \in Tokens : FeeIn(st, t) = IF t = f THEN n ELSE 0
    BY <1>3 DEF FeeIn
  <2>5. /\ after \in AssetType /\ SupplySound(after) /\ SameDebt(assets[f], after)
        /\ after.supplied.shares = assets[f].supplied.shares + k
        /\ Worth(after) = Worth(assets[f]) + (0 - n)
        /\ PriceNotLower(assets[f].supplied, after.supplied)
    BY <2>2 DEF SupplyChange
  <2> HIDE DEF n, after, k, f, assets2, shares2
  <2>6. /\ assets2 \in [Tokens -> AssetType] /\ assets2[f] = after
        /\ \A t \in Tokens \ {f} : assets2[t] = assets[t]
    BY <2>1, <2>3, <2>5
  <2>7. /\ shares2 \in SharesTable
        /\ \A t \in Tokens :
              Entries(g, shares2, t) = Entries(g, shares, t) + (IF t = f THEN k ELSE 0)
    BY <2>1, <2>2, <2>3, EntryAdded
  <2>8. ASSUME NEW t \in Tokens
        PROVE  /\ SupplySound(assets2[t]) /\ SameDebt(assets[t], assets2[t])
               /\ assets2[t].supplied.shares - assets[t].supplied.shares
                     = Entries(g, shares2, t) - Entries(g, shares, t)
               /\ Worth(assets2[t]) = Worth(assets[t]) - FeeIn(st, t)
               /\ t # f => assets2[t] = assets[t]
               /\ PriceNotLower(assets[t].supplied, assets2[t].supplied)
    <3>1. CASE t = f
      BY <1>1, <2>1, <2>2, <2>4, <2>5, <2>6, <2>7, <3>1
    <3>2. CASE t # f
      BY <1>1, <2>4, <2>6, <2>7, <3>2 DEF SupplyChange
    <3> QED BY <3>1, <3>2
  <2> QED BY <2>6, <2>7, <2>8 DEF assets2, shares2, f
<1> QED BY <1>2, <1>3

\* margin_pending_debt taken back, saved.
LEMMA UnlentAsset ==
  ASSUME NEW ast \in AssetType, SupplySound(ast), NEW n \in Nat, n <= ast.pending,
         CanSave([ast EXCEPT !.pending = @ - n], TRUE)
  PROVE  LET saved == Normalized([ast EXCEPT !.pending = @ - n])
         IN  /\ saved \in AssetType /\ SupplySound(saved)
             /\ saved.supplied.shares = ast.supplied.shares
             /\ saved.pending = ast.pending - n
             /\ saved.margin_debt = ast.margin_debt /\ saved.position = ast.position
             /\ saved.hp = ast.hp
             /\ Worth(saved) = Worth(ast)
             /\ saved.supplied = ast.supplied
<1> DEFINE lent == [ast EXCEPT !.pending = @ - n]
<1>1. ast.pending \in Nat /\ Worth(ast) \in Int
  BY AssetNumbers
<1>2. ast.pending - n \in Nat
  BY <1>1
<1>3. /\ lent \in AssetType /\ lent.pending = ast.pending - n
      /\ lent.supplied = ast.supplied /\ lent.margin_debt = ast.margin_debt
      /\ lent.reserved = ast.reserved /\ lent.prot_fee = ast.prot_fee
      /\ lent.position = ast.position /\ lent.hp = ast.hp
  BY <1>2 DEF AssetType
<1>4. PoolInvariant(Normalized(lent).supplied)
  BY DEF CanSave
<1> HIDE DEF lent
<1>5. Worth(lent) = Worth(ast)
  BY <1>3 DEF Worth
<1>6. /\ Normalized(lent) \in AssetType /\ SameDebt(lent, Normalized(lent))
      /\ Normalized(lent).supplied.shares = lent.supplied.shares
      /\ Worth(Normalized(lent)) = Worth(lent)
      /\ SupplySound(Normalized(lent))
  BY <1>3, <1>4, NormalizedAsset
<1>7. Normalized(lent).supplied = ast.supplied
  BY <1>3, NormalizedSupply
<1> QED BY <1>3, <1>5, <1>6, <1>7 DEF SameDebt, lent

\* The callback undoes an opening: the invariant is kept.
LEMMA RevertedOpenInv ==
  ASSUME Inv, NEW i \in PosIds, At(i, "sent"), trade[i].op = "open", CanRevert(i),
         RevertedOpen(i), acting' = acting \ {i}, trade' = [trade EXCEPT ![i] = NoTrade],
         UNCHANGED <<supplied, opened, debts, price, cash>>
  PROVE  Stepped /\ SuppliersKept
<1> DEFINE pos == position[i]
           tr  == trade[i]
           a   == pos.account
           d   == pos.d
           lent == Normalized(NotLent(i))
           assets == [asset EXCEPT ![d] = lent]
           shares == Add(margin, a, pos.c, pos.c_shares)
<1>1. /\ tr # NoTrade /\ tr.stage = "sent" /\ tr \in TradeType /\ tr.amount_in \in Nat
      /\ pos # NoPosition /\ pos.is_locking /\ i \in opened /\ TradeFits(i)
  BY TradeFields DEF At
<1>2. /\ a \in Accounts /\ pos.c \in Tokens /\ d \in Tokens /\ pos.p \in Tokens
      /\ pos.c_shares \in Nat /\ pos.d_shares = 0 /\ pos.p_amount = 0
  BY <1>1, PositionFields DEF TradeFits
<1>3. TypeOK /\ AllSound /\ asset \in [Tokens -> AssetType] /\ stop[i] \in StopType \cup {NoStop}
  BY DEF Inv, TypeOK
<1>4. /\ asset' = FeeBackAssets(assets, stop[i])
      /\ margin' = FeeBackShares(assets, shares, a, stop[i])
      /\ position' = [position EXCEPT ![i] = NoPosition]
      /\ stop' = [stop EXCEPT ![i] = NoStop]
  BY DEF RevertedOpen, WithoutLoan, FeeBackAssets, FeeBackShares
<1>5. /\ asset[d] \in AssetType /\ SupplySound(asset[d]) /\ asset[d].pending \in Nat
      /\ Worth(asset[d]) \in Int /\ asset[d].supplied.shares \in Nat
  BY <1>2, InvFields, AssetNumbers
<1>6. tr.amount_in <= asset[d].pending
  <2>1. NotLent(i).pending >= 0
    BY DEF CanRevert
  <2>2. NotLent(i).pending = asset[d].pending - tr.amount_in
    BY <1>5 DEF NotLent, AssetType
  <2> QED BY <1>1, <1>5, <2>1, <2>2
<1>7. /\ lent \in AssetType /\ SupplySound(lent)
      /\ lent.supplied.shares = asset[d].supplied.shares
      /\ lent.pending = asset[d].pending - tr.amount_in
      /\ lent.margin_debt = asset[d].margin_debt /\ lent.position = asset[d].position
      /\ lent.hp = asset[d].hp
      /\ Worth(lent) = Worth(asset[d])
      /\ lent.supplied = asset[d].supplied
  <2>1. CanSave(NotLent(i), TRUE)
    BY DEF CanRevert
  <2> QED BY <1>1, <1>5, <1>6, <2>1, UnlentAsset DEF NotLent
<1> HIDE DEF lent
<1>8. /\ assets \in [Tokens -> AssetType] /\ assets[d] = lent
      /\ \A t \in Tokens \ {d} : assets[t] = asset[t]
  BY <1>2, <1>3, <1>7
<1>9. \A t \in Tokens : SupplySound(assets[t])
  BY <1>3, <1>7, <1>8 DEF AllSound
<1>10. /\ shares \in SharesTable
       /\ \A t \in Tokens : Entries(supplied, shares, t) = Entries(supplied, margin, t)
                                                + (IF t = pos.c THEN pos.c_shares ELSE 0)
  <2> DEFINE k == pos.c
             n == pos.c_shares
  <2>1. supplied \in SharesTable /\ margin \in SharesTable
    BY InvFields
  <2>2. a \in Accounts /\ k \in Tokens /\ n \in Nat /\ shares = Add(margin, a, k, n)
    BY <1>2
  <2> HIDE DEF k, n, a, pos, shares
  <2>3. Add(margin, a, k, n) \in SharesTable
    BY <2>1, <2>2, EntryAdded
  <2>4. \A t \in Tokens : Entries(supplied, Add(margin, a, k, n), t)
                           = Entries(supplied, margin, t) + (IF t = k THEN n ELSE 0)
    BY <2>1, <2>2, EntryAdded
  <2> QED BY <2>2, <2>3, <2>4 DEF k, n
<1> HIDE DEF assets, shares
<1>11. /\ asset' \in [Tokens -> AssetType]
       /\ margin' \in SharesTable
       /\ \A t \in Tokens :
             /\ SupplySound(asset'[t]) /\ SameDebt(assets[t], asset'[t])
             /\ asset'[t].supplied.shares - assets[t].supplied.shares
                   = Entries(supplied, margin', t) - Entries(supplied, shares, t)
             /\ Worth(asset'[t]) = Worth(assets[t]) - FeeIn(stop[i], t)
             /\ PriceNotLower(assets[t].supplied, asset'[t].supplied)
  BY <1>2, <1>3, <1>4, <1>8, <1>9, <1>10, InvFields, FeeBack
<1>12. /\ position'[i] = NoPosition /\ trade'[i] = NoTrade /\ stop'[i] = NoStop
       /\ OnlyPosition(i)
  BY <1>3, <1>4 DEF TypeOK, OnlyPosition
<1>13. TypeOK'
  BY <1>3, <1>4, <1>11 DEF TypeOK, SharesTable
<1>14. \A t \in Tokens : /\ asset'[t].margin_debt = asset[t].margin_debt
                         /\ asset'[t].position = asset[t].position
                         /\ asset'[t].hp = asset[t].hp
                         /\ asset'[t].pending = assets[t].pending
  BY <1>7, <1>8, <1>11 DEF SameDebt
<1>15. AllSound'
  BY <1>3, <1>11, <1>14 DEF AllSound
<1>16. \A t \in Tokens : asset[t] \in AssetType /\ asset[t].hp \in Nat
  BY InvFields, AssetNumbers
<1>17. Touches(i)
  BY <1>12, <1>14, <1>16 DEF Touches
<1>18. Fits(i)'
  BY <1>12 DEF Fits
<1>19. ASSUME NEW t \in Tokens
       PROVE  Balanced(i, t) /\ SharesStay(i, t) /\ TokensStay(i, t)
  <2>1. /\ asset[t].pending \in Nat /\ asset[t].margin_debt.shares \in Nat
        /\ asset[t].position \in Nat /\ asset[t].supplied.shares \in Nat
        /\ asset'[t].supplied.shares \in Nat
        /\ Worth(asset[t]) \in Int /\ cash[t] \in Nat /\ debts[t] \in Nat
        /\ Entries(supplied, margin, t) \in Nat /\ Entries(supplied, margin', t) \in Nat
    BY <1>11, <1>16, InvFields, AssetNumbers, EntriesType DEF SharesTable
  <2>2. /\ PledgedIn(pos, t) = (IF t = pos.c THEN pos.c_shares ELSE 0)
        /\ OwedIn(pos, t) = 0 /\ BoughtIn(pos, t) = 0
        /\ AskedIn(pos, tr, t) = (IF t = d THEN tr.amount_in ELSE 0)
        /\ AwayIn(pos, tr, t) = 0 /\ OnSaleIn(pos, tr, t) = 0
    BY <1>1, <1>2 DEF PledgedIn, OwedIn, BoughtIn, AskedIn, AwayIn, OnSaleIn
  <2>3. /\ PledgedIn(NoPosition, t) = 0 /\ OwedIn(NoPosition, t) = 0
        /\ BoughtIn(NoPosition, t) = 0 /\ AskedIn(NoPosition, NoTrade, t) = 0
        /\ AwayIn(NoPosition, NoTrade, t) = 0 /\ OnSaleIn(NoPosition, NoTrade, t) = 0
        /\ FeeIn(NoStop, t) = 0
    BY DEF PledgedIn, OwedIn, BoughtIn, AskedIn, AwayIn, OnSaleIn, FeeIn
  <2>4. FeeIn(stop[i], t) \in Nat
    BY <1>3 DEF FeeIn, StopType
  <2>5. /\ assets[t].supplied.shares = asset[t].supplied.shares
        /\ assets[t].pending - asset[t].pending = 0 - (IF t = d THEN tr.amount_in ELSE 0)
        /\ Worth(assets[t]) = Worth(asset[t])
    BY <1>1, <1>5, <1>7, <1>8, <2>1
  <2>6. Balanced(i, t)
    BY <1>1, <1>12, <1>14, <2>1, <2>2, <2>3, <2>5 DEF Balanced
  <2>7. /\ Entries(supplied, shares, t) = Entries(supplied, margin, t)
                                          + (IF t = pos.c THEN pos.c_shares ELSE 0)
        /\ asset'[t].supplied.shares - assets[t].supplied.shares
              = Entries(supplied, margin', t) - Entries(supplied, shares, t)
    BY <1>10, <1>11
  <2>8. SharesStay(i, t)
    BY <1>2, <1>12, <2>1, <2>2, <2>3, <2>5, <2>7 DEF SharesStay, Gained, NewShares
  <2>9. Came(t) = 0 - FeeIn(stop[i], t)
    BY <1>11, <2>1, <2>4, <2>5 DEF Came
  <2>10. TokensStay(i, t)
    BY <1>12, <2>2, <2>3, <2>4, <2>9 DEF TokensStay
  <2> QED BY <2>6, <2>8, <2>10
<1>20. \A t \in Tokens : assets[t].supplied = asset[t].supplied
  BY <1>7, <1>8
<1>21. SuppliersKept
  BY <1>11, <1>20 DEF SuppliersKept
<1> QED BY <1>13, <1>15, <1>17, <1>18, <1>19, <1>21, StepInv

\* What was to be sold is held again; saved.
LEMMA HeldAgainAsset ==
  ASSUME Inv, NEW i \in PosIds, At(i, "sent"), trade[i].op # "open", CanRevert(i)
  PROVE  LET ast   == asset[position[i].p]
             after == Normalized(HeldAgain(i))
             sold  == Least(trade[i].amount_in, trade[i].pre)
         IN  /\ GapShares(i) \in Nat /\ (GapShares(i) > 0 => position[i].c = position[i].p)
             /\ sold \in Nat /\ position[i].p_amount = trade[i].pre - sold
             /\ after \in AssetType /\ SupplySound(after)
             /\ after.supplied.shares = ast.supplied.shares + GapShares(i)
             /\ after.position = ast.position + sold
             /\ after.pending = ast.pending /\ after.margin_debt = ast.margin_debt
             /\ after.hp = ast.hp
             /\ Worth(after) = Worth(ast) - trade[i].amount_in
             /\ PriceNotLower(ast.supplied, after.supplied)
<1> DEFINE ast   == asset[position[i].p]
           sold  == Least(trade[i].amount_in, trade[i].pre)
           again == HeldAgain(i)
           gap   == Gap(i)
           n     == GapShares(i)
           amount == trade[i].amount_in
           pre   == trade[i].pre
<1>1. /\ trade[i] # NoTrade /\ amount \in Nat /\ pre \in Nat
      /\ position[i] # NoPosition /\ TradeFits(i)
  BY TradeFields DEF At
<1>2. /\ position[i].p \in Tokens /\ position[i].p_amount = pre - sold
      /\ amount > pre => position[i].c = position[i].p
  BY <1>1, PositionFields DEF TradeFits
<1>3. /\ ast \in AssetType /\ SupplySound(ast)
      /\ ast.supplied \in PoolType /\ PoolInvariant(ast.supplied) /\ Worth(ast) \in Int
      /\ ast.supplied.shares \in Nat /\ ast.supplied.balance \in Nat /\ ast.position \in Nat
  BY <1>2, InvFields, AssetNumbers DEF SupplySound
<1>4. gap = amount - pre /\ (gap > 0 => sold = pre) /\ (~(gap > 0) => sold = amount)
  BY <1>1 DEF Gap, Least
<1>5. PoolInvariant(Normalized(again).supplied)
  BY DEF CanRevert, CanSave
<1>6. n = IF gap > 0 THEN AmountToShares(ast.supplied, gap, FALSE) ELSE 0
  BY DEF GapShares
<1>7. again = IF gap > 0 THEN [Supplied(ast, n, gap) EXCEPT !.position = @ + pre]
              ELSE [ast EXCEPT !.position = @ + amount]
  BY DEF HeldAgain
<1> HIDE DEF sold, gap, n, again, ast, amount, pre
<1>8. /\ n \in Nat /\ (n > 0 => position[i].c = position[i].p) /\ sold \in Nat
      /\ again \in AssetType
      /\ again.supplied.shares = ast.supplied.shares + n
      /\ again.position = ast.position + sold
      /\ again.pending = ast.pending /\ again.margin_debt = ast.margin_debt
      /\ again.hp = ast.hp
      /\ Worth(again) = Worth(ast) - amount
      /\ PriceNotLower(ast.supplied, again.supplied)
  <2>1. CASE gap > 0
    <3> DEFINE as1 == Supplied(ast, n, gap)
    <3>1. gap \in Nat /\ sold = pre /\ n = AmountToShares(ast.supplied, gap, FALSE)
          /\ again = [as1 EXCEPT !.position = @ + pre]
      BY <1>1, <1>4, <1>6, <1>7, <2>1
    <3>2. n \in Nat
      BY <1>3, <3>1, SharesDown
    <3>3. /\ as1 \in AssetType /\ SameDebt(ast, as1)
          /\ as1.supplied = PoolDeposit(ast.supplied, n, gap)
          /\ as1.supplied.shares = ast.supplied.shares + n
          /\ Worth(as1) = Worth(ast) - gap
      BY <1>3, <3>1, <3>2, SupplyAdded, ZenonT(30)
    <3>4. PriceNotLower(ast.supplied, as1.supplied)
      BY <1>3, <3>1, <3>3, DepositKeepsPrice
    <3> HIDE DEF as1
    <3>5. /\ as1.position = ast.position /\ as1.pending = ast.pending
          /\ as1.margin_debt = ast.margin_debt /\ as1.hp = ast.hp
          /\ ast.position + pre \in Nat
      BY <1>1, <1>3, <3>3 DEF SameDebt
    <3>6. /\ again \in AssetType /\ again.supplied = as1.supplied
          /\ again.position = ast.position + pre
          /\ again.pending = as1.pending /\ again.margin_debt = as1.margin_debt
          /\ again.reserved = as1.reserved /\ again.prot_fee = as1.prot_fee
          /\ again.hp = as1.hp
      BY <3>1, <3>3, <3>5 DEF AssetType
    <3>7. Worth(again) = Worth(as1) - pre
      <4>1. /\ as1.supplied.balance \in Nat /\ as1.reserved \in Nat /\ as1.prot_fee \in Nat
            /\ as1.margin_debt.balance \in Nat
        BY <3>3, AssetNumbers
      <4> QED BY <1>1, <1>3, <3>5, <3>6, <4>1 DEF Worth
    <3>8. amount > pre
      BY <1>1, <1>4, <2>1
    <3>9. Worth(again) = Worth(ast) - amount
      BY <1>1, <1>3, <1>4, <3>3, <3>7
    <3>10. again.supplied.shares = ast.supplied.shares + n
      BY <3>3, <3>6
    <3>11. PriceNotLower(ast.supplied, again.supplied)
      BY <3>4, <3>6
    <3> QED BY <1>1, <1>2, <3>1, <3>2, <3>5, <3>6, <3>8, <3>9, <3>10, <3>11
  <2>2. CASE ~(gap > 0)
    <3>1. n = 0 /\ sold = amount /\ again = [ast EXCEPT !.position = @ + amount]
      BY <1>4, <1>6, <1>7, <2>2
    <3>2. ast.position + amount \in Nat
      BY <1>1, <1>3
    <3>3. /\ again \in AssetType /\ again.supplied = ast.supplied
          /\ again.position = ast.position + amount
          /\ again.pending = ast.pending /\ again.margin_debt = ast.margin_debt
          /\ again.reserved = ast.reserved /\ again.prot_fee = ast.prot_fee
          /\ again.hp = ast.hp
      BY <1>3, <3>1, <3>2 DEF AssetType
    <3>4. Worth(again) = Worth(ast) - amount
      <4>1. ast.reserved \in Nat /\ ast.prot_fee \in Nat /\ ast.margin_debt.balance \in Nat
        BY <1>3, AssetNumbers
      <4> QED BY <1>1, <1>3, <3>3, <4>1 DEF Worth
    <3>5. PriceNotLower(ast.supplied, again.supplied)
      BY <1>3, <3>3, NoSupplyChange DEF SupplyChange
    <3> QED BY <1>1, <1>3, <3>1, <3>3, <3>4, <3>5
  <2> QED BY <2>1, <2>2
<1>9. /\ Normalized(again) \in AssetType /\ SameDebt(again, Normalized(again))
      /\ Normalized(again).supplied.shares = again.supplied.shares
      /\ Worth(Normalized(again)) = Worth(again)
      /\ SupplySound(Normalized(again))
  BY <1>5, <1>8, NormalizedAsset
<1>10. PriceNotLower(ast.supplied, Normalized(again).supplied)
  BY <1>3, <1>8, NormalizedPrice
<1> QED BY <1>2, <1>8, <1>9, <1>10 DEF SameDebt, sold, n, again, ast, amount, pre

\* The callback undoes any other trade: the invariant is kept.
LEMMA RevertedDecreaseInv ==
  ASSUME Inv, NEW i \in PosIds, At(i, "sent"), trade[i].op # "open", CanRevert(i),
         RevertedDecrease(i), acting' = acting \ {i}, trade' = [trade EXCEPT ![i] = NoTrade],
         UNCHANGED <<supplied, opened, debts, price, cash>>
  PROVE  Stepped /\ SuppliersKept
<1> DEFINE pos   == position[i]
           tr    == trade[i]
           p     == pos.p
           n     == GapShares(i)
           sold  == Least(tr.amount_in, tr.pre)
           after == Normalized(HeldAgain(i))
           new   == [pos EXCEPT !.c_shares = pos.c_shares + n, !.p_amount = tr.pre,
                                !.is_locking = FALSE]
<1>1. /\ tr # NoTrade /\ tr.stage = "sent" /\ tr \in TradeType
      /\ tr.amount_in \in Nat /\ tr.pre \in Nat
      /\ pos # NoPosition /\ pos.is_locking
  BY TradeFields DEF At
<1>2. /\ pos \in PositionType /\ p \in Tokens /\ pos.c \in Tokens /\ pos.d \in Tokens
      /\ pos.c_shares \in Nat /\ pos.p_amount \in Nat /\ Fits(i) /\ PositionFits(i)
  BY <1>1, PositionFields
<1>3. TypeOK /\ AllSound /\ asset \in [Tokens -> AssetType]
  BY DEF Inv, TypeOK
<1>4. /\ asset' = [asset EXCEPT ![p] = after]
      /\ position' = [position EXCEPT ![i].c_shares = @ + n, ![i].p_amount = tr.pre,
                                      ![i].is_locking = FALSE]
      /\ UNCHANGED <<margin, stop>>
  BY DEF RevertedDecrease
<1>5. /\ n \in Nat /\ (n > 0 => pos.c = p)
      /\ sold \in Nat /\ pos.p_amount = tr.pre - sold
      /\ after \in AssetType /\ SupplySound(after)
      /\ after.supplied.shares = asset[p].supplied.shares + n
      /\ after.position = asset[p].position + sold
      /\ after.pending = asset[p].pending /\ after.margin_debt = asset[p].margin_debt
      /\ after.hp = asset[p].hp
      /\ Worth(after) = Worth(asset[p]) - tr.amount_in
      /\ PriceNotLower(asset[p].supplied, after.supplied)
  BY HeldAgainAsset
<1> HIDE DEF n, sold, after
<1>6. position' = [position EXCEPT ![i] = new]
  BY <1>2, <1>3, <1>4 DEF TypeOK, PositionType
<1>7. /\ new \in PositionType
      /\ new.account = pos.account /\ new.c = pos.c /\ new.d = pos.d /\ new.p = p
      /\ new.c_shares = pos.c_shares + n /\ new.d_shares = pos.d_shares
      /\ new.p_amount = tr.pre
      /\ new.uahpi_at_open = pos.uahpi_at_open /\ ~new.is_locking
  <2>1. pos.c_shares + n \in Nat
    BY <1>2, <1>5
  <2> QED BY <1>1, <1>2, <2>1 DEF PositionType
<1>8. new # NoPosition
  BY <1>7, NoRecordsAssumption
<1> HIDE DEF new
<1>9. /\ asset'[p] = after /\ \A t \in Tokens \ {p} : asset'[t] = asset[t]
      /\ position'[i] = new /\ trade'[i] = NoTrade /\ stop'[i] = stop[i]
      /\ OnlyPosition(i)
  BY <1>2, <1>3, <1>4, <1>6 DEF TypeOK, OnlyPosition
<1>10. TypeOK'
  <2>1. asset' \in [Tokens -> AssetType] /\ acting' \subseteq PosIds
    BY <1>3, <1>4, <1>5 DEF TypeOK
  <2>2. /\ position' \in [PosIds -> PositionType \cup {NoPosition}]
        /\ trade' \in [PosIds -> TradeType \cup {NoTrade}]
    BY <1>3, <1>6, <1>7 DEF TypeOK
  <2> QED BY <1>3, <1>4, <2>1, <2>2 DEF TypeOK
<1>11. AllSound'
  BY <1>3, <1>5, <1>9 DEF AllSound
<1>12. \A t \in Tokens : asset[t] \in AssetType /\ asset[t].hp \in Nat
  BY InvFields, AssetNumbers
<1>13. \A t \in Tokens : asset'[t].hp = asset[t].hp
  BY <1>5, <1>9
<1>14. Touches(i)
  BY <1>9, <1>12, <1>13 DEF Touches
<1>15. Fits(i)'
  <2>1. PositionFits(i)'
    BY <1>2, <1>7, <1>9, <1>13 DEF PositionFits
  <2> QED BY <1>2, <1>7, <1>8, <1>9, <2>1 DEF Fits
<1>16. ASSUME NEW t \in Tokens
       PROVE  Balanced(i, t) /\ SharesStay(i, t) /\ TokensStay(i, t)
  <2>1. /\ asset[t].pending \in Nat /\ asset[t].margin_debt.shares \in Nat
        /\ asset[t].position \in Nat /\ asset[t].supplied.shares \in Nat
        /\ Worth(asset[t]) \in Int /\ cash[t] \in Nat /\ debts[t] \in Nat
        /\ Entries(supplied, margin, t) \in Nat
    BY <1>12, InvFields, AssetNumbers
  <2>2. /\ AskedIn(pos, tr, t) = 0 /\ AwayIn(pos, tr, t) = 0
        /\ OnSaleIn(pos, tr, t) = (IF t = p THEN tr.amount_in ELSE 0)
        /\ AskedIn(new, NoTrade, t) = 0 /\ AwayIn(new, NoTrade, t) = 0
        /\ OnSaleIn(new, NoTrade, t) = 0
    BY <1>1 DEF AskedIn, AwayIn, OnSaleIn
  <2>3. /\ OwedIn(new, t) = OwedIn(pos, t)
        /\ PledgedIn(pos, t) = (IF t = pos.c THEN pos.c_shares ELSE 0)
        /\ PledgedIn(new, t) = (IF t = pos.c THEN pos.c_shares + n ELSE 0)
        /\ BoughtIn(pos, t) = (IF t = p THEN pos.p_amount ELSE 0)
        /\ BoughtIn(new, t) = (IF t = p THEN tr.pre ELSE 0)
    BY <1>1, <1>7, <1>8 DEF OwedIn, PledgedIn, BoughtIn
  <2>4. Records(pos, tr, stop[i])
    BY <1>3 DEF TypeOK, Records
  <2>5. OwedIn(pos, t) \in Nat /\ FeeIn(stop[i], t) \in Nat
    BY <2>4, EntryTypes
  <2>6. Balanced(i, t)
    <3>1. CASE t = p
      BY <1>1, <1>5, <1>9, <2>1, <2>2, <2>3, <2>5, <3>1 DEF Balanced
    <3>2. CASE t # p
      BY <1>9, <2>1, <2>2, <2>3, <2>5, <3>2 DEF Balanced
    <3> QED BY <3>1, <3>2
  <2>7. NewShares(t) = IF t = p THEN n ELSE 0
    BY <1>5, <1>9, <2>1 DEF NewShares
  <2>8. Gained(t) = 0
    BY <1>4, <2>1 DEF Gained
  <2>9. SharesStay(i, t)
    BY <1>2, <1>5, <1>9, <2>3, <2>7, <2>8 DEF SharesStay
  <2>10. Came(t) = IF t = p THEN 0 - tr.amount_in ELSE 0
    <3>1. CASE t = p
      BY <1>1, <1>5, <1>9, <2>1, <3>1 DEF Came
    <3>2. CASE t # p
      BY <1>9, <2>1, <3>2 DEF Came
    <3> QED BY <3>1, <3>2
  <2>11. TokensStay(i, t)
    BY <1>1, <1>9, <2>2, <2>5, <2>10 DEF TokensStay
  <2> QED BY <2>6, <2>9, <2>11
<1>17. SuppliersKept
  BY ONLY <1>2, <1>4, <1>5, Inv, OneAssetKept
<1> QED BY <1>10, <1>11, <1>14, <1>15, <1>16, <1>17, StepInv

\* callback_dex_trade keeps the invariant, whether it aborts or not.
LEMMA TradeFailedInv ==
  ASSUME Inv, NEW i \in PosIds, TradeFailed(i)
  PROVE  Stepped /\ SuppliersKept
<1>1. CASE ~CanRevert(i)
  <2>1. /\ trade[i] # NoTrade /\ trade[i].stage = "sent"
        /\ trade' = [trade EXCEPT ![i].stage = "unreverted"]
        /\ UNCHANGED <<asset, supplied, margin, position, opened, stop, acting, debts, price, cash>>
    BY <1>1 DEF TradeFailed, At, Moved
  <2> QED BY <2>1, StageOnlyInv
<1>2. CASE CanRevert(i) /\ trade[i].op = "open"
  BY <1>2, RevertedOpenInv DEF TradeFailed
<1>3. CASE CanRevert(i) /\ trade[i].op # "open"
  BY <1>3, RevertedDecreaseInv DEF TradeFailed
<1> QED BY <1>1, <1>2, <1>3
=============================================================================
